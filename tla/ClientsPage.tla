----------------------------- MODULE ClientsPage -----------------------------
(***************************************************************************)
(* The clients page of one admin: the rows of its query (useClients.ts), the *)
(* dialog that edits or creates a client (ClientsPage.tsx,                    *)
(* ClientFormModal.tsx), the switch of a row, and the confirmations that      *)
(* delete, enable or disable.  The rows leave most of a client out, so the    *)
(* dialog and the switch fetch the full record when they are clicked and      *)
(* write it back later; an edit is saved by up to four requests, one after    *)
(* the other.  Meanwhile other admins edit and delete.                        *)
(*                                                                         *)
(* A client is a row of the server's table, keyed by its id.  Besides its    *)
(* email a client is known by "sub", its subscription id; "key" is its        *)
(* password; "data" stands for the limits, dates, notes and other ids, whose  *)
(* fields travel the same way, "flow" and "adTag" for the fields only some    *)
(* inbounds have: one that an effect clears when it is hidden, and one that   *)
(* the payload leaves out.                                                  *)
(***************************************************************************)
EXTENDS Naturals

CONSTANTS
    Ids,            \* row ids, never used again
    Emails,
    Subs,           \* subscription ids
    Inbounds,
    Mtproto,        \* the inbounds whose clients have an ad tag
    FlowCapable,    \* the inbounds whose clients may have a flow
    Long,           \* Shadowsocks 2022: the inbounds that take a key of one length only
    Slots,          \* fetches of full records under way
    NoClient,       \* no such row
    FirstClients,   \* the tables it may start with
    MaxOps          \* bound: clicks that start a request, edits by others, and the
                    \*   fields a user changes in a dialog after the first

\* A total that is no whole hundredth of a gigabyte, or days that are not
\* whole, are "odd".
Data == {"odd", "even", "new", "theirs"}
Keys == {"none", "short", "long", "fresh"}
Flows == {"none", "flow"}
Tags == {"none", "tag"}
Links == {"none", "links"}
Clients == [email : Emails, sub : Subs, data : Data, enable : BOOLEAN, key : Keys, flow : Flows,
            adTag : Tags, links : Links, inbounds : SUBSET Inbounds]

ASSUME ClientsAssumption ==
    /\ Mtproto \subseteq Inbounds /\ FlowCapable \subseteq Inbounds /\ Long \subseteq Inbounds
    /\ Ids # {} /\ Emails # {} /\ Subs # {} /\ NoClient \notin Clients \cup Ids \cup Emails
    /\ FirstClients \subseteq [Ids -> Clients \cup {NoClient}]
    /\ \A table \in FirstClients, i, j \in Ids :
         (i # j /\ table[i] # NoClient /\ table[j] # NoClient) => table[i].email # table[j].email
    /\ MaxOps \in Nat

VARIABLES
    server,         \* the server's table
    used,           \* the ids it has given out
    replaced,       \* history: the rows whose sub a write has replaced
    rows,           \* the rows the query holds
    fetch,          \* the fetches of edits and switches, and the switches' updates
    togglingEmail,  \* the row whose switch is locked, or NoClient
    clientDialog,   \* formOpen, formMode, what the dialog was given, and its form;
                    \*   of the form: the row it shows, the record it was filled
                    \*   from if that was a full one, the fields changed since
    save,           \* onSave: its step, the request of that step, whether
                    \*   anybody else has written the row since the first, the
                    \*   inbounds the row had then, and whether the client was new
    confirm,        \* the confirmation on the screen
    bulk,           \* its request
    ops             \* clicks, edits by others and further fields left

clientsVars == <<server, used, replaced, rows, fetch, togglingEmail, clientDialog, save, confirm,
                 bulk, ops>>

\* What a row shows: ClientSlim.
Slim(c) == [c EXCEPT !.key = "none", !.flow = "none", !.adTag = "none", !.links = "none"]
Shown(table) == [i \in Ids |-> IF table[i] = NoClient THEN NoClient ELSE Slim(table[i])]

\* The keys of a new client are random and too short for Shadowsocks 2022.
Blank == CHOOSE c \in Clients : /\ c.data = "even" /\ c.enable /\ c.key = "short" /\ c.flow = "none"
                                /\ c.adTag = "none" /\ c.links = "none" /\ c.inbounds = {}
NotFetching == [st |-> "none", for |-> "edit", next |-> FALSE, row |-> Blank, id |-> NoClient,
                full |-> NoClient]
NoDialog == [open |-> FALSE, mode |-> "add", client |-> NoClient, attached |-> {},
             form |-> Blank, seed |-> NoClient, base |-> NoClient, changed |-> {}]
ClosedIn(mode) == [NoDialog EXCEPT !.mode = mode]
NotSaving == [st |-> "none", at |-> "sent", email |-> NoClient, payload |-> Blank, attach |-> {},
              detach |-> {}, seed |-> NoClient, base |-> NoClient, changed |-> {}, id |-> NoClient,
              alone |-> TRUE, had |-> {}, made |-> "edit"]
NoConfirm == [kind |-> "none", emails |-> {}]
NoBulk == [st |-> "none", kind |-> "delete", emails |-> {}]

-----------------------------------------------------------------------------
(* The server.                                                             *)

\* A random email, and a random subscription id, is nobody's.
UnusedEmails == {e \in Emails : \A i \in Ids : server[i] # NoClient => server[i].email # e}
UnusedSubs == {s \in Subs : \A i \in Ids : server[i] # NoClient => server[i].sub # s}
Holders(email) == {i \in Ids : server[i] # NoClient /\ server[i].email = email}

\* Update writes the payload over the row the email names.  It refuses an
\* email or a subscription id of another row.
\* Mutant: only a changed subscription id is looked up, as for the email.
MutTaken(i, p) == \E j \in Ids \ {i} : server[j] # NoClient /\ server[j].email = p.email
Taken(i, p) == \E j \in Ids \ {i} : server[j] # NoClient /\ (server[j].email = p.email \/ server[j].sub = p.sub)

\* fillProtocolDefaults replaces a key that an inbound does not take.
Misfit(key, inbounds) == key \in {"none", "short"} /\ inbounds \cap Long # {}
Fitted(key, inbounds) == IF Misfit(key, inbounds) THEN "fresh" ELSE key

\* A flow is kept with each inbound that may have one, and nowhere else.
FlowIn(flow, inbounds) == IF inbounds \cap FlowCapable = {} THEN "none" ELSE flow

\* A key left out stays as it is.
KeyOf(c, p) == IF p.key = "none" THEN c.key ELSE p.key

\* The payload reaches the row by way of its inbounds; a row that has none
\* gets the columns which are written apart from them.
Written(c, p) ==
    LET apart == [c EXCEPT !.email = p.email, !.enable = p.enable, !.adTag = p.adTag]
    IN IF c.inbounds = {} THEN apart
       ELSE [apart EXCEPT !.sub = p.sub, !.data = p.data, !.key = Fitted(KeyOf(c, p), c.inbounds),
                          !.flow = FlowIn(p.flow, c.inbounds)]

\* A row may come to have the sub of one that is gone.
WriteRow(i, c) ==
    /\ server' = [server EXCEPT ![i] = c]
    /\ replaced' = IF c.sub = server[i].sub THEN replaced ELSE replaced \cup {i}

\* The inbounds are written one by one, each with the record's own columns;
\* the ad tag is written last.
PartlyWritten(c, p) ==
    {[Written(c, p) EXCEPT !.adTag = c.adTag, !.key = k, !.flow = f] :
       k \in {KeyOf(c, p), Written(c, p).key}, f \in {c.flow, Written(c, p).flow}}

-----------------------------------------------------------------------------
(* The query.                                                              *)

\* Its poll, or the answer to an invalidation.
RefetchList ==
    /\ rows' = Shown(server)
    /\ UNCHANGED <<server, used, replaced, fetch, togglingEmail, clientDialog, save, confirm, bulk, ops>>

-----------------------------------------------------------------------------
(* Fetching the full record: hydrate.                                      *)

Click == ops > 0 /\ ops' = ops - 1

\* onEdit sets the mode at once and opens the dialog when the record is here.
\* The page is under the dialog while one is open.
OnEdit(s, i) ==
    /\ Click /\ ~clientDialog.open /\ confirm.kind = "none"
    /\ rows[i] # NoClient /\ fetch[s].st = "none"
    /\ fetch' = [fetch EXCEPT ![s] = [NotFetching EXCEPT !.st = "sent", !.row = rows[i], !.id = i]]
    /\ clientDialog' = [clientDialog EXCEPT !.mode = "edit"]
    /\ UNCHANGED <<server, used, replaced, rows, togglingEmail, save, confirm, bulk>>

\* The switch of a row, locked only while it is the last one clicked.
OnToggleEnable(s, i) ==
    /\ Click /\ ~clientDialog.open /\ confirm.kind = "none"
    /\ rows[i] # NoClient /\ fetch[s].st = "none" /\ togglingEmail # rows[i].email
    /\ fetch' = [fetch EXCEPT ![s] = [NotFetching EXCEPT !.st = "sent", !.for = "toggle",
                                        !.row = rows[i], !.id = i, !.next = ~rows[i].enable]]
    /\ togglingEmail' = rows[i].email
    /\ UNCHANGED <<server, used, replaced, rows, clientDialog, save, confirm, bulk>>

\* The server answers with the record of that email; NoClient is a failure
\* of any kind.
Hydrate(s) ==
    /\ fetch[s].st = "sent"
    /\ \/ \E i \in Holders(fetch[s].row.email) :
            fetch' = [fetch EXCEPT ![s] = [@ EXCEPT !.st = "answered", !.id = i, !.full = server[i]]]
       \/ fetch' = [fetch EXCEPT ![s].st = "answered"]
    /\ UNCHANGED <<server, used, replaced, rows, togglingEmail, clientDialog, save, confirm, bulk, ops>>

\* The form shows a total in hundredths of a gigabyte and a delayed start in
\* whole days.
Rounded(data) == IF data = "odd" THEN "even" ELSE data

\* The effect that fills the form runs when the dialog opens or its mode
\* changes, not when it is given another client; another clears the flow
\* when no inbound chosen may have one.
\* Mutant: the form is filled without the ad tag.
MutSeed(c) == [c EXCEPT !.data = Rounded(@), !.flow = FlowIn(@, c.inbounds), !.adTag = "none"]
Seed(c) == [c EXCEPT !.data = Rounded(@), !.flow = FlowIn(@, c.inbounds)]

\* The effect that replaces a key the inbounds chosen do not take runs when
\* the method they demand changes; the form closed last may have left that
\* method behind.
Rekeyed(form) == {form, [form EXCEPT !.key = Fitted(@, form.inbounds)]}

\* The form of a new client has a random email and subscription id.
NewForm(email, sub) == [Blank EXCEPT !.email = email, !.sub = sub]
NewForms == {NewForm(e, s) : e \in UnusedEmails, s \in UnusedSubs}

\* onEdit goes on.  Without the full record the dialog opens on the row.
OpenEdit(s) ==
    /\ fetch[s].st = "answered" /\ fetch[s].for = "edit"
    /\ LET f == fetch[s]
           c == IF f.full # NoClient THEN f.full ELSE f.row
           given == [clientDialog EXCEPT !.open = TRUE, !.client = c, !.attached = c.inbounds]
       IN \/ clientDialog.open /\ clientDialog' = given
          \/ /\ ~clientDialog.open /\ clientDialog.mode = "edit"
             /\ \E form \in Rekeyed(Seed(c)) :
                  clientDialog' = [given EXCEPT !.form = form, !.seed = f.id,
                                               !.base = f.full, !.changed = {}]
          \/ /\ ~clientDialog.open /\ clientDialog.mode = "add"
             /\ \E form \in NewForms :
                  clientDialog' = [given EXCEPT !.form = form, !.seed = NoClient,
                                               !.base = NoClient, !.changed = {}]
    /\ fetch' = [fetch EXCEPT ![s] = NotFetching]
    /\ UNCHANGED <<server, used, replaced, rows, togglingEmail, save, confirm, bulk, ops>>

-----------------------------------------------------------------------------
(* The switch: setEnable.                                                  *)

\* The payload leaves the ad tag out.
TogglePayload(f) == [f.full EXCEPT !.enable = f.next, !.adTag = "none"]

Toggle(s) ==
    /\ fetch[s].st = "answered" /\ fetch[s].for = "toggle"
    /\ IF fetch[s].full = NoClient
       THEN fetch' = [fetch EXCEPT ![s] = NotFetching] /\ togglingEmail' = NoClient
       ELSE fetch' = [fetch EXCEPT ![s].st = "update"] /\ UNCHANGED togglingEmail
    /\ UNCHANGED <<server, used, replaced, rows, clientDialog, save, confirm, bulk, ops>>

\* The update is carried out, refused or lost, and the switch unlocks.
ToggleUpdate(s) ==
    /\ fetch[s].st = "update"
    /\ \/ \E i \in Holders(fetch[s].row.email) :
            LET p == TogglePayload(fetch[s])
            IN /\ ~Taken(i, p)
               /\ WriteRow(i, Written(server[i], p))
               /\ save' = IF save.id = i THEN [save EXCEPT !.alone = FALSE] ELSE save
       \/ UNCHANGED <<server, replaced, save>>
    /\ fetch' = [fetch EXCEPT ![s].st = "written"]
    /\ UNCHANGED <<used, rows, togglingEmail, clientDialog, confirm, bulk, ops>>

ToggleReturns(s) ==
    /\ fetch[s].st = "written"
    /\ fetch' = [fetch EXCEPT ![s] = NotFetching]
    /\ togglingEmail' = NoClient
    /\ UNCHANGED <<server, used, replaced, rows, clientDialog, save, confirm, bulk, ops>>

-----------------------------------------------------------------------------
(* The dialog.                                                             *)

OnAdd ==
    /\ Click /\ ~clientDialog.open /\ confirm.kind = "none"
    /\ \E form \in NewForms : clientDialog' = [NoDialog EXCEPT !.open = TRUE, !.form = form]
    /\ UNCHANGED <<server, used, replaced, rows, fetch, togglingEmail, save, confirm, bulk>>

\* The inbounds chosen: the flow is cleared when they have none, and a key is
\* made when they are the first to demand one of its length.
Choose(form, ids) ==
    [form EXCEPT !.inbounds = ids, !.flow = FlowIn(@, ids),
                 !.key = IF form.inbounds \cap Long = {} THEN Fitted(@, ids) ELSE @]

\* What the form may become by a change of one field; the flow and the ad tag
\* have one only while an inbound chosen has them.
Fields == {"email", "sub", "data", "enable", "key", "inbounds", "links", "flow", "adTag"}
Changed(field) ==
    LET form == clientDialog.form
    IN CASE field = "email"    -> {[form EXCEPT !.email = e] : e \in Emails}
         [] field = "sub"      -> {[form EXCEPT !.sub = s] : s \in Subs}
         [] field = "data"     -> {[form EXCEPT !.data = "new"]}
         [] field = "enable"   -> {[form EXCEPT !.enable = ~@]}
         [] field = "key"      -> {[form EXCEPT !.key = k] : k \in {"short", "long"}}
         [] field = "inbounds" -> {Choose(form, ids) : ids \in SUBSET Inbounds}
         [] field = "links"    -> {[form EXCEPT !.links = l] : l \in Links}
         [] field = "flow"     -> {[form EXCEPT !.flow = f] :
                                     f \in {v \in Flows : form.inbounds \cap FlowCapable # {}}}
         [] field = "adTag"    -> {[form EXCEPT !.adTag = g] :
                                     g \in {t \in Tags : form.inbounds \cap Mtproto # {}}}

Change ==
    /\ clientDialog.open
    /\ IF clientDialog.changed = {} THEN UNCHANGED ops ELSE Click
    /\ \E field \in Fields : \E form \in Changed(field) :
            clientDialog' = [clientDialog EXCEPT !.form = form, !.changed = @ \cup {field}]
    /\ UNCHANGED <<server, used, replaced, rows, fetch, togglingEmail, save, confirm, bulk>>

\* Cancel, or a click outside, during a save too.
CloseForm ==
    /\ clientDialog.open
    /\ clientDialog' = ClosedIn(clientDialog.mode)
    /\ UNCHANGED <<server, used, replaced, rows, fetch, togglingEmail, save, confirm, bulk, ops>>

\* Fields that the inbounds chosen hide are left out.
Payload(form) ==
    [form EXCEPT !.flow = FlowIn(@, form.inbounds),
                 !.adTag = IF form.inbounds \cap Mtproto = {} THEN "none" ELSE @]

\* The button is locked by "submitting", which outlives the dialog.
OnSubmit ==
    /\ Click /\ clientDialog.open /\ save.st = "none"
    /\ LET next == clientDialog.form.inbounds
           edit == clientDialog.mode = "edit" /\ clientDialog.client # NoClient
       IN /\ clientDialog.mode = "edit" \/ next # {}
          /\ save' = [st      |-> IF edit THEN "update" ELSE "create",
                      at      |-> "sent",
                      email   |-> IF edit THEN clientDialog.client.email ELSE clientDialog.form.email,
                      payload |-> Payload(clientDialog.form),
                      attach  |-> IF edit THEN next \ clientDialog.attached ELSE {},
                      detach  |-> IF edit THEN clientDialog.attached \ next ELSE {},
                      seed    |-> clientDialog.seed,
                      base    |-> clientDialog.base,
                      changed |-> clientDialog.changed,
                      id      |-> NoClient,
                      alone   |-> TRUE,
                      had     |-> {},
                      made    |-> "edit"]
    /\ UNCHANGED <<server, used, replaced, rows, fetch, togglingEmail, clientDialog, confirm, bulk>>

-----------------------------------------------------------------------------
(* onSave's requests on the server.                                        *)

\* The first request of an edit finds the row; "alone" records whether any
\* other writer touches that row from then on.
ServerUpdates ==
    /\ save.st = "update" /\ save.at = "sent"
    /\ \/ \E i \in Holders(save.email) :
            /\ ~Taken(i, save.payload)
            /\ \/ /\ WriteRow(i, Written(server[i], save.payload))
                  /\ save' = [save EXCEPT !.at = "ok", !.id = i, !.had = server[i].inbounds]
               \/ /\ server[i].inbounds # {}
                  /\ \E c \in PartlyWritten(server[i], save.payload) : WriteRow(i, c)
                  /\ save' = [save EXCEPT !.at = "no"]
       \/ save' = [save EXCEPT !.at = "no"] /\ UNCHANGED <<server, replaced>>
    /\ UNCHANGED <<used, rows, fetch, togglingEmail, clientDialog, confirm, bulk, ops>>

\* A new client goes into its inbounds one by one, the first of which makes
\* its row, and it is enabled whatever the form says.
NewClient(p, done) ==
    [p EXCEPT !.enable = TRUE, !.key = Fitted(@, done), !.flow = FlowIn(@, done), !.links = "none",
              !.inbounds = done]

\* A client that has that email and that subscription id already, from an
\* earlier attempt perhaps, goes into the inbounds that it is not in; the
\* row is written with them, or not at all.
KnownClient(c, p, done) ==
    IF done \subseteq c.inbounds THEN c
    ELSE [p EXCEPT !.enable = TRUE, !.key = Fitted(KeyOf(c, p), done), !.links = c.links,
                   !.flow = IF c.flow = "none" THEN FlowIn(@, done \ c.inbounds) ELSE c.flow,
                   !.adTag = IF @ = "none" THEN c.adTag ELSE @,
                   !.inbounds = c.inbounds \cup done]

\* A failure at one of the inbounds leaves the client in those before it.
ServerCreates ==
    /\ save.st = "create" /\ save.at = "sent"
    /\ \/ \E done \in SUBSET save.payload.inbounds \ {{}} :
            /\ \A j \in Ids : (server[j] # NoClient /\ server[j].sub = save.payload.sub)
                                => server[j].email = save.payload.email
            /\ \/ \E i \in Ids \ used :
                    /\ Holders(save.payload.email) = {}
                    /\ server' = [server EXCEPT ![i] = NewClient(save.payload, done)]
                    /\ used' = used \cup {i}
                    /\ save' = [save EXCEPT !.at = IF done = save.payload.inbounds THEN "ok" ELSE "no",
                                           !.id = i, !.had = done, !.made = "new"]
               \/ \E i \in Holders(save.payload.email) :
                    /\ server[i].sub = save.payload.sub
                    /\ server' = [server EXCEPT ![i] = KnownClient(@, save.payload, done)]
                    /\ save' = [save EXCEPT !.at = IF done = save.payload.inbounds THEN "ok" ELSE "no",
                                           !.id = i, !.had = done, !.made = "known"]
                    /\ UNCHANGED used
       \/ save' = [save EXCEPT !.at = "no"] /\ UNCHANGED <<server, used>>
    /\ UNCHANGED <<replaced, rows, fetch, togglingEmail, clientDialog, confirm, bulk, ops>>

\* Attach and detach go through the inbounds one by one and stop at the
\* first that fails.  A client attached takes along the flow that it has with
\* its other inbounds, and the key made for one inbound is not given to the
\* next, which may be the last to write it.
Moved(c, done) ==
    IF save.st = "attach"
    THEN {[c EXCEPT !.inbounds = @ \cup done, !.key = k] : k \in {c.key, Fitted(c.key, done \ c.inbounds)}}
    ELSE {[c EXCEPT !.inbounds = @ \ done, !.flow = FlowIn(@, c.inbounds \ done)]}

ServerMoves ==
    /\ save.st \in {"attach", "detach"} /\ save.at = "sent"
    /\ LET asked == IF save.st = "attach" THEN save.attach ELSE save.detach
       IN \/ \E i \in Holders(save.payload.email), done \in SUBSET asked :
               /\ \E c \in Moved(server[i], done) : server' = [server EXCEPT ![i] = c]
               /\ save' = [save EXCEPT !.at = IF done = asked THEN "ok" ELSE "no"]
          \/ save' = [save EXCEPT !.at = "no"] /\ UNCHANGED server
    /\ UNCHANGED <<used, replaced, rows, fetch, togglingEmail, clientDialog, confirm, bulk, ops>>

\* The set of links is replaced.
ServerSetsLinks ==
    /\ save.st = "links" /\ save.at = "sent"
    /\ \/ \E i \in Holders(save.payload.email) :
            /\ server' = [server EXCEPT ![i].links = save.payload.links]
            /\ save' = [save EXCEPT !.at = "ok"]
       \/ save' = [save EXCEPT !.at = "no"] /\ UNCHANGED server
    /\ UNCHANGED <<used, replaced, rows, fetch, togglingEmail, clientDialog, confirm, bulk, ops>>

-----------------------------------------------------------------------------
(* onSave's steps.                                                         *)

\* The request after a step that succeeded: a list that is empty needs none;
\* the links of an edit are always sent, those of a new client only if any.
\* Mutant: a client whose inbounds grew is not detached from any.
MutAfter(st) ==
    IF st = "create" THEN IF save.payload.links # "none" THEN "links" ELSE "done"
    ELSE IF st = "update" /\ save.attach # {} THEN "attach"
    ELSE IF st = "update" /\ save.detach # {} THEN "detach"
    ELSE IF st = "links" THEN "done" ELSE "links"
After(st) ==
    IF st = "create" THEN IF save.payload.links # "none" THEN "links" ELSE "done"
    ELSE IF st = "update" /\ save.attach # {} THEN "attach"
    ELSE IF st \in {"update", "attach"} /\ save.detach # {} THEN "detach"
    ELSE IF st = "links" THEN "done" ELSE "links"

\* A step succeeded; the last one closes the dialog that is open by then.
SaveGoesOn ==
    /\ save.at = "ok"
    /\ IF After(save.st) = "done"
       THEN /\ save' = NotSaving
            /\ clientDialog' = ClosedIn(clientDialog.mode)
       ELSE /\ save' = [save EXCEPT !.st = After(save.st), !.at = "sent"]
            /\ UNCHANGED clientDialog
    /\ UNCHANGED <<server, used, replaced, rows, fetch, togglingEmail, confirm, bulk, ops>>

\* A step failed, or its answer is lost: the rest is not sent and the dialog
\* stays as it is.
SaveFails ==
    /\ save.st # "none" /\ save.at \in {"no", "ok", "sent"}
    /\ save' = NotSaving
    /\ UNCHANGED <<server, used, replaced, rows, fetch, togglingEmail, clientDialog, confirm, bulk, ops>>

-----------------------------------------------------------------------------
(* Confirmations: onDelete, onBulkDelete, onBulkSetEnable.                  *)

\* The emails are taken when the confirmation opens: of one row, or of the
\* rows ticked.
OpenConfirm ==
    /\ Click /\ ~clientDialog.open /\ confirm.kind = "none" /\ bulk.st = "none"
    /\ \E kind \in {"delete", "enable", "disable"}, i, j \in Ids :
         /\ rows[i] # NoClient /\ rows[j] # NoClient
         /\ confirm' = [kind |-> kind, emails |-> {rows[i].email, rows[j].email}]
    /\ UNCHANGED <<server, used, replaced, rows, fetch, togglingEmail, clientDialog, save, bulk>>

AnswerConfirm ==
    /\ confirm.kind # "none"
    /\ \/ bulk' = [st |-> "sent", kind |-> confirm.kind, emails |-> confirm.emails]
       \/ UNCHANGED bulk
    /\ confirm' = NoConfirm
    /\ UNCHANGED <<server, used, replaced, rows, fetch, togglingEmail, clientDialog, save, ops>>

\* The server goes through the emails and skips those it refuses.
BulkStored(c) == IF bulk.kind = "delete" THEN NoClient ELSE [c EXCEPT !.enable = (bulk.kind = "enable")]

ServerBulk ==
    /\ bulk.st = "sent"
    /\ \E done \in SUBSET {i \in Ids : server[i] # NoClient /\ server[i].email \in bulk.emails} :
         /\ server' = [i \in Ids |-> IF i \in done THEN BulkStored(server[i]) ELSE server[i]]
         /\ save' = IF save.id \in done THEN [save EXCEPT !.alone = FALSE] ELSE save
    /\ bulk' = NoBulk
    /\ UNCHANGED <<used, replaced, rows, fetch, togglingEmail, clientDialog, confirm, ops>>

-----------------------------------------------------------------------------
\* Another admin edits, renames, or deletes a client, or gives it another
\* subscription id.
OtherAdmin(i) ==
    /\ Click /\ server[i] # NoClient
    /\ \/ WriteRow(i, Written(server[i], [server[i] EXCEPT !.data = "theirs", !.adTag = "none"]))
       \/ \E e \in UnusedEmails : WriteRow(i, [server[i] EXCEPT !.email = e])
       \/ \E s \in UnusedSubs : WriteRow(i, [server[i] EXCEPT !.sub = s])
       \/ \E ib \in Inbounds : WriteRow(i, [server[i] EXCEPT !.inbounds = @ \cup {ib},
                                                             !.key = Fitted(@, {ib})])
       \/ server' = [server EXCEPT ![i] = NoClient] /\ UNCHANGED replaced
    /\ save' = IF save.id = i THEN [save EXCEPT !.alone = FALSE] ELSE save
    /\ UNCHANGED <<used, rows, fetch, togglingEmail, clientDialog, confirm, bulk>>

ClientsInit ==
    /\ server \in FirstClients
    /\ used = {i \in Ids : server[i] # NoClient}
    /\ replaced = {}
    /\ rows = Shown(server)
    /\ fetch = [s \in Slots |-> NotFetching]
    /\ togglingEmail = NoClient
    /\ clientDialog = NoDialog
    /\ save = NotSaving
    /\ confirm = NoConfirm
    /\ bulk = NoBulk
    /\ ops = MaxOps

ClientsNext ==
    \/ RefetchList
    \/ \E s \in Slots, i \in Ids : OnEdit(s, i)
    \/ \E s \in Slots, i \in Ids : OnToggleEnable(s, i)
    \/ \E s \in Slots : Hydrate(s)
    \/ \E s \in Slots : OpenEdit(s)
    \/ \E s \in Slots : Toggle(s)
    \/ \E s \in Slots : ToggleUpdate(s)
    \/ \E s \in Slots : ToggleReturns(s)
    \/ OnAdd
    \/ Change
    \/ CloseForm
    \/ OnSubmit
    \/ ServerUpdates
    \/ ServerCreates
    \/ ServerMoves
    \/ ServerSetsLinks
    \/ SaveGoesOn
    \/ SaveFails
    \/ OpenConfirm
    \/ AnswerConfirm
    \/ ServerBulk
    \/ \E i \in Ids : OtherAdmin(i)

ClientsSpec == ClientsInit /\ [][ClientsNext]_clientsVars

-----------------------------------------------------------------------------
\* The first request of an edit whose subscription id the user left alone
\* writes the row whose client the dialog shows, whatever other record it has
\* been given since and whoever has that email now, as long as that row exists
\* and no write has ever put another subscription id in it.
EditsRowShown ==
    [][ (save.st = "update" /\ save.at = "sent" /\ save'.st = "update" /\ save'.at # "sent"
           /\ "sub" \notin save.changed) =>
          \A i \in Ids : server'[i] # server[i] =>
             (i = save.seed \/ server[save.seed] = NoClient \/ save.seed \in replaced) ]_clientsVars

\* An edit of a full record nobody has changed meanwhile writes the fields
\* the user changed and leaves every other as it was, but for the rounding of
\* what the form shows rounded.  The key goes only when an inbound of the
\* client does not take it or the user chose other inbounds, the flow and the
\* ad tag only with the inbounds that have them.
UntouchedKept ==
    [][ (save.st = "update" /\ save.at = "sent" /\ save'.at = "ok") =>
          LET i == save.seed
              left == Fields \ save.changed
              was == server[i]
              is == server'[i]
          IN (i \in Ids /\ was = save.base /\ is # NoClient) =>
               /\ "sub" \in left => is.sub = was.sub
               /\ "email" \in left => is.email = was.email
               /\ "data" \in left => is.data \in {was.data, Rounded(was.data)}
               /\ "enable" \in left => is.enable = was.enable
               /\ is.inbounds = was.inbounds /\ is.links = was.links
               /\ ({"key", "inbounds"} \subseteq left /\ ~Misfit(was.key, was.inbounds))
                     => is.key = was.key
               /\ ({"flow", "inbounds"} \subseteq left /\ was.inbounds \cap FlowCapable # {})
                     => is.flow = was.flow
               /\ ("adTag" \in left /\ save.payload.inbounds \cap Mtproto # {})
                     => is.adTag = was.adTag ]_clientsVars

\* A save that reports success has stored the whole form, of which the
\* requests sent one after the other each carry a part, unless another has
\* written that row in between or the client to be created was there already.
\* It leaves out: of a row that had no inbounds at its first request what is
\* kept with them; the flow, if that row had no inbound for it then; a key an
\* inbound does not take; and that a new client was to be disabled.
SavedWhole ==
    [][ (/\ save.st # "none" /\ save.at = "ok" /\ After(save.st) = "done"
         /\ clientDialog' # clientDialog /\ save.alone /\ save.made # "known") =>
          LET c == server[save.id]
              p == save.payload
          IN /\ c # NoClient
             /\ c.email = p.email /\ c.adTag = p.adTag /\ c.links = p.links
             /\ c.enable = (p.enable \/ save.made = "new")
             /\ save.had # {} => c.sub = p.sub /\ c.data = p.data
             /\ (save.had # {} /\ p.key # "none" /\ ~Misfit(p.key, save.had \cup save.attach))
                   => c.key = p.key
             /\ (save.had \cap FlowCapable # {} /\ c.inbounds \cap FlowCapable # {})
                   => c.flow = p.flow
             /\ save.attach \subseteq c.inbounds /\ save.detach \cap c.inbounds = {} ]_clientsVars
=============================================================================
