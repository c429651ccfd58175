----------------------------- MODULE InboundsPage -----------------------------
(***************************************************************************)
(* The inbounds page of one admin (src/frontend/src/pages/inbounds): the     *)
(* rows it shows, which start as the query's list and are then changed row    *)
(* by row, the switch of a row, the form that edits or adds an inbound with   *)
(* its fallbacks, and the dialogs that delete, clone, attach and detach.  The *)
(* list a page fetches leaves the keys of the clients out; the form has to    *)
(* send them back.  Meanwhile other admins change the same inbounds, and the  *)
(* traffic job disables them.                                               *)
(*                                                                         *)
(* "conf" stands for the fields of an inbound the form edits; "cl" says for  *)
(* each client how the settings hold it: whole ("full"), with its key and     *)
(* without what the form's schema does not know, such as its speed limits     *)
(* ("bare"), without its key ("slim"), or with a key that the server made     *)
(* anew ("fresh").                                                          *)
(***************************************************************************)
EXTENDS LiveFeed

CONSTANTS
    Rows,           \* ids of inbounds, never used again
    Keyed,          \* those of a protocol whose schema requires the key of a client:
                    \*   VLESS, VMess, Trojan, Hysteria
    Remade,         \* those whose missing keys the server makes: Shadowsocks-2022, MTProto
    Hosts,          \* those that take fallbacks: VLESS or Trojan over TCP with TLS
    Mails,
    Dests,          \* fallbacks
    Gone,           \* no such row
    FirstRows,
    Budgets         \* bounds: [clicks, others, faults, drops], one of them for a behaviour

Confs == {"old", "new", "theirs"}
Own == {"full", "bare"}
Clients == [Mails -> {"none", "slim", "fresh"} \cup Own]
Row == [conf : Confs, enable : BOOLEAN, cl : Clients]
Lists == [Rows -> Row \cup {Gone}]

ASSUME PageAssumption ==
    /\ Keyed \subseteq Rows /\ Hosts \subseteq Keyed /\ Remade \subseteq Rows \ Keyed /\ Gone \notin Row
    /\ FirstRows \in Lists
    /\ \A i \in Rows : FirstRows[i] # Gone => \A m \in Mails : FirstRows[i].cl[m] # "slim"

VARIABLES
    srv,            \* the server's inbounds
    used,           \* the ids it has given out
    fbs,            \* and its fallbacks
    rows,           \* dbInbounds
    toggles,        \* setEnable requests: [id, next, previous, st, same]; same: the
                    \*   record whose switch was clicked is still on the page
    hydrate,        \* the request for a full record: [st, id, row, key, got]
    loads,          \* requests for fallbacks: [id, st, got]
    form,           \* InboundFormModal: [open, mode, id, row, fb]
    save,           \* its requests: [st, mode, id, row, fb]
    confirm,        \* the dialog over the page: [kind, ids, row]
    request,        \* what was confirmed, and where it is
    left            \* what is left of the bounds

page == <<rows, toggles, hydrate, loads, form, save, confirm, request>>
vars == <<connection, wire, query, srv, used, fbs, page, left>>

NoRow == CHOOSE r \in Row : r.conf = "new" /\ r.enable /\ \A m \in Mails : r.cl[m] = "none"
NoHydrate == [st |-> "none", id |-> Gone, row |-> NoRow, key |-> "edit", got |-> Gone]
NoForm == [open |-> FALSE, mode |-> "add", id |-> Gone, row |-> NoRow, fb |-> {}]
NoSave == [st |-> "none", mode |-> "add", id |-> Gone, row |-> NoRow, fb |-> {}]
NoConfirm == [kind |-> "none", ids |-> {}, row |-> NoRow]

Click == left.clicks > 0 /\ left' = [left EXCEPT !.clicks = @ - 1]
Somebody == left.others > 0 /\ left' = [left EXCEPT !.others = @ - 1]
Fault == left.faults > 0 /\ left' = [left EXCEPT !.faults = @ - 1]
Drop == left.drops > 0 /\ left' = [left EXCEPT !.drops = @ - 1]

-----------------------------------------------------------------------------
(* The server.                                                             *)

There(list) == {i \in Rows : list[i] # Gone}

\* slimSettingsClients keeps the email of a client and drops its key.
Slim(list) ==
    [i \in Rows |-> IF list[i] = Gone THEN Gone
        ELSE [list[i] EXCEPT !.cl = [m \in Mails |-> IF list[i].cl[m] = "none" THEN "none" ELSE "slim"]]]

\* The list is pushed in full; a switch only says that lists are out of date.
Pushed(list) == Sent([type |-> "inbounds", list |-> list])
OutOfDate == Sent([type |-> "invalidate", list |-> <<>>])

-----------------------------------------------------------------------------
(* The rows on the page.                                                   *)

\* The effect on slimQuery.data: every row is made anew.
\* Mutant: rows the page already has are kept.
MutSeed(list) == [i \in Rows |-> IF rows[i] # Gone THEN rows[i] ELSE list[i]]
Seed(list) == list

TakeList(list) ==
    /\ slim' = list
    /\ rows' = Seed(list)
    /\ toggles' = {[g EXCEPT !.same = FALSE] : g \in toggles}

OnInbounds(c) ==
    /\ \E i \in 1..Len(wire[c]) :
           LET event == wire[c][i]
           IN  event.type = "inbounds" /\ Arrives(c, event) /\ TakeList(event.list)
    /\ UNCHANGED <<invalidateTimer, recent, fetch, srv, used, fbs, hydrate, loads, form, save, confirm,
                   request, left>>

FetchReturns ==
    /\ fetch.st = "answered"
    /\ TakeList(fetch.list)
    /\ fetch' = NoFetch
    /\ UNCHANGED <<invalidateTimer, recent, wire, srv, used, fbs, hydrate, loads, form, save, confirm,
                   request, left>> /\ UNCHANGED connection

\* applyClientStatsEvent writes into the records it finds.
OnClientStats(c) ==
    /\ \E i \in 1..Len(wire[c]) :
           LET event == wire[c][i]
           IN  /\ event.type = "client_stats" /\ Arrives(c, event)
               /\ rows' = [j \in Rows |-> IF rows[j] = Gone \/ event.list[j] = Gone THEN rows[j]
                                          ELSE [rows[j] EXCEPT !.enable = event.list[j].enable]]
    /\ UNCHANGED <<query, srv, used, fbs, toggles, hydrate, loads, form, save, confirm, request, left>>

\* refresh invalidates the query; another page's change starts the window.
Refresh == fetch' = Asked /\ UNCHANGED <<invalidateTimer, recent, slim, wire>> /\ UNCHANGED connection

-----------------------------------------------------------------------------
(* The switch of a row: onSwitchEnable.                                     *)

OnSwitchEnable(i) ==
    /\ Click /\ ~form.open /\ confirm.kind = "none"
    /\ rows[i] # Gone
    /\ rows' = [rows EXCEPT ![i].enable = ~@]
    /\ toggles' = toggles \cup {[id |-> i, next |-> ~rows[i].enable, st |-> "sent", same |-> TRUE]}
    /\ UNCHANGED <<connection, wire, query, srv, used, fbs, hydrate, loads, form, save, confirm, request>>

ServerSwitches(g) ==
    /\ g \in toggles /\ g.st = "sent"
    /\ IF srv[g.id] = Gone
       THEN /\ toggles' = (toggles \ {g}) \cup {[g EXCEPT !.st = "failed"]}
            /\ UNCHANGED <<srv, wire>>
       ELSE /\ srv' = [srv EXCEPT ![g.id].enable = g.next]
            /\ wire' = OutOfDate
            /\ toggles' = (toggles \ {g}) \cup {[g EXCEPT !.st = "done"]}
    /\ UNCHANGED <<connection, query, used, fbs, rows, hydrate, loads, form, save, confirm, request, left>>

\* The answer, or its loss.
SwitchReturns(g) ==
    /\ g \in toggles
    /\ \/ g.st = "done" /\ rows' = rows /\ UNCHANGED left
       \/ /\ (g.st = "failed" /\ UNCHANGED left) \/ (g.st # "failed" /\ Fault)
          /\ rows' = IF g.same /\ rows[g.id] # Gone THEN [rows EXCEPT ![g.id].enable = ~g.next] ELSE rows
    /\ toggles' = toggles \ {g}
    /\ UNCHANGED <<connection, wire, query, srv, used, fbs, hydrate, loads, form, save, confirm, request>>

-----------------------------------------------------------------------------
(* Fetching the full record: onRowAction.                                  *)

OnRowAction(i, key) ==
    /\ Click /\ ~form.open /\ confirm.kind = "none" /\ hydrate.st = "none"
    /\ rows[i] # Gone
    /\ hydrate' = [st |-> "asked", id |-> i, row |-> rows[i], key |-> key, got |-> Gone]
    /\ UNCHANGED <<connection, wire, query, srv, used, fbs, rows, toggles, loads, form, save, confirm, request>>

ServerHydrates ==
    /\ hydrate.st = "asked"
    /\ hydrate' = [hydrate EXCEPT !.st = "answered", !.got = srv[hydrate.id]]
    /\ UNCHANGED <<connection, wire, query, srv, used, fbs, rows, toggles, loads, form, save, confirm, request, left>>

\* What the click wanted, with the full record or, without one, the row.
OpenEdit(i, row) ==
    /\ form' = [open |-> TRUE, mode |-> "edit", id |-> i, row |-> row, fb |-> {}]
    /\ loads' = IF i \in Keyed THEN loads \cup {[id |-> i, st |-> "asked", got |-> {}]} ELSE loads
    /\ UNCHANGED confirm

OpenDialog(kind, i, row) ==
    /\ confirm' = [kind |-> kind, ids |-> {i}, row |-> row]
    /\ UNCHANGED <<form, loads>>

HydrateReturns ==
    /\ hydrate.st # "none" /\ confirm.kind = "none"
    /\ hydrate' = NoHydrate
    /\ LET failed == hydrate.got = Gone
           target == IF failed THEN hydrate.row ELSE hydrate.got
       IN  /\ (hydrate.st = "answered" /\ UNCHANGED left) \/ (hydrate.st = "asked" /\ Fault)
           /\ IF ~failed /\ rows[hydrate.id] # Gone
              THEN /\ rows' = [rows EXCEPT ![hydrate.id] = hydrate.got]
                   /\ toggles' = {IF g.id = hydrate.id THEN [g EXCEPT !.same = FALSE] ELSE g : g \in toggles}
              ELSE UNCHANGED <<rows, toggles>>
           /\ IF hydrate.key = "edit" THEN OpenEdit(hydrate.id, target)
              ELSE OpenDialog(hydrate.key, hydrate.id, target)
    /\ UNCHANGED <<connection, wire, query, srv, used, fbs, save, request>>

-----------------------------------------------------------------------------
(* The form.                                                               *)

OnAddInbound ==
    /\ Click /\ ~form.open /\ confirm.kind = "none"
    /\ form' = [NoForm EXCEPT !.open = TRUE]
    /\ UNCHANGED <<connection, wire, query, srv, used, fbs, rows, toggles, hydrate, loads, save, confirm, request>>

ServerLists(l) ==
    /\ l \in loads /\ l.st = "asked"
    /\ loads' = (loads \ {l}) \cup {[l EXCEPT !.st = "answered", !.got = fbs[l.id]]}
    /\ UNCHANGED <<connection, wire, query, srv, used, fbs, rows, toggles, hydrate, form, save, confirm, request, left>>

\* setFallbacks, whichever inbound the form shows by now; none if it failed.
FallbacksLoaded(l) ==
    /\ l \in loads
    /\ (l.st = "answered" /\ UNCHANGED left) \/ (l.st = "asked" /\ Fault)
    /\ form' = IF form.open THEN [form EXCEPT !.fb = l.got] ELSE form
    /\ loads' = loads \ {l}
    /\ UNCHANGED <<connection, wire, query, srv, used, fbs, rows, toggles, hydrate, save, confirm, request>>

\* The user edits a field, or adds or removes a fallback.
ChangeForm ==
    /\ Click /\ form.open
    /\ \/ form.row.conf # "new" /\ form' = [form EXCEPT !.row.conf = "new"]
       \/ form.id \in Hosts /\ \E d \in Dests : form' = [form EXCEPT !.fb = (form.fb \ {d}) \cup ({d} \ form.fb)]
    /\ UNCHANGED <<connection, wire, query, srv, used, fbs, rows, toggles, hydrate, loads, save, confirm, request>>

CloseForm ==
    /\ form.open
    /\ form' = NoForm
    /\ UNCHANGED <<connection, wire, query, srv, used, fbs, rows, toggles, hydrate, loads, save, confirm, request, left>>

\* InboundFormSchema asks for the key of every client of a Keyed protocol;
\* those of Shadowsocks, MTProto and WireGuard may come without.
\* Mutant: clients are not looked at.
MutValid(i, row) == TRUE
Valid(i, row) == i \in Keyed => \A m \in Mails : row.cl[m] # "slim"

\* The clients have no field and are sent as they were read, but through the
\* schema: what it does not know of a client is left out.
Payload(row) ==
    [row EXCEPT !.cl = [m \in Mails |-> IF row.cl[m] = "full" THEN "bare" ELSE row.cl[m]]]

Submit ==
    /\ form.open /\ save.st = "none"
    /\ form.mode = "edit" => Valid(form.id, form.row)
    /\ save' = [st |-> "sent", mode |-> form.mode, id |-> form.id,
                row |-> Payload(form.row), fb |-> form.fb]
    /\ UNCHANGED <<connection, wire, query, srv, used, fbs, rows, toggles, hydrate, loads, form, confirm, request, left>>

\* normalizeMtprotoSecret and normalizeShadowsocksClientKeys make the keys that
\* are missing, and after a change of the cipher all that no longer fit.
Normalized(i, row, resized) ==
    IF i \notin Remade THEN row
    ELSE [row EXCEPT !.cl = [m \in Mails |->
             IF row.cl[m] = "slim" \/ (resized /\ row.cl[m] # "none") THEN "fresh" ELSE row.cl[m]]]

\* UpdateInbound writes the settings it was sent, clients and all; a client
\* another admin added meanwhile is lost.
ServerSaves ==
    /\ save.st = "sent"
    /\ LET new == IF save.mode = "edit" THEN {save.id} \cap There(srv) ELSE Rows \ used
       IN  IF new = {}
           THEN save' = [save EXCEPT !.st = "failed"] /\ UNCHANGED <<srv, used, wire>>
           ELSE LET i == CHOOSE n \in new : TRUE
                IN  /\ \E resized \in {FALSE, save.mode = "edit" /\ save.row.conf # srv[i].conf} :
                           srv' = [srv EXCEPT ![i] = Normalized(i, save.row, resized)]
                    /\ used' = used \cup {i}
                    /\ wire' = Pushed(srv')
                    /\ save' = [save EXCEPT !.st = "saved", !.id = i]
    /\ UNCHANGED <<connection, query, fbs, rows, toggles, hydrate, loads, form, confirm, request, left>>

\* After the inbound its fallbacks, whose answer nobody looks at.
SaveGoesOn ==
    /\ save.st = "saved" /\ save.id \in Hosts
    /\ save' = [save EXCEPT !.st = "fallbacks"]
    /\ UNCHANGED <<connection, wire, query, srv, used, fbs, rows, toggles, hydrate, loads, form, confirm, request, left>>

ServerSavesFallbacks ==
    /\ save.st = "fallbacks"
    /\ \/ srv[save.id] # Gone /\ fbs' = [fbs EXCEPT ![save.id] = save.fb] /\ UNCHANGED left
       \/ srv[save.id] = Gone /\ UNCHANGED <<fbs, left>>
       \/ Fault /\ UNCHANGED fbs
    /\ save' = [save EXCEPT !.st = "over"]
    /\ UNCHANGED <<connection, wire, query, srv, used, rows, toggles, hydrate, loads, form, confirm, request>>

\* onSaved and onClose, on the form that is open by now.
SaveReturns ==
    /\ save.st = "over" \/ (save.st = "saved" /\ save.id \notin Hosts)
    /\ Refresh
    /\ form' = NoForm /\ save' = NoSave
    /\ UNCHANGED <<srv, used, fbs, rows, toggles, hydrate, loads, confirm, request, left>>

SaveFails ==
    /\ \/ save.st = "failed" /\ UNCHANGED left
       \/ save.st \in {"sent", "saved"} /\ Fault
    /\ save' = NoSave
    /\ UNCHANGED <<connection, wire, query, srv, used, fbs, rows, toggles, hydrate, loads, form, confirm, request>>

-----------------------------------------------------------------------------
(* The dialogs over the page.                                              *)

\* confirmDelete, confirmBulkDelete and confirmDelAllClients take the row as
\* it is; attachClients and clone fetch it first (OnRowAction).
OpenConfirm(kind, ids) ==
    /\ Click /\ ~form.open /\ confirm.kind = "none"
    /\ ids # {} /\ ids \subseteq There(rows)
    /\ confirm' = [kind |-> kind, ids |-> ids,
                   row |-> IF kind = "detach" THEN rows[CHOOSE i \in ids : TRUE] ELSE NoRow]
    /\ UNCHANGED <<connection, wire, query, srv, used, fbs, rows, toggles, hydrate, loads, form, save, request>>

Cancel ==
    /\ confirm.kind # "none"
    /\ confirm' = NoConfirm
    /\ UNCHANGED <<connection, wire, query, srv, used, fbs, rows, toggles, hydrate, loads, form, save, request, left>>

Answer ==
    /\ confirm.kind # "none" /\ request.st = "none"
    /\ request' = [st |-> "sent", do |-> confirm]
    /\ confirm' = NoConfirm
    /\ UNCHANGED <<connection, wire, query, srv, used, fbs, rows, toggles, hydrate, loads, form, save, left>>

\* A clone has no clients and is disabled.  Those attached are the ones the
\* dialog listed and the server still has, as the panel's own records of them
\* are, where they are not yet.
Cloned(row) == [row EXCEPT !.enable = FALSE, !.cl = [m \in Mails |-> "none"]]
Attached(list, mails, targets, as) ==
    [i \in Rows |-> IF list[i] = Gone \/ i \notin targets THEN list[i]
        ELSE [list[i] EXCEPT !.cl = [m \in Mails |->
                 IF m \in mails /\ list[i].cl[m] = "none" THEN as ELSE list[i].cl[m]]]]
Without(list, ids, mails) ==
    [i \in Rows |-> IF list[i] = Gone \/ i \notin ids THEN list[i]
        ELSE [list[i] EXCEPT !.cl = [m \in Mails |-> IF m \in mails THEN "none" ELSE list[i].cl[m]]]]

Known(list, row) == {m \in Mails : row.cl[m] # "none" /\ \E i \in There(list) : list[i].cl[m] # "none"}

ServerDoes ==
    /\ request.st = "sent"
    /\ LET kind == request.do.kind
           ids == request.do.ids
       IN  CASE kind = "delete" ->
                    /\ srv' = [i \in Rows |-> IF i \in ids THEN Gone ELSE srv[i]]
                    /\ wire' = Pushed(srv') /\ UNCHANGED used
             [] kind = "clone" ->
                    \/ \E i \in Rows \ used :
                           /\ srv' = [srv EXCEPT ![i] = Cloned(request.do.row)]
                           /\ used' = used \cup {i}
                           /\ wire' = Pushed(srv')
                    \/ used = Rows /\ UNCHANGED <<srv, used, wire>>
             [] kind = "attach" ->
                    /\ \E targets \in SUBSET (Rows \ ids), as \in Own :
                           srv' = Attached(srv, Known(srv, request.do.row), targets, as)
                    /\ UNCHANGED <<used, wire>>
             [] OTHER ->
                    /\ srv' = Without(srv, ids, {m \in Mails : kind = "delAllClients" \/ request.do.row.cl[m] # "none"})
                    /\ UNCHANGED <<used, wire>>
    /\ request' = [request EXCEPT !.st = "done"]
    /\ UNCHANGED <<connection, query, fbs, rows, toggles, hydrate, loads, form, save, confirm, left>>

RequestReturns ==
    /\ \/ request.st = "done" /\ Refresh /\ UNCHANGED left
       \/ request.st # "none" /\ Fault /\ UNCHANGED <<connection, wire, query>>
    /\ request' = [st |-> "none", do |-> NoConfirm]
    /\ UNCHANGED <<srv, used, fbs, rows, toggles, hydrate, loads, form, save, confirm>>

-----------------------------------------------------------------------------
(* The others.                                                             *)

\* Another admin's edit, switch, deletion; a client added elsewhere, of which
\* this page is not told; the traffic job.
OtherAdmin(i) ==
    /\ Somebody /\ srv[i] # Gone
    /\ \/ srv' = [srv EXCEPT ![i].conf = "theirs"] /\ wire' = Pushed(srv')
       \/ srv' = [srv EXCEPT ![i] = Gone] /\ wire' = Pushed(srv')
       \/ srv' = [srv EXCEPT ![i].enable = ~@] /\ wire' = OutOfDate
       \/ \E m \in Mails : srv[i].cl[m] = "none" /\ srv' = [srv EXCEPT ![i].cl[m] = "full"] /\ UNCHANGED wire
       \/ /\ srv' = [srv EXCEPT ![i].enable = FALSE]
          /\ wire' = Sent([type |-> "client_stats", list |-> srv'])
    /\ UNCHANGED <<connection, query, used, fbs, page>>

-----------------------------------------------------------------------------

Init ==
    /\ FeedInit(Slim(FirstRows))
    /\ srv = FirstRows /\ used = There(FirstRows) /\ fbs = [i \in Rows |-> IF i \in Hosts THEN Dests ELSE {}]
    /\ rows = Slim(FirstRows)
    /\ toggles = {} /\ hydrate = NoHydrate /\ loads = {} /\ form = NoForm /\ save = NoSave
    /\ confirm = NoConfirm /\ request = [st |-> "none", do |-> NoConfirm]
    /\ left \in Budgets

Feed ==
    \/ \E c \in Conns :
           \/ Drop /\ (Connect(c) \/ \E k \in Sockets : SocketCloses(c, k) \/ SocketClosed(c, k))
           \/ UNCHANGED left /\ (ReconnectFires(c) \/ OnInvalidate(c)
                                 \/ \E k \in Sockets : SocketOpens(c, k) \/ (sockets[c][k] = "closing" /\ SocketClosed(c, k)))
    \/ Drop /\ (FetchFails \/ MarkLocalInvalidate)
    \/ UNCHANGED left /\ (InvalidateFires \/ WindowEnds \/ ServerAnswers(Slim(srv)))

Next ==
    \/ Feed /\ UNCHANGED <<srv, used, fbs, page>>
    \/ \E c \in Conns : OnInbounds(c) \/ OnClientStats(c)
    \/ FetchReturns
    \/ \E i \in Rows : OnSwitchEnable(i) \/ OtherAdmin(i)
    \/ \E i \in Rows, key \in {"edit", "clone", "attach"} : OnRowAction(i, key)
    \/ \E g \in toggles : ServerSwitches(g) \/ SwitchReturns(g)
    \/ ServerHydrates \/ HydrateReturns
    \/ OnAddInbound \/ ChangeForm \/ CloseForm \/ Submit
    \/ \E l \in loads : ServerLists(l) \/ FallbacksLoaded(l)
    \/ ServerSaves \/ SaveGoesOn \/ ServerSavesFallbacks \/ SaveReturns \/ SaveFails
    \/ \E kind \in {"delete", "delAllClients", "detach"}, i \in Rows : OpenConfirm(kind, {i})
    \/ \E ids \in SUBSET Rows : OpenConfirm("delete", ids)
    \/ Cancel \/ Answer \/ ServerDoes \/ RequestReturns

Spec == Init /\ [][Next]_vars

-----------------------------------------------------------------------------

\* The page shows the inbounds of the last list, no more and no fewer: a
\* record fetched late, an event or a switch changes rows and never brings
\* back or hides one (useInbounds.ts:329-348, 400-415, 480-539).
RowsOfList == There(rows) = There(slim)

\* A client that stays in its inbound keeps its key.  Where the schema requires
\* one no step takes it, whatever the page held when its form was saved: a page
\* whose fetch of the full record failed cannot write the list's clients back
\* (InboundsPage.tsx:501-504).  Elsewhere only a save takes it, one whose form had
\* not read it or one of changed fields (inbound.go:1392).  And a save loses the
\* key of no client the form had read and leaves the other inbounds alone
\* (InboundFormModal.tsx:516-584).
KeysSurvive ==
    [][/\ \A i \in Rows, m \in Mails :
              /\ srv[i] # Gone /\ srv'[i] # Gone
              /\ srv[i].cl[m] \in Own /\ srv'[i].cl[m] \in {"slim", "fresh"}
              => /\ save.st = "sent" /\ save'.st = "saved" /\ save'.id = i
                 /\ save.row.cl[m] \notin Own \/ save.row.conf # srv[i].conf
                 /\ i \in Keyed => srv'[i].cl[m] # "slim"
       /\ save.st = "none" /\ save'.st = "sent" =>
              \A m \in Mails : form.row.cl[m] \in Own => save'.row.cl[m] \in Own
       /\ save.st = "sent" /\ save'.st = "saved" =>
              /\ save'.id \in Keyed => \A m \in Mails : save.row.cl[m] \in Own => srv'[save'.id].cl[m] \in Own
              /\ \A i \in Rows \ {save'.id} : srv'[i] = srv[i]]_vars
=============================================================================
