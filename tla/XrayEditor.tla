------------------------------ MODULE XrayEditor ------------------------------
(* The Xray configuration page (hooks/useXraySetting.ts, pages/xray): one     *)
(* draft of the whole configuration that six tabs, two provider dialogs and a *)
(* text editor change, a Save button that a timer switches on and off, and a  *)
(* query that seeds the draft again whenever its data change.                 *)
(*                                                                            *)
(* A dialog holds what it captured when it was opened (an index, the tags in  *)
(* use, what a deletion will do); the draft may be seeded again under it.     *)
(* "left" bounds the user's edits, the saves and the refreshes of the         *)
(* subscriptions; it stands for nothing in the code.                          *)
EXTENDS ProxyLinks

CONSTANTS
  Names,        \* names the user may give to an outbound
  Balancers,    \* names the user may give to a balancer
  Stored,       \* configurations the server may hold at the start
  Default,      \* the configuration "reset to default" loads
  Servers,      \* servers the user may type into an outbound's form
  Texts,        \* outbounds the user may type as JSON
  Shared,       \* inbounds whose links may be imported
  Budgets       \* how often the user may act: [edits, saves, refreshes, form]

VARIABLES
  stored,       \* the server's configuration
  subs,         \* the server's subscription outbounds (a generation)
  cache,        \* the query's data
  fetching,     \* a refetch is under way
  draft,        \* templateSettings
  text,         \* xraySetting: the draft's text, or one that does not parse
  base,         \* oldXraySetting: what the draft is compared with
  canSave,      \* not saveDisabled
  save,         \* the save under way
  dialog,       \* the open dialog and what it captured
  left

vars == << stored, subs, cache, fetching, draft, text, base, canSave, save, dialog, left >>
server == << stored, subs >>
query  == << cache, fetching, base, canSave, save >>

\* The observer a configuration has is one that its balancers need, and the
\* one they need.
ObserverFits(c) ==
    LET bs == Range(c.balancers)
    IN  /\ \A b \in bs : b.strategy = "leastLoad" => c.observer.kind = "burst"
        /\ \A b \in bs : b.strategy = "leastPing" => c.observer.kind # "none"
        /\ \A b \in bs : b.strategy = "random" /\ b.fallback # NoTag => c.observer.kind = "burst"
        /\ c.observer.kind # "none" =>
              \E b \in bs : b.strategy # "random" \/ b.fallback # NoTag

\* What a loopback sends goes to its balancer and nowhere else.
LoopbacksLead(c) ==
    \A r \in Range(c.rules) : IsLoopback(r.inbound) => r.outbound = NoTag /\ r.inbound = Lb(r.balancer)

\* The form takes no balancer without a name of its own.
NamesOfTheirOwn(bs) ==
    "" \notin TagsOf(bs) /\ \A i, j \in DOMAIN bs : bs[i].tag = bs[j].tag => i = j

\* What the server holds at the start, the default and what is typed have the
\* observer they need, rules of loopbacks as the page writes them and balancers
\* that the form would take.  A configuration written by hand may differ: the
\* page repairs the observer at the next edit of the balancers, the rest never.
ASSUME EditorAssumption ==
    /\ \A c \in Stored \cup {Default} :
          c \in Configs /\ ObserverFits(c) /\ LoopbacksLead(c) /\ NamesOfTheirOwn(c.balancers)
    /\ "" \notin Balancers
    /\ Texts \subseteq OutboundRecords
    /\ Budgets \subseteq [edits : Nat, saves : Nat, refreshes : Nat, form : Nat]

NoPlan == [fates |-> << >>, cascaded |-> {}, observer |-> FALSE]
Closed == [kind |-> "none", at |-> 0, taken |-> {}, form |-> << >>, plan |-> NoPlan, stale |-> FALSE]
Idle   == [phase |-> "idle", config |-> Default, doubt |-> FALSE]

Init ==
    /\ stored \in Stored
    /\ subs = 0
    /\ cache = [config |-> stored, subs |-> 0]
    /\ fetching = FALSE
    /\ draft = stored
    /\ text = "draft"
    /\ base = stored
    /\ canSave = FALSE
    /\ save = Idle
    /\ dialog = Closed
    /\ left \in Budgets

-------------------------------------------------------------------------------
(* The draft, its text and the query.                                         *)

\* setTemplateSettings: the text follows the draft.
Mutate(c) ==
    /\ left.edits > 0
    /\ left' = [left EXCEPT !.edits = @ - 1]
    /\ draft' = c
    /\ text' = "draft"
    /\ UNCHANGED << server, query >>

\* The advanced tab: text that parses becomes the draft, other text leaves it.
TypeText ==
    /\ dialog.kind = "none" /\ left.edits > 0
    /\ left' = [left EXCEPT !.edits = @ - 1]
    /\ \/ text' = "broken" /\ UNCHANGED draft
       \/ text' = "draft" /\ draft' \in {draft} \cup Stored
    /\ UNCHANGED << server, query, dialog >>

ResetToDefault ==
    /\ dialog.kind = "none"
    /\ Mutate(Default)
    /\ UNCHANGED dialog

\* The timer that compares the text with the saved one.
Poll ==
    /\ canSave # (text = "broken" \/ draft # base)
    /\ canSave' = ~canSave
    /\ UNCHANGED << server, cache, fetching, draft, text, base, save, dialog, left >>

\* The seed effect: only data that differ from the cached data run it.
FetchReturns ==
    /\ fetching
    /\ fetching' = FALSE
    /\ cache' = [config |-> stored, subs |-> subs]
    /\ IF cache' = cache
       THEN UNCHANGED << draft, text, base, canSave, dialog >>
       ELSE /\ draft' = stored
            /\ text' = "draft"
            /\ base' = stored
            /\ canSave' = FALSE
            /\ dialog' = [dialog EXCEPT !.stale = dialog.kind # "none" /\ (@ \/ stored # draft)]
    /\ save' = [save EXCEPT !.doubt = @ /\ cache' = cache]
    /\ UNCHANGED << server, left >>

\* The subscription manager changed something and fetches the page's data.
RefreshXrayData ==
    /\ left.refreshes > 0
    /\ left' = [left EXCEPT !.refreshes = @ - 1]
    /\ subs' = subs + 1
    /\ fetching' = TRUE
    /\ UNCHANGED << stored, cache, draft, text, base, canSave, save, dialog >>

\* Loopbacks are completed, orphaned ones removed; a cycle refuses the save.
OnSaveAll ==
    LET clone == CleanupOrphanedBalancerLoopbacks(EnsureMissingBalancerLoopbacks(draft))
    IN  /\ canSave /\ dialog.kind = "none" /\ text = "draft" /\ save.phase = "idle"
        /\ left.saves > 0
        /\ ~HasBalancerCycle(clone)
        /\ left' = [left EXCEPT !.saves = @ - 1]
        /\ draft' = clone
        /\ save' = [save EXCEPT !.phase = "sent", !.config = clone]
        /\ UNCHANGED << server, cache, fetching, text, base, canSave, dialog >>

\* What the server adds of its own (the API, statistics and DNS rules, the
\* outbounds of the subscriptions) is hidden from the page and left out.  The
\* setting is stored before the test URL is and before a restart; when one of
\* these fails or the answer is lost, the page is told of a failure.  "doubt",
\* kept for the properties, says so until the page loads or saves again.
ServerSaves ==
    /\ save.phase = "sent"
    /\ \/ stored' = save.config /\ save' = [save EXCEPT !.phase = "saved"]
       \/ stored' = save.config /\ save' = [save EXCEPT !.phase = "refused", !.doubt = TRUE]
       \/ UNCHANGED stored /\ save' = [save EXCEPT !.phase = "refused"]
    /\ UNCHANGED << subs, cache, fetching, draft, text, base, canSave, dialog, left >>

MutSavedText == draft            \* the text on the page, not the text that was sent

SavedText == save.config

SaveReturns ==
    /\ save.phase \in {"saved", "refused"}
    /\ save' = [Idle EXCEPT !.doubt = save.doubt /\ save.phase = "refused"]
    /\ IF save.phase = "saved"
       THEN base' = SavedText /\ canSave' = FALSE /\ fetching' = TRUE
       ELSE UNCHANGED << base, canSave, fetching >>
    /\ UNCHANGED << server, cache, draft, text, dialog, left >>

-------------------------------------------------------------------------------
(* Dialogs.                                                                   *)

Open(d) ==
    /\ dialog.kind = "none" /\ left.edits > 0
    /\ dialog' = d
    /\ UNCHANGED << server, query, draft, text, left >>

Cancel ==
    /\ dialog.kind # "none"
    /\ dialog' = Closed
    /\ UNCHANGED << server, query, draft, text, left >>

Confirm(c) == dialog' = Closed /\ Mutate(c)

\* s[i] := x of the code, past the end as well.
Put(s, i, x) == IF i \in DOMAIN s THEN [s EXCEPT ![i] = x] ELSE Append(s, x)
Cut(s, i)    == IF i \in DOMAIN s THEN RemoveAt(s, i) ELSE s
Swap(s, i)   == [s EXCEPT ![i] = s[i + 1], ![i + 1] = s[i]]

-------------------------------------------------------------------------------
(* The outbounds tab.  Loopback outbounds are not shown.                      *)

\* A row calls the handlers with its place among the rows shown, and they take
\* it for a place in the whole list: past a loopback, that of another outbound.
OutboundRows == 1..Cardinality({ i \in DOMAIN draft.outbounds : ~IsLoopback(draft.outbounds[i].tag) })

\* The form's values, the tab shown, the text of the JSON tab and whether it
\* was typed.  What the values came from (an outbound, a typed text, a link)
\* and the controls used since are kept for the properties.
FormOn(o) ==
    LET v == Effects(FromWire(o))
    IN  [values |-> v, tab |-> "basic", text |-> [shape |-> "object", of |-> ToWire(v)], dirty |-> FALSE,
         from |-> o, endpoint |-> << >>, touched |-> {}]

NewOutbound == [OutboundOf(NoTag) EXCEPT !.protocol = "vless"]

OpenOutbound(i) ==
    Open([Closed EXCEPT !.kind = "outbound", !.at = i,
            !.form  = FormOn(IF i = 0 THEN NewOutbound ELSE draft.outbounds[i]),
            !.taken = { draft.outbounds[j].tag : j \in DOMAIN draft.outbounds \ {i} }])

EditForm(form) ==
    /\ dialog.kind = "outbound" /\ left.form > 0
    /\ left' = [left EXCEPT !.form = @ - 1]
    /\ dialog' = [dialog EXCEPT !.form = form]
    /\ UNCHANGED << server, query, draft, text >>

\* A control of the basic tab changes the values, and the effects follow.
UseControl(control, v) ==
    EditForm([dialog.form EXCEPT !.values = Effects(v), !.touched = @ \cup {control}])

UseControls ==
    LET v == dialog.form.values
    IN  /\ dialog.kind = "outbound" /\ dialog.form.tab = "basic"
        /\ \/ \E p \in Protocols \ {v.protocol} : UseControl(<< "protocol", p >>, ChangeProtocol(v, p))
           \/ \E n \in NetworkOptions(v) \ {v.stream.network} :
                 UseControl(<< "network", n >>, ChangeNetwork(v, n))
           \/ \E s \in SecurityOptions(v) \ {v.stream.security} :
                 UseControl(<< "security", s >>, ChangeSecurity(v, s))
           \/ \E f \in {"", "vision"} \ {v.flow} :
                 FlowShown(v) /\ UseControl(<< "flow", f >>, [v EXCEPT !.flow = f])
           \/ MuxAllowed(v) /\ UseControl(<< "mux", "" >>, [v EXCEPT !.mux = ~@])

OpenJson ==
    /\ dialog.kind = "outbound" /\ dialog.form.tab = "basic"
    /\ EditForm([dialog.form EXCEPT !.tab = "json", !.dirty = FALSE,
                    !.text = [shape |-> "object", of |-> ToWire(dialog.form.values)]])

TypeJson ==
    /\ dialog.kind = "outbound" /\ dialog.form.tab = "json"
    /\ \E shape \in {"object", "blank", "broken"}, o \in Texts :
          EditForm([dialog.form EXCEPT !.dirty = TRUE, !.text = [shape |-> shape, of |-> o]])

\* A typed text that does not parse holds the tab, a blank one is passed over.
OpenBasic ==
    LET form == dialog.form
    IN  /\ dialog.kind = "outbound" /\ form.tab = "json"
        /\ form.dirty => form.text.shape # "broken"
        /\ IF form.dirty /\ form.text.shape = "object"
           THEN EditForm(FormOn(form.text.of))
           ELSE EditForm([form EXCEPT !.tab = "basic"])

\* A link pasted into the JSON tab; the form keeps its tag when it has none.
ImportLink(link, endpoint) ==
    \E o \in Range(ParseOutboundLink(link)) :
        LET tagged == [o EXCEPT !.tag = IF @ = NoTag THEN dialog.form.values.tag ELSE @]
        IN  EditForm([FormOn(tagged) EXCEPT !.endpoint = << endpoint >>])

ImportLinks ==
    /\ dialog.kind = "outbound" /\ dialog.form.tab = "json"
    /\ \E in \in Shared : LET links == GenAllLinks(in) IN
          \E n \in DOMAIN links : \E link \in Range(links[n]) : ImportLink(link, ExpandEndpoints(in)[n])

\* The form refuses the tags in use when it was opened, and those of loopbacks.
Accepted(tag) == tag \notin dialog.taken /\ tag # NoTag /\ ~IsLoopback(tag)

\* What OK takes: on the basic tab the values, in which the user has typed the
\* tag and the server, on the JSON tab the text.
Confirmed(tag, to) ==
    LET form == dialog.form
    IN  IF form.tab = "json" THEN FromWire(form.text.of)
        ELSE [form.values EXCEPT !.tag = tag, !.server = to]

Complete(tag, to) ==
    LET form == dialog.form
    IN  IF form.tab = "json" THEN form.text.shape = "object" /\ tag = form.text.of.tag
        ELSE HasServer(form.values.protocol) => to.host # ""

\* A text whose tag is refused has become the form's values all the same.
RefuseText ==
    LET form == dialog.form
    IN  /\ dialog.kind = "outbound" /\ form.tab = "json" /\ form.text.shape = "object"
        /\ ~Accepted(form.text.of.tag)
        /\ EditForm([FormOn(form.text.of) EXCEPT !.tab = "json", !.text = form.text])

\* A new outbound, or the edited one under a new or its old tag.
ConfirmOutbound(tag, to) ==
    LET old == draft.outbounds[dialog.at].tag
        put == [draft EXCEPT !.outbounds = Put(@, dialog.at, ToWire(Confirmed(tag, to)))]
    IN  /\ dialog.kind = "outbound"
        /\ Accepted(tag) /\ Complete(tag, to)
        /\ Confirm(IF dialog.at \in DOMAIN draft.outbounds /\ old # tag
                   THEN PropagateOutboundTagRename(put, old, tag) ELSE put)

\* The tags and servers the user may have typed.
ConfirmOutbounds ==
    LET v == dialog.form.values
    IN  /\ dialog.kind = "outbound"
        /\ \E tag \in {v.tag, dialog.form.text.of.tag} \cup { Out(n) : n \in Names } :
             \E to \in {v.server} \cup (IF HasServer(v.protocol) THEN Servers ELSE {}) :
                ConfirmOutbound(tag, to)

OpenOutboundDeletion(i) ==
    Open([Closed EXCEPT !.kind = "outbound deletion", !.at = i, !.plan = PlanOutboundDeletion(draft, i)])

ConfirmOutboundDeletion ==
    /\ dialog.kind = "outbound deletion"
    /\ Confirm(IF dialog.at \in DOMAIN draft.outbounds
               THEN ApplyOutboundDeletion(draft, dialog.at) ELSE SyncObservatories(draft))

MoveOutbound(i) ==
    /\ dialog.kind = "none"
    /\ \/ /\ i + 1 \in OutboundRows
          /\ Mutate([draft EXCEPT !.outbounds = Swap(@, i)])
       \/ /\ i > 1
          /\ Mutate([draft EXCEPT !.outbounds = ToFront(@, i)])
    /\ UNCHANGED dialog

-------------------------------------------------------------------------------
(* The routing tab.  The rules of loopbacks are not shown, and a row calls    *)
(* the handlers with its place among the others, as in the outbounds tab.     *)

RuleRows == 1..Cardinality({ i \in DOMAIN draft.rules : ~IsLoopback(draft.rules[i].inbound) })

\* The user changes one of the two destinations; loopback outbounds are among
\* those offered.
Destinations(outbound, balancer) ==
    { [outbound |-> o, balancer |-> balancer] : o \in {NoTag} \cup TagsOf(draft.outbounds) }
    \cup { [outbound |-> outbound, balancer |-> b] : b \in {""} \cup TagsOf(draft.balancers) }

\* The form's fields, read from rule i (0: none) and written by submit.
RuleForm(i, to) ==
    [inbound   |-> IF i = 0 THEN NoTag ELSE draft.rules[i].inbound,
     criterion |-> IF i = 0 THEN "domain" ELSE draft.rules[i].criterion,
     outbound  |-> to.outbound, balancer |-> to.balancer]

OpenRule(i, to) == Open([Closed EXCEPT !.kind = "rule", !.at = i, !.form = RuleForm(i, to)])

ConfirmRule ==
    /\ dialog.kind = "rule"
    /\ Confirm([draft EXCEPT !.rules = Put(@, dialog.at, dialog.form)])

OpenRuleDeletion(i) == Open([Closed EXCEPT !.kind = "rule deletion", !.at = i])

ConfirmRuleDeletion ==
    /\ dialog.kind = "rule deletion"
    /\ Confirm([draft EXCEPT !.rules = Cut(@, dialog.at)])

MoveRule(i) ==
    /\ dialog.kind = "none" /\ i + 1 \in RuleRows
    /\ Mutate([draft EXCEPT !.rules = Swap(@, i)])
    /\ UNCHANGED dialog

\* The basic page: "direct" and "IPv4" come and go with their rules.
SetBasicRule(tag, criterion, some) ==
    LET c == RuleSetter(draft, tag, criterion, some)
    IN  /\ dialog.kind = "none"
        /\ some \/ RuleGetter(draft, tag, criterion) # {}
        /\ Mutate(IF tag = Out("blocked") THEN c ELSE SyncOutbound(c, tag))
        /\ UNCHANGED dialog

SetDefaultOutbound(tag) ==
    /\ dialog.kind = "none"
    /\ Mutate(SetDefaultOutboundTag(draft, tag))
    /\ UNCHANGED dialog

-------------------------------------------------------------------------------
(* The balancers tab.  In the form a fallback is a name, of an outbound or of *)
(* another balancer.                                                          *)

BalancerForm(b) ==
    [tag |-> b.tag, strategy |-> b.strategy, selector |-> b.selector,
     fallback |-> ResolveLoopbackFallback(draft, b.fallback)]

NewForm(tag) == [tag |-> tag, strategy |-> "random", selector |-> {Out("direct")}, fallback |-> ""]

FallbackOptions ==
    {""} \cup { o.name : o \in { t \in TagsOf(draft.outbounds) : ~IsLoopback(t) } }
         \cup TagsOf(draft.balancers)

\* The user changes one field of the form.
Filled(form) ==
    { [form EXCEPT !.tag = t] : t \in Balancers }
    \cup { [form EXCEPT !.strategy = s] : s \in {"random", "leastPing", "leastLoad"} }
    \cup { [form EXCEPT !.selector = {o}] : o \in { t \in TagsOf(draft.outbounds) : ~IsLoopback(t) } }
    \cup { [form EXCEPT !.fallback = f] : f \in FallbackOptions }

OpenBalancer(i, form) == Open([Closed EXCEPT !.kind = "balancer", !.at = i, !.form = form])

OtherTags(at) == { draft.balancers[j].tag : j \in DOMAIN draft.balancers \ {at} }

\* The chain of fallbacks the form follows, by the rules of the loopbacks.
WouldCreateCycle(form) ==
    LET others == { b \in Range(draft.balancers) : b.tag # form.tag }
        To(t)  == LET b == { x \in others : x.tag = t }
                  IN  IF b = {} THEN "" ELSE
                      LET f == (CHOOSE x \in b : TRUE).fallback
                      IN  IF IsLoopback(f) THEN FindLoopbackTarget(draft, f) ELSE f.name
        at[n \in 0..Cardinality(others)] == IF n = 0 THEN form.fallback ELSE To(at[n - 1])
    IN  form.fallback # "" /\ \E n \in DOMAIN at : at[n] = form.tag

Submits(form) == form.tag \notin OtherTags(dialog.at) /\ ~WouldCreateCycle(form)

Wire(form, toBalancer) ==
    [tag |-> form.tag, strategy |-> form.strategy, selector |-> form.selector,
     fallback |-> CASE toBalancer -> Lb(form.fallback)
                    [] ~toBalancer /\ form.fallback = "" -> NoTag
                    [] OTHER -> Out(form.fallback)]

RoutedTo(rule, b) == [rule EXCEPT !.balancer = b]

\* The rules to a renamed balancer.
Rerouted(c, old, new) ==
    [c EXCEPT !.rules = [r \in DOMAIN @ |-> RoutedTo(@[r], Subst(@[r].balancer, old, new))]]

MutRenamedBalancer(c, old, new) == Rerouted(c, old, new)        \* the loopback keeps the old name

\* A rename reaches the rules, the loopback and the fallbacks to it.
RenamedBalancer(c, old, new) ==
    IF old = new THEN c ELSE PropagateBalancerTagRename(Rerouted(c, old, new), old, new)

ConfirmBalancer ==
    LET form       == dialog.form
        toBalancer == form.fallback \in OtherTags(dialog.at)
        wire       == Wire(form, toBalancer)
        edit       == dialog.at \in DOMAIN draft.balancers
        before     == draft.balancers[dialog.at]
        put        == [draft EXCEPT !.balancers = Put(@, dialog.at, wire)]
        renamed    == IF edit THEN RenamedBalancer(put, before.tag, wire.tag) ELSE put
        trimmed    == IF edit /\ IsLoopback(before.fallback) /\ before.fallback.name # form.fallback
                      THEN RemoveBalancerLoopbackIfOrphaned(renamed, before.fallback.name) ELSE renamed
        ensured    == IF toBalancer THEN EnsureBalancerLoopback(trimmed, form.fallback) ELSE trimmed
    IN  /\ dialog.kind = "balancer"
        /\ Submits(form)
        /\ Confirm(SyncObservatories(ensured))

\* A balancer others fall back to cannot be deleted.
OpenBalancerDeletion(i) ==
    /\ \A b \in Range(draft.balancers) :
          b.tag # draft.balancers[i].tag => b.fallback # Lb(draft.balancers[i].tag)
    /\ Open([Closed EXCEPT !.kind = "balancer deletion", !.at = i, !.plan = PlanBalancerDeletion(draft, i)])

ConfirmBalancerDeletion ==
    /\ dialog.kind = "balancer deletion"
    /\ Confirm(IF dialog.at \in DOMAIN draft.balancers
               THEN LET c == RemoveBalancerLoopback(draft, draft.balancers[dialog.at].tag)
                    IN  ApplyBalancerDeletion(c, dialog.at)
               ELSE SyncObservatories(draft))

-------------------------------------------------------------------------------
(* The provider dialogs: the outbound "warp", and one of a NordVPN server.    *)

Warp == Out("warp")
Nord == {Out("nord-a"), Out("nord-b")}

IndexOf(tags) == SelectInSeq(draft.outbounds, LAMBDA o : o.tag \in tags)

OpenProvider(k) == Open([Closed EXCEPT !.kind = k])

\* Add when there is none; otherwise replace it, under its new tag.
PutProvider(tag) ==
    LET at  == IndexOf(IF tag = Warp THEN {Warp} ELSE Nord)
        put == [draft EXCEPT !.outbounds = Put(@, at, ProviderOf(tag))]
    IN  /\ dialog.kind = IF tag = Warp THEN "warp" ELSE "nord"
        /\ Confirm(IF tag \in Nord /\ at > 0
                   THEN PropagateOutboundTagRename(put, draft.outbounds[at].tag, tag) ELSE put)

\* The logout is sent with the index of the moment; when it fails (Cancel),
\* nothing changes.
LogOut ==
    /\ dialog.kind = "nord"
    /\ dialog' = [dialog EXCEPT !.kind = "nord logout", !.at = IndexOf(Nord)]
    /\ UNCHANGED << server, query, draft, text, left >>

\* WARP: the outbound goes by its tag, the rules stay.
RemoveWarp ==
    /\ dialog.kind = "warp"
    /\ Confirm([draft EXCEPT !.outbounds = Cut(@, IndexOf({Warp}))])

\* NordVPN: the outbound goes by its index, the rules to any server go too.
RemoveNord ==
    /\ dialog.kind = "nord logout"
    /\ Confirm([draft EXCEPT !.outbounds = Cut(@, dialog.at),
                             !.rules = Select(@, { i \in DOMAIN @ : @[i].outbound \notin Nord })])

-------------------------------------------------------------------------------
EditOutbounds ==
    \/ \E i \in OutboundRows \cup {0} : OpenOutbound(i)
    \/ ConfirmOutbounds
    \/ \E i \in OutboundRows : OpenOutboundDeletion(i)
    \/ ConfirmOutboundDeletion
    \/ \E i \in OutboundRows : MoveOutbound(i)

EditRules ==
    \/ \E to \in Destinations(NoTag, "") : OpenRule(0, to)
    \/ \E i \in RuleRows : \E to \in Destinations(draft.rules[i].outbound, draft.rules[i].balancer) :
          OpenRule(i, to)
    \/ ConfirmRule
    \/ \E i \in RuleRows : OpenRuleDeletion(i)
    \/ ConfirmRuleDeletion
    \/ \E i \in RuleRows : MoveRule(i)
    \/ \E tag \in {Out("blocked"), Out("direct")}, criterion \in {"ip", "domain"}, some \in BOOLEAN :
          SetBasicRule(tag, criterion, some)
    \/ \E tag \in {Out("direct"), Out("blocked")} \cup TagsOf(draft.outbounds) : SetDefaultOutbound(tag)

EditBalancers ==
    \/ \E b \in Balancers : OpenBalancer(0, NewForm(b))
    \/ \E i \in DOMAIN draft.balancers : \E form \in Filled(BalancerForm(draft.balancers[i])) : OpenBalancer(i, form)
    \/ ConfirmBalancer
    \/ \E i \in DOMAIN draft.balancers : OpenBalancerDeletion(i)
    \/ ConfirmBalancerDeletion

EditProviders ==
    \/ \E k \in {"warp", "nord"} : OpenProvider(k)
    \/ \E tag \in {Warp} \cup Nord : PutProvider(tag)
    \/ RemoveWarp
    \/ LogOut
    \/ RemoveNord

SaveAndSync ==
    \/ TypeText \/ ResetToDefault \/ Poll \/ FetchReturns \/ RefreshXrayData
    \/ OnSaveAll \/ ServerSaves \/ SaveReturns \/ Cancel

EditOutboundForm == UseControls \/ OpenJson \/ TypeJson \/ OpenBasic \/ ImportLinks \/ RefuseText

Next == EditOutbounds \/ EditOutboundForm \/ EditRules \/ EditBalancers \/ EditProviders \/ SaveAndSync

Spec == Init /\ [][Next]_vars

-------------------------------------------------------------------------------
(* Properties.                                                                *)

Edited  == left'.edits < left.edits
InTime  == ~dialog.stale            \* the dialog shows the draft it will change

Dangling(c) == { t \in { r.outbound : r \in Range(c.rules) } :
                   t.kind = "out" /\ t \notin TagsOf(c.outbounds) }

\* Every fallback to a balancer leads there: through a loopback outbound whose
\* traffic the first rule for it sends to that balancer.
FallbacksLead(c) ==
    \A b \in Range(c.balancers) : IsLoopback(b.fallback) =>
        /\ b.fallback \in TagsOf(c.outbounds)
        /\ FindLoopbackTarget(c, b.fallback) = b.fallback.name
        /\ b.fallback.name \in TagsOf(c.balancers)

\* What the dialog changes is a loopback's outbound or its rule.
OnLoopback ==
    \/ /\ dialog.kind \in {"outbound", "outbound deletion"} /\ dialog.at \in DOMAIN draft.outbounds
       /\ IsLoopback(draft.outbounds[dialog.at].tag)
    \/ /\ dialog.kind \in {"rule", "rule deletion"} /\ dialog.at \in DOMAIN draft.rules
       /\ IsLoopback(draft.rules[dialog.at].inbound)

\* No edit of the page leaves a rule without its outbound that had one, and no
\* edit cuts a fallback between balancers that worked: renaming, moving,
\* deleting and the basic page's own outbounds repair what points at them
\* (reference-cleanup.ts, balancer-loopback.ts, propagateOutboundTagRename).
\* Excepted are the edits that do it: removing WARP, a basic rule to a missing
\* "blocked", a deletion that takes a balancer along, and the dialog of a row
\* past a hidden one, which changes a loopback.  A rule may also name the
\* outbound of a loopback; it is left behind when the fallback goes.  A typed
\* text and the default replace the draft; they are no edits of it.
EditsKeepReferences ==
    [][Edited /\ InTime /\ text = "draft" /\ (dialog.kind = "none" => draft' \notin Stored \cup {Default}) =>
         /\ Dangling(draft') \subseteq Dangling(draft) \cup {Warp, Out("blocked")}
         /\ FallbacksLead(draft) /\ LoopbacksLead(draft) /\ dialog.plan.cascaded = {} /\ ~OnLoopback =>
               FallbacksLead(draft') /\ LoopbacksLead(draft')]_vars

\* The deletion does what its confirmation announced: the rules shown as
\* removed go, those shown as modified keep a destination, the others keep
\* all; no other balancer goes than those announced, and the observer goes
\* only when announced (planOutboundDeletion, applyOutboundDeletion).  The
\* deletion of a balancer removes its loopback first: it announces a rule of it
\* to which the table's wrong row has given an outbound as modified.
PreviewAgrees ==
    [][Edited /\ InTime /\ dialog.kind \in {"outbound deletion", "balancer deletion"}
         /\ (dialog.kind = "balancer deletion" => LoopbacksLead(draft)) =>
         LET fates == dialog.plan.fates
             stay  == { i \in DOMAIN fates : fates[i] # "removed" }
             own   == IF dialog.kind = "balancer deletion" THEN {draft.balancers[dialog.at].tag} ELSE {}
         IN  /\ Len(draft'.rules) = Cardinality(stay)
             /\ \A i \in stay :
                   LET old == draft.rules[i]
                       new == draft'.rules[Cardinality({ j \in stay : j <= i })]
                   IN  IF fates[i] = "kept" THEN new = old
                       ELSE /\ new.outbound # NoTag \/ new.balancer # ""
                            /\ old.outbound \in {NoTag, new.outbound} \/ old.outbound \notin TagsOf(draft'.outbounds)
                            /\ new.outbound.kind = "out" /\ new.outbound \in TagsOf(draft.outbounds)
                                  => new.outbound \in TagsOf(draft'.outbounds)
                            /\ new.balancer \in TagsOf(draft.balancers) \ {""}
                                  => new.balancer \in TagsOf(draft'.balancers)
             /\ TagsOf(draft'.balancers) = TagsOf(draft.balancers) \ (dialog.plan.cascaded \cup own)
             /\ dialog.plan.observer <=> /\ draft.observer.kind # "none"
                                         /\ draft'.observer.kind # draft.observer.kind]_vars

\* A balancer that needs measurements has the observer that makes them, with
\* one observer for both strategies, and none runs for nothing: the core
\* refuses a leastLoad balancer without the burst observer (syncObservatories,
\* called by every edit of the balancers and every deletion).
ObserverWhereNeeded == ObserverFits(draft)

\* The page calls a draft saved only when the server holds it, whatever the
\* user changed while a save was under way (saveMut, the dirty timer), until a
\* save is stored and answered as a failure: then it calls the older one saved.
SavedOnlyWhenStored ==
    save.phase = "idle" /\ ~save.doubt /\ text = "draft" /\ draft = base => stored = draft

\* What the form saves of the outbound it was opened on, or of the text typed
\* into it: all but what the controls used since stand for.  The transport
\* carries its settings, the masks and the dialer; the security outlives every
\* change of protocol and transport that supports it (applyNetworkChange).
\* Hysteria's stream is its own, over TLS: another is replaced when it is read.
Steps(control, first, touched) == {first} \cup { x[2] : x \in { y \in touched : y[1] = control } }

KeepsTheRest(o, saved, touched) ==
    LET protocols == Steps("protocol", o.protocol, touched)
        networks  == Steps("network", o.stream.network, touched)
        Used(c)   == \E x \in touched : x[1] = c
        fits      == IF o.protocol = "hysteria"
                     THEN o.stream.network = "hysteria" /\ o.stream.security = "tls"
                     ELSE o.stream.network \notin {"", "hysteria"}
        carried   == /\ StreamWritten(saved.protocol) /\ fits
                     /\ protocols = {o.protocol} \/ {"hysteria", "wireguard"} \cap protocols = {}
        supported == \A p \in protocols, n \in networks : StreamAllowed(p) =>
                        CASE o.stream.security = "tls"     -> CanEnableTls(p, n)
                          [] o.stream.security = "reality" -> CanEnableReality(p, n)
                          [] OTHER -> o.stream.security = "none"
    IN  /\ ~Used("protocol") =>
              /\ saved.protocol = o.protocol
              /\ saved.server \in {o.server} \cup Servers
              /\ o.protocol = "vless" /\ ~Used("flow") => saved.flow = o.flow
              /\ o.protocol = "vless" => saved.encryption = o.encryption
        /\ ~Used("mux") /\ "xhttp" \notin networks => saved.mux = (o.mux /\ MuxAllowed(saved))
        /\ carried /\ ~Used("network") =>
              /\ saved.stream.network = o.stream.network /\ saved.stream.mask = o.stream.mask
              /\ Canonical(saved.stream.network, saved.stream.own) = Canonical(o.stream.network, o.stream.own)
              /\ saved.dialer \in {o.dialer, saved.tag}
        /\ carried /\ supported /\ ~Used("security") =>
              /\ saved.stream.security = o.stream.security
              /\ o.stream.security # "none" => saved.stream.secure = o.stream.secure

\* Where the dialog has put its outbound.
Written == LET n == Len(draft.outbounds)
           IN  draft'.outbounds[IF dialog.at \in 1..n THEN dialog.at ELSE n + 1]

FormKeepsTheRest ==
    [][Edited /\ dialog.kind = "outbound" =>
         LET form == dialog.form
             from == IF form.tab = "basic" THEN form.from ELSE form.text.of
         IN  from.protocol \in Protocols =>
                KeepsTheRest(from, Written, IF form.tab = "basic" THEN form.touched ELSE {})]_vars

\* An outbound made of a share link of the panel, and saved as it was imported,
\* connects to the endpoint of the inbound or profile the link was written for,
\* with its credential, transport, security and masks (inbound-link.ts and
\* outbound-link-parser.ts, through the form's adapter in between).
ImportedReaches ==
    [][Edited /\ dialog.kind = "outbound" /\ dialog.form.touched = {} /\ ~dialog.form.dirty =>
         \A e \in Range(dialog.form.endpoint) :
            ~Lossy(e) => Written.server \in Servers \/ Reaches(Written, e)]_vars

\* What reference-cleanup.ts:5-9 promises of the configuration that is saved:
\* every rule that names a balancer names one that exists, since the core does
\* not start with another.
BalancersResolve ==
    \A i \in DOMAIN stored.rules :
        stored.rules[i].balancer \in {""} \cup TagsOf(stored.balancers)
=============================================================================
