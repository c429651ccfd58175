------------------------------ MODULE XrayConfig ------------------------------
(* The edits of the Xray configuration editor as functions of the             *)
(* configuration: what a deletion, a rename or a balancer's fallback changes  *)
(* besides the object itself (pages/xray: reference-cleanup.ts,               *)
(* balancers/balancer-loopback.ts, balancers/balancer-helpers.ts,             *)
(* basics/helpers.ts).                                                        *)
(*                                                                            *)
(* A configuration is a record of the outbounds, the routing rules and the    *)
(* balancers, in their order, and of the observer.  A tag is a record, so     *)
(* that the tag of the loopback of balancer b, "_bl_" + b, is Lb(b).  A rule  *)
(* keeps its inbound tag, its two destinations and the one criterion it has.  *)
EXTENDS Integers, Sequences, FiniteSets, SequencesExt

NoTag  == [kind |-> "none", name |-> ""]
Out(n) == [kind |-> "out",  name |-> n]
Lb(b)  == [kind |-> "loop", name |-> b]

IsLoopback(tag) == tag.kind = "loop"
TagsOf(s)       == { s[i].tag : i \in DOMAIN s }

\* The elements of a sequence at some positions, in their order.
Nth(I, n)    == CHOOSE i \in I : Cardinality({ j \in I : j <= i }) = n
Select(s, I) == [n \in 1..Cardinality(I) |-> s[Nth(I, n)]]

\* The settings of a network and of a security, "" where a field is blank.
NoFields  == [path |-> "", host |-> "", service |-> "", authority |-> "", mode |-> "", header |-> "",
              mtu |-> "", padding |-> "", session |-> "", packet |-> "", auth |-> ""]
NoSecrets == [sni |-> "", fp |-> "", alpn |-> "", ech |-> "", vcn |-> "", pcs |-> "",
              pbk |-> "", sid |-> "", spx |-> "", pqv |-> ""]
NoStream  == [network |-> "", own |-> NoFields, security |-> "none", secure |-> NoSecrets, mask |-> ""]
NoServer  == [host |-> "", port |-> 0, user |-> << >>, peer |-> << >>, psk |-> ""]

Tags    == [kind : {"none", "out", "loop"}, name : STRING]
Fields  == [path : STRING, host : STRING, service : STRING, authority : STRING, mode : STRING, header : STRING,
            mtu : STRING, padding : STRING, session : STRING, packet : STRING, auth : STRING]
Secrets == [sni : STRING, fp : STRING, alpn : STRING, ech : STRING, vcn : STRING, pcs : STRING,
            pbk : STRING, sid : STRING, spx : STRING, pqv : STRING]
Streams == [network : STRING, own : Fields, security : STRING, secure : Secrets, mask : STRING]
ServerRecords   == [host : STRING, port : Nat, user : Seq(STRING), peer : Seq(STRING), psk : STRING]
OutboundRecords == [tag : Tags, protocol : STRING, dialer : Tags, server : ServerRecords, flow : STRING,
                    encryption : STRING, stream : Streams, mux : BOOLEAN]
RuleRecords     == [inbound : Tags, criterion : STRING, outbound : Tags, balancer : STRING]
BalancerRecords == [tag : STRING, strategy : STRING, selector : SUBSET Tags, fallback : Tags]
Configs == [outbounds : Seq(OutboundRecords), rules : Seq(RuleRecords), balancers : Seq(BalancerRecords),
            observer : [kind : STRING, subjects : SUBSET Tags]]

OutboundOf(tag) ==
    [tag |-> tag, protocol |-> "freedom", dialer |-> NoTag, server |-> NoServer, flow |-> "",
     encryption |-> "none", stream |-> NoStream, mux |-> FALSE]
ProviderOf(tag) == [OutboundOf(tag) EXCEPT !.protocol = "wireguard"]
LoopbackOf(b)   == [OutboundOf(Lb(b)) EXCEPT !.protocol = "loopback"]
LoopbackRule(b) == [inbound |-> Lb(b), criterion |-> "inbound",
                    outbound |-> NoTag, balancer |-> ""]

-------------------------------------------------------------------------------
(* The observers a configuration needs.                                       *)

NoObserver == [kind |-> "none", subjects |-> {}]

RequiresBurst(b) ==
    \/ b.strategy = "leastLoad"
    \/ b.strategy = "random" /\ b.fallback # NoTag

Selectors(bs) == UNION { b.selector : b \in bs }

MutSyncObservatories(c) ==      \* the fallback of a random balancer is not watched
    IF \E b \in Range(c.balancers) : b.strategy # "random"
    THEN c ELSE [c EXCEPT !.observer = NoObserver]

SyncObservatories(c) ==
    LET pings    == { b \in Range(c.balancers) : b.strategy = "leastPing" }
        required == { b \in Range(c.balancers) : RequiresBurst(b) }
    IN  [c EXCEPT !.observer =
           CASE required # {} -> [kind |-> "burst", subjects |-> Selectors(required \cup pings)]
             [] required = {} /\ pings # {} -> [kind |-> "regular", subjects |-> Selectors(pings)]
             [] OTHER -> NoObserver]

-------------------------------------------------------------------------------
(* Deleting an outbound or a balancer: the removed tags are ro (outbounds)    *)
(* and rb (balancers).                                                        *)

LosesOutbound(rule, ro) == rule.outbound # NoTag /\ rule.outbound \in ro
LosesBalancer(rule, rb) == rule.balancer # "" /\ rule.balancer \in rb

\* What becomes of a rule: untouched, repaired, or left without destination.
ClassifyRule(rule, ro, rb) ==
    LET keeps == \/ rule.outbound # NoTag /\ ~LosesOutbound(rule, ro)
                 \/ rule.balancer # "" /\ ~LosesBalancer(rule, rb)
    IN  CASE ~LosesOutbound(rule, ro) /\ ~LosesBalancer(rule, rb) -> "kept"
          [] (LosesOutbound(rule, ro) \/ LosesBalancer(rule, rb)) /\ keeps -> "modified"
          [] OTHER -> "removed"

MutRepaired(rule, ro, rb) ==    \* a rule that keeps its balancer keeps the dead outbound too
    [rule EXCEPT !.balancer = IF LosesBalancer(rule, rb) THEN "" ELSE @]

Repaired(rule, ro, rb) ==
    [rule EXCEPT !.outbound = IF LosesOutbound(rule, ro) THEN NoTag ELSE @,
                 !.balancer = IF LosesBalancer(rule, rb) THEN "" ELSE @]

RepairRules(rules, ro, rb) ==
    LET kept == Select(rules, { i \in DOMAIN rules : ClassifyRule(rules[i], ro, rb) # "removed" })
    IN  [n \in DOMAIN kept |-> Repaired(kept[n], ro, rb)]

RepairBalancer(b, ro) ==
    [b EXCEPT !.selector = @ \ ro, !.fallback = IF @ \in ro THEN NoTag ELSE @]

RepairBalancers(bs, ro, rb) ==
    LET kept == Select(bs, { i \in DOMAIN bs : bs[i].tag \notin rb })
    IN  [n \in DOMAIN kept |-> RepairBalancer(kept[n], ro)]

RepairOutbounds(os, ro) ==
    LET kept == Select(os, { i \in DOMAIN os : os[i].tag \notin ro })
    IN  [n \in DOMAIN kept |-> [kept[n] EXCEPT !.dialer = IF @ \in ro THEN NoTag ELSE @]]

ApplyCleanup(c, ro, rb) ==
    SyncObservatories([outbounds |-> RepairOutbounds(c.outbounds, ro),
                       rules     |-> RepairRules(c.rules, ro, rb),
                       balancers |-> RepairBalancers(c.balancers, ro, rb),
                       observer  |-> c.observer])

\* Balancers whose selector is left empty once ro is gone.
BalancersEmptiedBy(c, ro) ==
    { b.tag : b \in { x \in Range(c.balancers) : x.selector # {} /\ x.selector \subseteq ro } }

ApplyOutboundDeletion(c, i) ==
    LET ro == { c.outbounds[i].tag }
    IN  ApplyCleanup(c, ro, BalancersEmptiedBy(c, ro))

ApplyBalancerDeletion(c, i) == ApplyCleanup(c, {}, { c.balancers[i].tag })

\* What the confirmation dialog announces: the fate of each rule, the
\* balancers removed along, the observer that goes.
PlanDeletion(c, ro, rb, cascaded) ==
    [fates    |-> [r \in DOMAIN c.rules |-> ClassifyRule(c.rules[r], ro, rb)],
     cascaded |-> cascaded,
     observer |-> /\ c.observer.kind # "none"
                  /\ ApplyCleanup(c, ro, rb).observer.kind # c.observer.kind]

PlanOutboundDeletion(c, i) ==
    LET ro == { c.outbounds[i].tag }
        rb == BalancersEmptiedBy(c, ro)
    IN  PlanDeletion(c, ro, rb, rb)

PlanBalancerDeletion(c, i) == PlanDeletion(c, {}, { c.balancers[i].tag }, {})

-------------------------------------------------------------------------------
(* A balancer that falls back to another balancer does so through a loopback  *)
(* outbound and a rule that leads from it to that balancer.                   *)

FindLoopbackTarget(c, tag) ==
    LET hit == SelectInSeq(c.rules, LAMBDA rule : rule.inbound = tag /\ rule.balancer # "")
    IN  IF hit = 0 THEN "" ELSE c.rules[hit].balancer

\* The fallback the table and the form show for a balancer.
ResolveLoopbackFallback(c, tag) ==
    IF ~IsLoopback(tag) THEN tag.name
    ELSE IF FindLoopbackTarget(c, tag) # "" THEN FindLoopbackTarget(c, tag) ELSE tag.name

CountLoopbackRefs(c, b) == Cardinality({ i \in DOMAIN c.balancers : c.balancers[i].fallback = Lb(b) })

EnsureBalancerLoopback(c, b) ==
    LET o == SelectInSeq(c.outbounds, LAMBDA x : x.tag = Lb(b))
        r == SelectInSeq(c.rules, LAMBDA x : x.inbound = Lb(b))
    IN  [c EXCEPT !.outbounds = IF o > 0 THEN [@ EXCEPT ![o] = LoopbackOf(b)]
                                ELSE Append(@, LoopbackOf(b)),
                  !.rules     = IF r > 0 THEN [@ EXCEPT ![r].balancer = b]
                                ELSE Append(@, [LoopbackRule(b) EXCEPT !.balancer = b])]

RemoveBalancerLoopback(c, b) ==
    [c EXCEPT !.outbounds = Select(@, { i \in DOMAIN @ : @[i].tag # Lb(b) }),
              !.rules     = Select(@, { i \in DOMAIN @ : @[i].inbound # Lb(b) })]

RemoveBalancerLoopbackIfOrphaned(c, b) ==
    IF CountLoopbackRefs(c, b) > 0 THEN c ELSE RemoveBalancerLoopback(c, b)

EnsureMissingBalancerLoopbacks(c) ==
    LET done[n \in 0..Len(c.balancers)] ==
            IF n = 0 THEN c
            ELSE IF IsLoopback(c.balancers[n].fallback)
                 THEN EnsureBalancerLoopback(done[n - 1], c.balancers[n].fallback.name)
                 ELSE done[n - 1]
    IN  done[Len(c.balancers)]

CleanupOrphanedBalancerLoopbacks(c) ==
    LET orphaned == { o.tag : o \in { x \in Range(c.outbounds) :
                        /\ x.protocol = "loopback" /\ IsLoopback(x.tag)
                        /\ CountLoopbackRefs(c, x.tag.name) = 0 } }
    IN  [c EXCEPT !.outbounds = Select(@, { i \in DOMAIN @ : @[i].tag \notin orphaned }),
                  !.rules     = Select(@, { i \in DOMAIN @ : @[i].inbound \notin orphaned })]

\* The balancer another one falls back to, "" when there is none.
FallbackOf(c, b) ==
    LET i == SelectInSeq(c.balancers, LAMBDA x : x.tag = b)
    IN  IF i > 0 /\ IsLoopback(c.balancers[i].fallback) THEN c.balancers[i].fallback.name ELSE ""

\* The chain of fallbacks from b, followed as often as there are balancers.
Chain(c, b) ==
    LET at[n \in 0..Len(c.balancers)] == IF n = 0 THEN b ELSE FallbackOf(c, at[n - 1])
    IN  at

HasBalancerCycle(c) ==
    \E b \in Range(c.balancers) : \E n \in 1..Len(c.balancers) : Chain(c, b.tag)[n] = b.tag

-------------------------------------------------------------------------------
(* Renaming.                                                                  *)

Subst(x, old, new) == IF x = old THEN new ELSE x

\* A balancer, a rule and an outbound in which a tag is replaced.
Retagged(b, old, new) ==
    [tag |-> b.tag, strategy |-> b.strategy, selector |-> { Subst(s, old, new) : s \in b.selector },
     fallback |-> Subst(b.fallback, old, new)]
Redirected(rule, old, new) == [rule EXCEPT !.outbound = Subst(@, old, new)]
Redialed(o, old, new)      == [o EXCEPT !.dialer = Subst(@, old, new)]

PropagateOutboundTagRename(c, old, new) ==
    IF NoTag \in {old, new} THEN c ELSE
    [c EXCEPT !.rules     = [r \in DOMAIN @ |-> Redirected(@[r], old, new)],
              !.balancers = [b \in DOMAIN @ |-> Retagged(@[b], old, new)],
              !.outbounds = [o \in DOMAIN @ |-> Redialed(@[o], old, new)]]

\* A rule, a balancer and an outbound in which the loopback of a renamed
\* balancer is renamed.
RuleRenamed(rule, old, new)  == [rule EXCEPT !.inbound = Subst(@, Lb(old), Lb(new))]
FallbackRenamed(b, old, new) == [b EXCEPT !.fallback = Subst(@, Lb(old), Lb(new))]
LoopbackRenamed(o, old, new) == [o EXCEPT !.tag = Subst(@, Lb(old), Lb(new))]

PropagateBalancerTagRename(c, old, new) ==
    [c EXCEPT !.rules     = [r \in DOMAIN @ |-> RuleRenamed(@[r], old, new)],
              !.balancers = [b \in DOMAIN @ |-> FallbackRenamed(@[b], old, new)],
              !.outbounds = [o \in DOMAIN @ |-> LoopbackRenamed(@[o], old, new)]]

-------------------------------------------------------------------------------
(* The basic routing page: rules by destination and criterion, and the        *)
(* outbounds "direct" and "IPv4" that come and go with their rules.           *)

Matches(rule, tag, criterion) == rule.outbound = tag /\ rule.criterion = criterion

RuleGetter(c, tag, criterion) == { i \in DOMAIN c.rules : Matches(c.rules[i], tag, criterion) }

\* The list of values becomes empty or not: the first matching rule stays
\* when there are values, the other matching rules go.
RuleSetter(c, tag, criterion, some) ==
    LET old  == RuleGetter(c, tag, criterion)
        stay == IF some THEN { i \in old : \A j \in old : i <= j } ELSE {}
        kept == { i \in DOMAIN c.rules : i \notin old \/ i \in stay }
    IN  IF old = {}
        THEN [c EXCEPT !.rules = Append(@, [inbound |-> NoTag, criterion |-> criterion,
                                             outbound |-> tag, balancer |-> ""])]
        ELSE [c EXCEPT !.rules = Select(@, kept)]

SyncOutbound(c, tag) ==
    LET used == \E i \in DOMAIN c.rules : c.rules[i].outbound = tag
        at   == SelectInSeq(c.outbounds, LAMBDA o : o.tag = tag)
    IN  CASE ~used /\ at > 1 -> [c EXCEPT !.outbounds = RemoveAt(@, at)]
          [] used /\ at = 0  -> [c EXCEPT !.outbounds = Append(@, OutboundOf(tag))]
          [] OTHER -> c

ToFront(s, i) == << s[i] >> \o RemoveAt(s, i)

SetDefaultOutboundTag(c, tag) ==
    LET at == SelectInSeq(c.outbounds, LAMBDA o : o.tag = tag)
    IN  CASE at = 0 /\ tag.name \in {"direct", "blocked"} ->
               [c EXCEPT !.outbounds = << OutboundOf(tag) >> \o @]
          [] at > 1 -> [c EXCEPT !.outbounds = ToFront(@, at)]
          [] OTHER -> c
=============================================================================
