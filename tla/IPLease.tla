------------------------------- MODULE IPLease -------------------------------
(***************************************************************************)
(* The strict IP limit of one client: the lease coordinator of the root    *)
(* panel (internal/iplimit/coordinator.go), to which every panel of the    *)
(* tree forwards the requests of its core (StrictIPLimitService.resolve).  *)
(*                                                                         *)
(* A holder is a path through the tree to one core.  Requests of any       *)
(* holder arrive at any time, so that a lost, late or repeated request is  *)
(* one that does not come, comes later or comes again.  Each is one        *)
(* database transaction under the mutex of the client.                     *)
(***************************************************************************)
EXTENDS Naturals, FiniteSets, FiniteSetsExt

CONSTANTS
  IP,       \* source IPs, numbers in the order of their text form
  Holder,   \* holder keys: "local:<guid>" and "path:<hash>"
  Limit,    \* the values that LimitIP takes; 0 is unlimited
  TTL,      \* strictIPLimitLeaseTTL, in ticks
  MaxTime   \* bound: ticks of the root's clock

ASSUME IPLeaseAssumption ==
  /\ IP \subseteq Nat
  /\ Limit \subseteq Nat
  /\ TTL \in Nat \ {0}
  /\ MaxTime \in Nat

VARIABLES
  limit,  \* ClientRecord.LimitIP
  rows,   \* the client's rows of ClientIPLeaseHolder
  now,    \* the root's clock
  since   \* history: since when an IP has had its slot without a gap

vars == <<limit, rows, now, since>>

Row == [ip : IP, holder : Holder, created : 0..MaxTime, expires : 0..(MaxTime + TTL)]

Live(R, t) == {r \in R : r.expires > t}
IPsOf(R) == {r.ip : r \in R}
Slots == IPsOf(Live(rows, now))

Init ==
  /\ limit \in Limit
  /\ rows = {} /\ now = 0
  /\ since = [ip \in IP |-> 0]

\* The age of a slot, a time of creation: it is as old as its oldest holder row.
Age(R, ip) == Min({r.created : r \in {x \in R : x.ip = ip}})

Older(R, a, b) == Age(R, a) < Age(R, b) \/ (Age(R, a) = Age(R, b) /\ a < b)

\* Mutant: a lowered limit leaves the slots alone.
MutConverge(R) == R

\* convergeClientLimit: the oldest slots stay, ties go to the smaller IP.
Converge(R) ==
  {r \in R : Cardinality({ip \in IPsOf(R) : Older(R, ip, r.ip)}) < limit}

\* upsertHolder: a renewal keeps created_at.
Upsert(R, i, h) ==
  LET old == {r \in R : r.ip = i /\ r.holder = h}
      created == IF old = {} THEN now ELSE Min({r.created : r \in old})
  IN  (R \ old) \cup {[ip |-> i, holder |-> h, created |-> created, expires |-> now + TTL]}

-----------------------------------------------------------------------------
\* Acquire without a limit forgets every lease.
Unlimited ==
  /\ limit = 0
  /\ rows' = {}

\* Mutant: rows that have expired are not pruned first.
MutKept == Converge(rows)

\* What an Acquire finds once it has pruned and converged.
Kept == Converge(Live(rows, now))

\* An IP that has a slot, whoever holds it.
Renew(ip, h) ==
  /\ limit > 0
  /\ ip \in IPsOf(Kept)
  /\ rows' = Upsert(Kept, ip, h)

\* Mutant: the comparison lets one IP too many in.
MutGrant(ip, h) ==
  /\ limit > 0
  /\ ip \notin IPsOf(Kept)
  /\ Cardinality(IPsOf(Kept)) <= limit
  /\ rows' = Upsert(Kept, ip, h)

\* A new IP while there is room.
Grant(ip, h) ==
  /\ limit > 0
  /\ ip \notin IPsOf(Kept)
  /\ Cardinality(IPsOf(Kept)) < limit
  /\ rows' = Upsert(Kept, ip, h)

\* Refused: expired and excess slots are gone all the same.
Refuse(ip) ==
  /\ limit > 0
  /\ ip \notin IPsOf(Kept)
  /\ Cardinality(IPsOf(Kept)) >= limit
  /\ rows' = Kept

Acquire ==
  /\ \/ Unlimited
     \/ \E ip \in IP, h \in Holder : Renew(ip, h) \/ Grant(ip, h)
     \/ \E ip \in IP : Refuse(ip)
  /\ UNCHANGED <<limit, now>>

\* Mutant: a release gives up the slot for every holder.
MutRelease ==
  /\ \E r \in rows : rows' = {x \in rows : x.ip # r.ip}
  /\ UNCHANGED <<limit, now>>

\* Release of one holder.
Release ==
  /\ \E r \in rows : rows' = rows \ {r}
  /\ UNCHANGED <<limit, now>>

\* Snapshot and PruneExpired.
Prune ==
  /\ rows' = Live(rows, now)
  /\ UNCHANGED <<limit, now>>

\* The administrator edits the client.
SetLimit ==
  /\ limit' \in Limit
  /\ UNCHANGED <<rows, now>>

Tick ==
  /\ now < MaxTime
  /\ now' = now + 1
  /\ UNCHANGED <<limit, rows>>

Step == Acquire \/ Release \/ Prune \/ SetLimit \/ Tick

Next ==
  /\ Step
  /\ since' = [ip \in IP |-> IF ip \in Slots' \ Slots THEN now' ELSE since[ip]]

Spec == Init /\ [][Next]_vars

-----------------------------------------------------------------------------
(***************************************************************************)
(* Correctness.                                                            *)
(***************************************************************************)
\* Rows have their types, a holder has one row for an IP, and no lease goes
\* beyond the TTL from now: a caller cannot extend it.
TypeOK ==
  /\ limit \in Limit
  /\ rows \in SUBSET Row
  /\ now \in 0..MaxTime
  /\ since \in [IP -> 0..MaxTime]
  /\ \A r, s \in rows : r.ip = s.ip /\ r.holder = s.holder => r = s
  /\ \A r \in rows : r.created <= now /\ r.expires <= now + TTL

\* The slots implement the abstract strict limit: admission one IP at a time
\* and within the limit of that moment.
Abstract == INSTANCE LeaseSlots WITH slots <- Slots
StrictLimit == Abstract!Spec

\* Whoever is granted or renewed a lease finds the limit respected, also right
\* after it has been lowered.
GrantWithinLimit ==
  [][\A r \in rows' : r \notin rows => Cardinality(Slots') <= limit]_vars

\* The first IPs win: an active slot is lost only because time passes, because
\* its last holder releases it, or because the limit has been lowered or lifted.
NoPreemption ==
  [][\A ip \in Slots \ Slots' :
       \/ now' > now
       \/ \E r \in rows : rows' = rows \ {r} /\ r.ip = ip
                          /\ \A s \in Live(rows, now) : s.ip = ip => s = r
       \/ limit = 0
       \/ Cardinality(Slots) > limit]_vars

\* No slot counts as older than it is: neither a renewal nor the row of an
\* earlier tenure, expired in the meantime, gives an IP seniority.
AgeWithinTenure ==
  \A ip \in Slots : Age(Live(rows, now), ip) >= since[ip]
=============================================================================
