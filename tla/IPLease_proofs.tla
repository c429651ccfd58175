---------------------------- MODULE IPLease_proofs ----------------------------
(***************************************************************************)
(* Proofs about IPLease, for every set of IPs, holders and limits: types,  *)
(* the limit at every grant, and that the lease rows implement LeaseSlots. *)
(***************************************************************************)
EXTENDS IPLease, FiniteSetTheorems, WellFoundedInduction, TLAPS

\* The slots that come before the slot of an IP, and how many they are.
Before(R, ip) == {i \in IPsOf(R) : Older(R, i, ip)}
Rank(R, ip) == Cardinality(Before(R, ip))

\* A set of rows as the coordinator keeps them.
Rows(R) == R \in SUBSET Row /\ IsFiniteSet(R)

-----------------------------------------------------------------------------
\* A nonempty set of naturals has a least element, and Min is it.
LEMMA LeastNat ==
  ASSUME NEW S \in SUBSET Nat, S # {}
  PROVE  Min(S) \in S /\ \A y \in S : Min(S) <= y
<1> DEFINE less == {ss \in Nat \X Nat : ss[1] < ss[2]}
<1>1. IsWellFoundedOn(less, Nat)
  BY NatLessThanWellFounded DEF OpToRel
<1> HIDE DEF less
<1>2. PICK x \in S : \A y \in S : ~(<<y, x>> \in less)
  BY <1>1, WFMin
<1>3. \A y \in S : ~(y < x)
  BY <1>2 DEF less
<1>4. \A y \in S : x <= y
  BY <1>3
<1>5. QED
  BY <1>4 DEF Min

LEMMA AgeTyped ==
  ASSUME NEW R \in SUBSET Row, NEW ip \in IPsOf(R)
  PROVE  Age(R, ip) \in Nat
<1> DEFINE C == {r.created : r \in {x \in R : x.ip = ip}}
<1>1. C \in SUBSET Nat
  BY IPLeaseAssumption DEF Row
<1>2. C # {}
  BY DEF IPsOf
<1>3. Min(C) \in C
  BY <1>1, <1>2, LeastNat
<1>4. QED
  BY <1>1, <1>3 DEF Age

LEMMA IPsFinite ==
  ASSUME NEW R, Rows(R)
  PROVE  IsFiniteSet(IPsOf(R)) /\ IPsOf(R) \subseteq IP
<1>1. [r \in R |-> r.ip] \in Surjection(R, IPsOf(R))
  BY DEF Surjection, IPsOf
<1>2. IsFiniteSet(IPsOf(R))
  BY <1>1, FS_Surjection DEF Rows
<1>3. QED
  BY <1>2 DEF IPsOf, Rows, Row

LEMMA SubRows ==
  ASSUME NEW R, Rows(R), NEW S \in SUBSET R
  PROVE  Rows(S) /\ IPsOf(S) \subseteq IPsOf(R)
BY FS_Subset DEF Rows, IPsOf

\* Seniority is a strict total order of the slots.
LEMMA OlderIsOrder ==
  ASSUME NEW R, Rows(R), NEW a \in IPsOf(R), NEW b \in IPsOf(R), NEW c \in IPsOf(R)
  PROVE  /\ ~Older(R, a, a)
         /\ Older(R, a, b) /\ Older(R, b, c) => Older(R, a, c)
         /\ a # b => Older(R, a, b) \/ Older(R, b, a)
<1>1. Age(R, a) \in Nat /\ Age(R, b) \in Nat /\ Age(R, c) \in Nat
  BY AgeTyped DEF Rows
<1>2. a \in Nat /\ b \in Nat /\ c \in Nat
  BY IPsFinite, IPLeaseAssumption
<1>3. QED
  BY <1>1, <1>2 DEF Older

LEMMA BeforeFinite ==
  ASSUME NEW R, Rows(R), NEW a
  PROVE  IsFiniteSet(Before(R, a)) /\ Rank(R, a) \in Nat
<1>1. IsFiniteSet(Before(R, a))
  BY IPsFinite, FS_Subset DEF Before
<1>2. QED
  BY <1>1, FS_CardinalityType DEF Rank

\* An older slot has the smaller rank.
LEMMA RankGrows ==
  ASSUME NEW R, Rows(R), NEW a \in IPsOf(R), NEW b \in IPsOf(R), Older(R, a, b)
  PROVE  Rank(R, a) < Rank(R, b)
<1>1. a \notin Before(R, a)
  BY OlderIsOrder DEF Before
<1>2. Before(R, a) \cup {a} \subseteq Before(R, b)
  BY OlderIsOrder DEF Before
<1>3. IsFiniteSet(Before(R, a)) /\ IsFiniteSet(Before(R, b))
  BY BeforeFinite
<1>4. Cardinality(Before(R, a) \cup {a}) = Rank(R, a) + 1
  BY <1>1, <1>3, FS_AddElement DEF Rank
<1>5. Cardinality(Before(R, a) \cup {a}) <= Rank(R, b)
  BY <1>2, <1>3, FS_Subset DEF Rank
<1>6. QED
  BY <1>4, <1>5, BeforeFinite

-----------------------------------------------------------------------------
LEMMA ConvergeSlots ==
  ASSUME NEW R, Rows(R)
  PROVE  /\ Converge(R) \subseteq R
         /\ IPsOf(Converge(R)) = {ip \in IPsOf(R) : Rank(R, ip) < limit}
BY DEF Converge, IPsOf, Rank, Before

\* convergeClientLimit keeps at most as many slots as the limit allows: the
\* youngest slot that stays has all the others before it.
LEMMA AtMostLimit ==
  ASSUME NEW R, Rows(R), limit \in Nat
  PROVE  Cardinality(IPsOf(Converge(R))) <= limit
<1> DEFINE S == IPsOf(Converge(R))
<1>1. S = {ip \in IPsOf(R) : Rank(R, ip) < limit}
  BY ConvergeSlots
<1>2. IsFiniteSet(S) /\ Cardinality(S) \in Nat
  BY <1>1, IPsFinite, FS_Subset, FS_CardinalityType
<1> HIDE DEF S
<1>3. CASE S = {}
  BY <1>3, FS_EmptySet DEF S
<1>4. CASE S # {}
  <2> DEFINE D == {limit - Rank(R, i) : i \in S}
  <2>1. \A i \in S : Rank(R, i) \in Nat /\ Rank(R, i) < limit /\ i \in IPsOf(R)
    BY <1>1, BeforeFinite
  <2>2. D \in SUBSET Nat /\ D # {}
    BY <1>4, <2>1
  <2>3. PICK m \in S : \A i \in S : limit - Rank(R, m) <= limit - Rank(R, i)
    <3>1. Min(D) \in D /\ \A d \in D : Min(D) <= d
      BY <2>2, LeastNat
    <3>2. QED
      BY <3>1
  <2>4. \A i \in S : Rank(R, i) <= Rank(R, m)
    BY <2>1, <2>3
  <2>5. \A i \in S \ {m} : i \in Before(R, m)
    <3> SUFFICES ASSUME NEW i \in S \ {m} PROVE i \in Before(R, m)
      OBVIOUS
    <3>1. ~Older(R, m, i)
      BY <2>1, <2>4, RankGrows
    <3>2. Older(R, i, m)
      BY <2>1, <3>1, OlderIsOrder
    <3>3. QED
      BY <2>1, <3>2 DEF Before
  <2>6. Cardinality(S \ {m}) <= Rank(R, m)
    BY <2>5, BeforeFinite, FS_Subset DEF Rank
  <2>7. Cardinality(S \ {m}) = Cardinality(S) - 1
    BY <1>2, FS_RemoveElement
  <2>8. QED
    BY <1>2, <2>1, <2>6, <2>7 DEF S
<1>5. QED
  BY <1>3, <1>4

\* It gives up no slot unless the limit is exhausted by those that stay.
LEMMA AtLeastLimit ==
  ASSUME NEW R, Rows(R), limit \in Nat, IPsOf(Converge(R)) # IPsOf(R)
  PROVE  Cardinality(IPsOf(Converge(R))) >= limit
<1> DEFINE S == IPsOf(Converge(R))
           T == IPsOf(R) \ S
           D == {Rank(R, i) : i \in T}
<1>1. S = {ip \in IPsOf(R) : Rank(R, ip) < limit}
  BY ConvergeSlots
<1>2. IsFiniteSet(S) /\ Cardinality(S) \in Nat
  BY <1>1, IPsFinite, FS_Subset, FS_CardinalityType
<1>3. T # {} /\ \A i \in T : i \in IPsOf(R) /\ Rank(R, i) \in Nat /\ Rank(R, i) >= limit
  BY <1>1, BeforeFinite
<1> HIDE DEF S, T
<1>4. D \in SUBSET Nat /\ D # {}
  BY <1>3
<1>5. PICK t \in T : \A i \in T : Rank(R, t) <= Rank(R, i)
  <2>1. Min(D) \in D /\ \A d \in D : Min(D) <= d
    BY <1>4, LeastNat
  <2>2. QED
    BY <2>1
<1>6. Before(R, t) \subseteq S
  <2> SUFFICES ASSUME NEW i \in Before(R, t), i \notin S PROVE FALSE
    OBVIOUS
  <2>1. i \in T /\ Older(R, i, t)
    BY DEF Before, T
  <2>2. Rank(R, i) < Rank(R, t)
    BY <1>3, <2>1, RankGrows
  <2>3. QED
    BY <1>3, <1>5, <2>1, <2>2
<1>7. Rank(R, t) <= Cardinality(S)
  BY <1>2, <1>6, FS_Subset DEF Rank
<1>8. QED
  BY <1>2, <1>3, <1>7 DEF S
-----------------------------------------------------------------------------
\* The invariant: types, and finitely many rows.
IInv == TypeOK /\ IsFiniteSet(rows)

\* upsertHolder replaces the row of its key by one that lasts for the TTL and
\* is either new or as old as the row it replaces.
LEMMA UpsertRow ==
  ASSUME NEW R, Rows(R), NEW ip \in IP, NEW h \in Holder, now \in 0..MaxTime,
         \A r \in R : r.created <= now
  PROVE  \E n \in Row :
           /\ Upsert(R, ip, h) = (R \ {r \in R : r.ip = ip /\ r.holder = h}) \cup {n}
           /\ n.ip = ip /\ n.holder = h /\ n.expires = now + TTL /\ n.created <= now
           /\ n.created = now \/ \E r \in R : r.ip = ip /\ r.created = n.created
<1> DEFINE old == {r \in R : r.ip = ip /\ r.holder = h}
           C == {r.created : r \in old}
           c == IF old = {} THEN now ELSE Min(C)
           n == [ip |-> ip, holder |-> h, created |-> c, expires |-> now + TTL]
<1>1. \A r \in R : r.created \in 0..MaxTime /\ r.created \in Nat
  BY IPLeaseAssumption DEF Rows, Row
<1>2. /\ c \in 0..MaxTime /\ c <= now
      /\ c = now \/ \E r \in R : r.ip = ip /\ r.created = c
  <2>1. CASE old = {}
    BY <2>1
  <2>2. CASE old # {}
    <3>1. C \in SUBSET Nat /\ C # {}
      BY <1>1, <2>2
    <3>2. Min(C) \in C
      BY <3>1, LeastNat
    <3>3. QED
      BY <1>1, <2>2, <3>2
  <2>3. QED
    BY <2>1, <2>2
<1>3. Upsert(R, ip, h) = (R \ old) \cup {n}
  BY DEF Upsert
<1> HIDE DEF c
<1>4. n \in Row
  BY <1>2, IPLeaseAssumption DEF Row
<1>5. QED
  BY <1>2, <1>3, <1>4

\* What an Acquire finds: rows of the table that have not expired.
LEMMA KeptRows ==
  ASSUME IInv
  PROVE  /\ Rows(rows) /\ Rows(Live(rows, now)) /\ Rows(Kept)
         /\ Kept \subseteq Live(rows, now) /\ Live(rows, now) \subseteq rows
         /\ limit \in Nat
<1>1. Rows(rows) /\ limit \in Nat
  BY IPLeaseAssumption DEF IInv, TypeOK, Rows
<1>2. Live(rows, now) \in SUBSET rows /\ Rows(Live(rows, now))
  BY <1>1, SubRows DEF Live
<1>3. Kept \in SUBSET Live(rows, now) /\ Rows(Kept)
  BY <1>2, ConvergeSlots, SubRows DEF Kept
<1>4. QED
  BY <1>1, <1>2, <1>3

\* A lease granted or renewed: the rows and the slots it leaves.
Lease(ip, h) == (Renew(ip, h) \/ Grant(ip, h)) /\ UNCHANGED <<limit, now>>

\* Every step removes rows or is a lease.
LEMMA StepShape ==
  ASSUME IInv, Step
  PROVE  \/ rows' \subseteq rows /\ now' \in {now, now + 1}
         \/ \E ip \in IP, h \in Holder : Lease(ip, h)
<1>1. now \in Nat
  BY IPLeaseAssumption DEF IInv, TypeOK
<1>2. CASE Acquire
  BY <1>2, KeptRows DEF Acquire, Unlimited, Refuse, Lease
<1>3. CASE Release \/ Prune \/ SetLimit \/ Tick
  BY <1>3, KeptRows DEF Release, Prune, SetLimit, Tick
<1>4. QED
  BY <1>2, <1>3 DEF Step

LEMMA LeaseRows ==
  ASSUME IInv, NEW ip \in IP, NEW h \in Holder, Lease(ip, h)
  PROVE  /\ limit > 0 /\ rows' = Upsert(Kept, ip, h)
         /\ Rows(rows') /\ now' = now /\ limit' = limit
         /\ \E n \in Row :
              /\ rows' = (Kept \ {r \in Kept : r.ip = ip /\ r.holder = h}) \cup {n}
              /\ n.ip = ip /\ n.holder = h /\ n.expires = now + TTL /\ n.created <= now
              /\ n.created = now \/ \E r \in Kept : r.ip = ip /\ r.created = n.created
         /\ Slots' = IPsOf(Kept) \cup {ip}
<1>1. /\ limit > 0 /\ rows' = Upsert(Kept, ip, h) /\ now' = now /\ limit' = limit
  BY DEF Lease, Renew, Grant
<1>2. now \in 0..MaxTime /\ \A r \in Kept : r.created <= now
  BY KeptRows DEF IInv, TypeOK
<1>3. PICK n \in Row :
        /\ rows' = (Kept \ {r \in Kept : r.ip = ip /\ r.holder = h}) \cup {n}
        /\ n.ip = ip /\ n.holder = h /\ n.expires = now + TTL /\ n.created <= now
        /\ n.created = now \/ \E r \in Kept : r.ip = ip /\ r.created = n.created
  BY <1>1, <1>2, KeptRows, UpsertRow
<1>4. Rows(rows')
  <2>1. Rows(Kept \ {r \in Kept : r.ip = ip /\ r.holder = h})
    BY KeptRows, SubRows
  <2>2. QED
    BY <1>3, <2>1, FS_AddElement DEF Rows
<1>5. Slots' = IPsOf(Kept) \cup {ip}
  <2>1. \A r \in rows' : r.expires > now
    <3>1. now + TTL > now
      BY <1>2, IPLeaseAssumption
    <3>2. \A r \in Kept : r.expires > now
      BY KeptRows DEF Live
    <3>3. QED
      BY <1>3, <3>1, <3>2
  <2>2. Live(rows', now') = rows'
    BY <1>1, <2>1 DEF Live
  <2>3. Slots' = IPsOf(rows')
    BY <2>2 DEF Slots
  <2>4. QED
    BY <1>3, <2>3 DEF IPsOf
<1>6. QED
  BY <1>1, <1>3, <1>4, <1>5

-----------------------------------------------------------------------------
LEMMA InitIInv == Init => IInv
<1> SUFFICES ASSUME Init PROVE IInv
  OBVIOUS
<1>1. TypeOK
  BY IPLeaseAssumption DEF Init, TypeOK
<1>2. QED
  BY <1>1, FS_EmptySet DEF Init, IInv

LEMMA NextIInv == IInv /\ [Next]_vars => IInv'
<1> SUFFICES ASSUME IInv, [Next]_vars PROVE IInv'
  OBVIOUS
<1>1. CASE UNCHANGED vars
  BY <1>1 DEF IInv, TypeOK, vars
<1>2. CASE Next
  <2>1. limit' \in Limit /\ now' \in 0..MaxTime
    <3>1. CASE Acquire \/ Release \/ Prune \/ SetLimit
      BY <3>1 DEF IInv, TypeOK, Acquire, Release, Prune, SetLimit
    <3>2. CASE Tick
      BY <3>2, IPLeaseAssumption DEF IInv, TypeOK, Tick
    <3>3. QED
      BY <1>2, <3>1, <3>2 DEF Next, Step
  <2>2. since' \in [IP -> 0..MaxTime]
    BY <1>2, <2>1 DEF Next, IInv, TypeOK
  <2>3. /\ rows' \in SUBSET Row /\ IsFiniteSet(rows')
        /\ \A r, s \in rows' : r.ip = s.ip /\ r.holder = s.holder => r = s
        /\ \A r \in rows' : r.created <= now' /\ r.expires <= now' + TTL
    <3>1. CASE rows' \subseteq rows /\ now' \in {now, now + 1}
      <4>1. Rows(rows')
        BY <3>1, KeptRows, SubRows
      <4>2. now \in Nat /\ TTL \in Nat
        BY IPLeaseAssumption DEF IInv, TypeOK
      <4>3. \A r \in rows : r.created \in Nat /\ r.expires \in Nat
        BY IPLeaseAssumption DEF IInv, TypeOK, Row
      <4>4. QED
        BY <3>1, <4>1, <4>2, <4>3 DEF IInv, TypeOK, Rows
    <3>2. ASSUME NEW ip \in IP, NEW h \in Holder, Lease(ip, h)
          PROVE  /\ rows' \in SUBSET Row /\ IsFiniteSet(rows')
                 /\ \A r, s \in rows' : r.ip = s.ip /\ r.holder = s.holder => r = s
                 /\ \A r \in rows' : r.created <= now' /\ r.expires <= now' + TTL
      <4>1. Rows(rows') /\ now' = now
        BY <3>2, LeaseRows
      <4>2. PICK n \in Row :
              /\ rows' = (Kept \ {r \in Kept : r.ip = ip /\ r.holder = h}) \cup {n}
              /\ n.ip = ip /\ n.holder = h /\ n.expires = now + TTL /\ n.created <= now
        BY <3>2, LeaseRows
      <4>3. now + TTL <= now + TTL
        BY IPLeaseAssumption DEF IInv, TypeOK
      <4>4. Kept \subseteq rows
        BY KeptRows
      <4>5. QED
        BY <4>1, <4>2, <4>3, <4>4 DEF IInv, TypeOK, Rows
    <3>3. QED
      BY <1>2, <3>1, <3>2, StepShape DEF Next
  <2>4. QED
    BY <2>1, <2>2, <2>3 DEF IInv, TypeOK
<1>3. QED
  BY <1>1, <1>2

LEMMA Invariance == Spec => []IInv
<1>1. QED
  BY InitIInv, NextIInv, PTL DEF Spec

\* Rows keep their types, a holder has one row for an IP and no lease goes
\* beyond the TTL, for every set of IPs, holders and limits
\* (coordinator.go:379-402).
THEOREM TypeCorrect == Spec => []TypeOK
<1>1. IInv => TypeOK
  BY DEF IInv
<1>2. QED
  BY <1>1, Invariance, PTL

LEMMA SlotsFinite ==
  ASSUME IInv
  PROVE  /\ IsFiniteSet(Slots) /\ Cardinality(Slots) \in Nat /\ Slots \subseteq IP
         /\ IsFiniteSet(IPsOf(Kept)) /\ IPsOf(Kept) \subseteq Slots
         /\ Cardinality(IPsOf(Kept)) \in Nat /\ Cardinality(IPsOf(Kept)) <= limit
<1>1. IsFiniteSet(Slots) /\ Slots \subseteq IP /\ IsFiniteSet(IPsOf(Kept))
  BY KeptRows, IPsFinite DEF Slots
<1>2. IPsOf(Kept) \subseteq Slots
  BY KeptRows DEF IPsOf, Slots
<1>3. Cardinality(IPsOf(Kept)) <= limit
  BY KeptRows, AtMostLimit DEF Kept
<1>4. QED
  BY <1>1, <1>2, <1>3, FS_CardinalityType

\* A lease leaves the limit respected.
LEMMA LeaseWithinLimit ==
  ASSUME IInv, NEW ip \in IP, NEW h \in Holder, Lease(ip, h)
  PROVE  Cardinality(Slots') <= limit
<1>1. Slots' = IPsOf(Kept) \cup {ip}
  BY LeaseRows
<1>2. CASE ip \in IPsOf(Kept)
  BY <1>1, <1>2, SlotsFinite, FS_AddElement
<1>3. CASE ip \notin IPsOf(Kept)
  <2>1. Cardinality(IPsOf(Kept)) < limit
    BY <1>3 DEF Lease, Renew, Grant
  <2>2. Cardinality(Slots') = Cardinality(IPsOf(Kept)) + 1
    BY <1>1, <1>3, SlotsFinite, FS_AddElement
  <2>3. QED
    BY <2>1, <2>2, SlotsFinite, KeptRows
<1>4. QED
  BY <1>2, <1>3

\* Whoever is granted or renewed a lease finds the limit respected, whatever
\* the limit was before (coordinator.go:173-216, convergeClientLimit).
THEOREM GrantsRespectLimit == Spec => GrantWithinLimit
<1>1. IInv /\ [Next]_vars =>
        [\A r \in rows' : r \notin rows => Cardinality(Slots') <= limit]_vars
  <2> SUFFICES ASSUME IInv, Next, NEW r \in rows', r \notin rows
               PROVE  Cardinality(Slots') <= limit
    OBVIOUS
  <2>1. PICK ip \in IP, h \in Holder : Lease(ip, h)
    BY StepShape DEF Next
  <2>2. QED
    BY <2>1, LeaseWithinLimit
<1>2. QED
  BY <1>1, Invariance, PTL DEF Spec, GrantWithinLimit

\* A new IP is admitted only when nothing had to be given up.
LEMMA GrantKeepsSlots ==
  ASSUME IInv, NEW ip \in IP, NEW h \in Holder, Grant(ip, h)
  PROVE  IPsOf(Kept) = Slots
<1>1. Cardinality(IPsOf(Kept)) < limit
  BY DEF Grant
<1>2. QED
  BY <1>1, SlotsFinite, KeptRows, AtLeastLimit DEF Kept, Slots

\* The lease rows implement the strict limit: admission one IP at a time and
\* within the limit of that moment (Coordinator.Acquire, Release,
\* PruneExpired against LeaseSlots).
THEOREM SlotsImplementLimit == Spec => StrictLimit
<1>1. Init => Abstract!Init
  BY DEF Init, Abstract!Init, Slots, Live, IPsOf
<1>2. IInv /\ [Next]_vars =>
        [Abstract!Admit \/ Abstract!Leave \/ Abstract!SetLimit]_<<limit, Slots>>
  <2> SUFFICES ASSUME IInv, [Next]_vars
               PROVE  [Abstract!Admit \/ Abstract!Leave \/ Abstract!SetLimit]_<<limit, Slots>>
    OBVIOUS
  <2>1. CASE UNCHANGED vars
    BY <2>1 DEF vars, Slots, Live, IPsOf
  <2>2. CASE rows' \subseteq rows /\ now' \in {now, now + 1} /\ UNCHANGED limit
    <3>1. now \in Nat /\ \A r \in rows : r.expires \in Nat
      BY IPLeaseAssumption DEF IInv, TypeOK, Row
    <3>2. Live(rows', now') \subseteq Live(rows, now)
      BY <2>2, <3>1 DEF Live
    <3>3. Slots' \in SUBSET Slots
      BY <3>2 DEF Slots, IPsOf
    <3>4. QED
      BY <2>2, <3>3 DEF Abstract!Leave
  <2>3. CASE SetLimit
    BY <2>3 DEF SetLimit, Abstract!SetLimit, Slots, Live, IPsOf
  <2>4. ASSUME NEW ip \in IP, NEW h \in Holder, Lease(ip, h)
        PROVE  Abstract!Admit \/ Abstract!Leave
    <3>1. Slots' = IPsOf(Kept) \cup {ip} /\ limit' = limit
      BY <2>4, LeaseRows
    <3>2. CASE Renew(ip, h)
      <4>1. Slots' \in SUBSET Slots
        BY <3>1, <3>2, SlotsFinite DEF Renew
      <4>2. QED
        BY <3>1, <4>1 DEF Abstract!Leave
    <3>3. CASE Grant(ip, h)
      <4>1. IPsOf(Kept) = Slots
        BY <3>3, GrantKeepsSlots
      <4>2. ip \notin Slots /\ Cardinality(Slots) < limit
        BY <3>3, <4>1 DEF Grant
      <4>3. Abstract!Cardinality(Slots) = Cardinality(Slots)
        BY DEF Abstract!Cardinality, Cardinality
      <4>4. QED
        BY <3>1, <4>1, <4>2, <4>3 DEF Abstract!Admit
    <3>4. QED
      BY <2>4, <3>2, <3>3 DEF Lease
  <2>5. QED
    <3>1. CASE SetLimit
      BY <2>3, <3>1
    <3>2. CASE Step /\ ~SetLimit
      <4>1. UNCHANGED limit
        BY <3>2 DEF Step, Acquire, Release, Prune, Tick
      <4>2. QED
        BY <2>2, <2>4, <3>2, <4>1, StepShape
    <3>3. QED
      BY <2>1, <3>1, <3>2 DEF Next
<1>3. QED
  BY <1>1, <1>2, Invariance, PTL DEF Spec, StrictLimit, Abstract!Spec

\* A slot that a converging Acquire gives up is beyond the limit.
LEMMA EvictedIsExcess ==
  ASSUME IInv, NEW ip \in Slots, ip \notin IPsOf(Kept)
  PROVE  Cardinality(Slots) > limit
<1> DEFINE L == Live(rows, now)
<1>1. Rows(L) /\ Slots = IPsOf(L) /\ limit \in Nat
  BY KeptRows DEF Slots
<1>2. Rank(L, ip) >= limit
  BY <1>1, ConvergeSlots, BeforeFinite DEF Kept
<1>3. ip \notin Before(L, ip) /\ Before(L, ip) \cup {ip} \subseteq Slots
  BY <1>1, OlderIsOrder DEF Before
<1>4. Cardinality(Before(L, ip) \cup {ip}) = Rank(L, ip) + 1
  BY <1>1, <1>3, BeforeFinite, FS_AddElement DEF Rank
<1>5. Cardinality(Before(L, ip) \cup {ip}) <= Cardinality(Slots)
  BY <1>3, SlotsFinite, FS_Subset
<1>6. QED
  BY <1>1, <1>2, <1>4, <1>5, BeforeFinite, SlotsFinite

\* An active slot is lost only because time passes, because its last holder
\* releases it, or because the limit has been lowered or lifted
\* (coordinator.go:173-257).
THEOREM FirstComeFirstServed == Spec => NoPreemption
<1> DEFINE Excused(ip) ==
             \/ now' > now
             \/ \E r \in rows : rows' = rows \ {r} /\ r.ip = ip
                                /\ \A s \in Live(rows, now) : s.ip = ip => s = r
             \/ limit = 0
             \/ Cardinality(Slots) > limit
<1>1. IInv /\ [Next]_vars => [\A ip \in Slots \ Slots' : Excused(ip)]_vars
  <2> SUFFICES ASSUME IInv, Next, NEW ip \in Slots \ Slots' PROVE Excused(ip)
    OBVIOUS
  <2>1. CASE Acquire
    <3>1. CASE Unlimited
      BY <3>1 DEF Unlimited
    <3>2. ASSUME NEW i \in IP, NEW h \in Holder, Lease(i, h)
          PROVE  Excused(ip)
      <4>1. ip \notin IPsOf(Kept)
        BY <3>2, LeaseRows
      <4>2. QED
        BY <4>1, EvictedIsExcess
    <3>3. ASSUME rows' = Kept, now' = now
          PROVE  Excused(ip)
      <4>1. Live(rows', now') = Kept
        BY <3>3, KeptRows DEF Live
      <4>2. ip \notin IPsOf(Kept)
        BY <4>1 DEF Slots
      <4>3. QED
        BY <4>2, EvictedIsExcess
    <3>4. QED
      BY <2>1, <3>1, <3>2, <3>3 DEF Acquire, Refuse, Lease
  <2>2. CASE Release
    <3>1. PICK r \in rows : rows' = rows \ {r}
      BY <2>2 DEF Release
    <3>2. Live(rows', now') = Live(rows, now) \ {r}
      BY <2>2, <3>1 DEF Release, Live
    <3>3. PICK s \in Live(rows, now) : s.ip = ip
      BY DEF Slots, IPsOf
    <3>4. \A x \in Live(rows, now) : x.ip = ip => x = r
      BY <3>2 DEF Slots, IPsOf
    <3>5. QED
      BY <3>1, <3>3, <3>4
  <2>3. CASE Prune \/ SetLimit
    BY <2>3 DEF Prune, SetLimit, Slots, Live
  <2>4. CASE Tick
    BY <2>4, IPLeaseAssumption DEF Tick, IInv, TypeOK
  <2>5. QED
    BY <2>1, <2>2, <2>3, <2>4 DEF Next, Step
<1>2. QED
  BY <1>1, Invariance, PTL DEF Spec, NoPreemption

\* The invariant about seniority: no live row was created before its slot.
AgeInv ==
  /\ IInv
  /\ \A ip \in IP : since[ip] <= now
  /\ \A r \in Live(rows, now) : r.created >= since[r.ip]

LEMMA NextAgeInv == AgeInv /\ [Next]_vars => AgeInv'
<1> SUFFICES ASSUME AgeInv, [Next]_vars PROVE AgeInv'
  OBVIOUS
<1>1. CASE UNCHANGED vars
  BY <1>1, NextIInv DEF AgeInv, vars, Live
<1>2. CASE Next
  <2>1. IInv /\ IInv'
    BY NextIInv DEF AgeInv
  <2>2. /\ now \in Nat /\ now' \in Nat /\ now <= now'
        /\ \A ip \in IP : since[ip] \in Nat
        /\ \A r \in rows : r.expires \in Nat /\ r.created \in Nat /\ r.ip \in IP
    <3>1. now' \in {now, now + 1}
      BY <1>2, <2>1, StepShape, LeaseRows DEF Next
    <3>2. QED
      BY <2>1, <3>1, IPLeaseAssumption DEF IInv, TypeOK, Row
  <2>3. \A ip \in IP : since'[ip] = IF ip \in Slots' \ Slots THEN now' ELSE since[ip]
    BY <1>2 DEF Next
  <2>4. \A ip \in IP : since'[ip] <= now'
    BY <2>2, <2>3 DEF AgeInv
  <2>5. \A r \in Live(rows, now) : r.ip \in Slots
    BY DEF Slots, IPsOf
  <2>6. \A r \in Live(rows', now') : r.created >= since'[r.ip]
    <3>1. CASE rows' \subseteq rows /\ now' \in {now, now + 1}
      <4>1. Live(rows', now') \subseteq Live(rows, now)
        BY <2>2, <3>1 DEF Live
      <4>2. QED
        BY <2>2, <2>3, <2>5, <4>1, KeptRows, <2>1 DEF AgeInv
    <3>2. ASSUME NEW ip \in IP, NEW h \in Holder, Lease(ip, h),
                 NEW r \in Live(rows', now')
          PROVE  r.created >= since'[r.ip]
      <4>1. PICK n \in Row :
              /\ rows' = (Kept \ {x \in Kept : x.ip = ip /\ x.holder = h}) \cup {n}
              /\ n.ip = ip
              /\ n.created = now \/ \E x \in Kept : x.ip = ip /\ x.created = n.created
        BY <2>1, <3>2, LeaseRows
      <4>2. now' = now
        BY <2>1, <3>2, LeaseRows
      <4>3. \A x \in Kept : x.created >= since'[x.ip]
        BY <2>1, <2>2, <2>3, <2>5, KeptRows DEF AgeInv
      <4>4. n.created >= since'[n.ip]
        BY <2>2, <2>4, <4>1, <4>2, <4>3
      <4>5. r \in Kept \/ r = n
        BY <4>1 DEF Live
      <4>6. QED
        BY <4>3, <4>4, <4>5
    <3>3. QED
      BY <1>2, <2>1, <3>1, <3>2, StepShape DEF Next
  <2>7. QED
    BY <2>1, <2>4, <2>6 DEF AgeInv
<1>3. QED
  BY <1>1, <1>2

\* No slot counts as older than it is (coordinator.go:345-353 with :386-396).
THEOREM AgeIsTenure == Spec => []AgeWithinTenure
<1>1. Init => AgeInv
  BY InitIInv, IPLeaseAssumption DEF Init, AgeInv, Live
<1>2. AgeInv => AgeWithinTenure
  <2> SUFFICES ASSUME AgeInv, NEW ip \in Slots
               PROVE  Age(Live(rows, now), ip) >= since[ip]
    BY DEF AgeWithinTenure
  <2> DEFINE C == {r.created : r \in {x \in Live(rows, now) : x.ip = ip}}
  <2>1. C \in SUBSET Nat /\ C # {}
    BY IPLeaseAssumption DEF AgeInv, IInv, TypeOK, Row, Live, Slots, IPsOf
  <2>2. Min(C) \in C
    BY <2>1, LeastNat
  <2>3. QED
    BY <2>2 DEF Age, AgeInv
<1>3. QED
  BY <1>1, <1>2, NextAgeInv, PTL DEF Spec
=============================================================================
