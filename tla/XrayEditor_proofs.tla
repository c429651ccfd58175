-------------------------- MODULE XrayEditor_proofs --------------------------
(* For every configuration, name and budget:                                  *)
(*   - what the page compares the draft with is what the server holds, except *)
(*     between the server's storing a configuration and the answer that says  *)
(*     so; so a draft without a difference is saved (SaveInv);                *)
(*   - every edit keeps the draft well shaped, and the plan in a dialog that  *)
(*     nothing overtook is the plan of the draft; so a deletion does what its *)
(*     confirmation announced (PageInv), at two levels: a loose one that      *)
(*     every step keeps, and one where the rule of each loopback leads to its *)
(*     balancer, which an edit starts from when no table's wrong row has      *)
(*     changed such a rule (PageAt);                                          *)
(*   - the draft has the observer its balancers need and no other (ConfigInv);*)
(*   - a rule keeps its outbound and a fallback its balancer, since fallbacks *)
(*     are loopbacks by their form, balancers have names of their own and a   *)
(*     dialog aims at what it may change (RefInv).                            *)
EXTENDS XrayEditor, FiniteSetTheorems, WellFoundedInduction, TLAPS

\* While the answer to a save is on its way the server holds what was sent;
\* otherwise it holds what the draft is compared with, unless a save has been
\* stored and answered as a failure since the page loaded or saved.
SaveInv ==
    /\ save = [phase |-> save.phase, config |-> save.config, doubt |-> save.doubt]
    /\ save.phase # "saved" /\ ~save.doubt => base = stored
    /\ save.phase = "saved" => stored = save.config

Kept == UNCHANGED << server, query >>

-----------------------------------------------------------------------------
(* No edit and no dialog touches the server's configuration, the query or     *)
(* the save.                                                                  *)

LEMMA OpenKeeps == ASSUME NEW d, Open(d) PROVE Kept
BY DEF Open, Kept

LEMMA ConfirmKeeps == ASSUME NEW c, Confirm(c) PROVE Kept
BY DEF Confirm, Mutate, Kept

LEMMA MutateKeeps == ASSUME NEW c, Mutate(c) PROVE Kept
BY DEF Mutate, Kept

LEMMA OutboundsKeep == EditOutbounds => Kept
<1>1. ASSUME NEW i, OpenOutbound(i) \/ OpenOutboundDeletion(i) PROVE Kept
  BY <1>1, OpenKeeps, Zenon DEF OpenOutbound, OpenOutboundDeletion
<1>2. ASSUME NEW tag, NEW to, ConfirmOutbound(tag, to) PROVE Kept
  BY <1>2, ConfirmKeeps, Zenon DEF ConfirmOutbound
<1>3. ConfirmOutboundDeletion => Kept
  BY ConfirmKeeps, Zenon DEF ConfirmOutboundDeletion
<1>4. ASSUME NEW i, MoveOutbound(i) PROVE Kept
  BY <1>4, MutateKeeps, Zenon DEF MoveOutbound
<1> QED BY <1>1, <1>2, <1>3, <1>4, Zenon DEF EditOutbounds, ConfirmOutbounds

LEMMA EditFormKeeps == ASSUME NEW form, EditForm(form) PROVE Kept
BY DEF EditForm, Kept

LEMMA OutboundFormKeeps == EditOutboundForm => Kept
<1>1. ASSUME NEW control, NEW v, UseControl(control, v) PROVE Kept
  BY <1>1, EditFormKeeps, Zenon DEF UseControl
<1>2. UseControls => Kept
  BY <1>1, Zenon DEF UseControls
<1>3. OpenJson \/ TypeJson \/ OpenBasic \/ RefuseText => Kept
  BY EditFormKeeps, Zenon DEF OpenJson, TypeJson, OpenBasic, RefuseText
<1>4. ASSUME NEW link, NEW endpoint, ImportLink(link, endpoint) PROVE Kept
  BY <1>4, EditFormKeeps, Zenon DEF ImportLink
<1>5. ImportLinks => Kept
  BY <1>4, Zenon DEF ImportLinks
<1> QED BY <1>2, <1>3, <1>5, Zenon DEF EditOutboundForm

LEMMA RulesKeep == EditRules => Kept
<1>1. ASSUME NEW i, NEW to, OpenRule(i, to) PROVE Kept
  BY <1>1, OpenKeeps, Zenon DEF OpenRule
<1>2. ASSUME NEW i, OpenRuleDeletion(i) PROVE Kept
  BY <1>2, OpenKeeps, Zenon DEF OpenRuleDeletion
<1>3. ConfirmRule \/ ConfirmRuleDeletion => Kept
  BY ConfirmKeeps, Zenon DEF ConfirmRule, ConfirmRuleDeletion
<1>4. ASSUME NEW i, MoveRule(i) PROVE Kept
  BY <1>4, MutateKeeps, Zenon DEF MoveRule
<1>5. ASSUME NEW tag, NEW criterion, NEW some, SetBasicRule(tag, criterion, some) PROVE Kept
  BY <1>5, MutateKeeps, Zenon DEF SetBasicRule
<1>6. ASSUME NEW tag, SetDefaultOutbound(tag) PROVE Kept
  BY <1>6, MutateKeeps, Zenon DEF SetDefaultOutbound
<1> QED BY <1>1, <1>2, <1>3, <1>4, <1>5, <1>6, Zenon DEF EditRules

LEMMA BalancersKeep == EditBalancers => Kept
<1>1. ASSUME NEW i, NEW form, OpenBalancer(i, form) PROVE Kept
  BY <1>1, OpenKeeps, Zenon DEF OpenBalancer
<1>2. ASSUME NEW i, OpenBalancerDeletion(i) PROVE Kept
  BY <1>2, OpenKeeps, Zenon DEF OpenBalancerDeletion
<1>3. ConfirmBalancer => Kept
  BY ConfirmKeeps, Zenon DEF ConfirmBalancer
<1>4. ConfirmBalancerDeletion => Kept
  BY ConfirmKeeps, Zenon DEF ConfirmBalancerDeletion
<1> QED BY <1>1, <1>2, <1>3, <1>4, Zenon DEF EditBalancers

LEMMA ProvidersKeep == EditProviders => Kept
<1>1. ASSUME NEW k, OpenProvider(k) PROVE Kept
  BY <1>1, OpenKeeps, Zenon DEF OpenProvider
<1>2. ASSUME NEW tag, PutProvider(tag) PROVE Kept
  BY <1>2, ConfirmKeeps, Zenon DEF PutProvider
<1>3. RemoveWarp \/ RemoveNord => Kept
  BY ConfirmKeeps, Zenon DEF RemoveWarp, RemoveNord
<1>4. LogOut => Kept
  BY DEF LogOut, Kept
<1> QED BY <1>1, <1>2, <1>3, <1>4, Zenon DEF EditProviders

LEMMA KeptInv == SaveInv /\ Kept => SaveInv'
BY DEF SaveInv, Kept, server, query

-----------------------------------------------------------------------------
(* The save, the query and the timer.                                         *)

LEMMA InitSave == Init => SaveInv
BY DEF Init, SaveInv, Idle

LEMMA StepSave == SaveInv /\ [Next]_vars => SaveInv'
<1> SUFFICES ASSUME SaveInv, [Next]_vars PROVE SaveInv'
  OBVIOUS
<1>1. CASE UNCHANGED vars
  BY <1>1 DEF vars, SaveInv
<1>2. CASE EditOutbounds \/ EditOutboundForm \/ EditRules \/ EditBalancers \/ EditProviders
  BY <1>2, OutboundsKeep, OutboundFormKeeps, RulesKeep, BalancersKeep, ProvidersKeep, KeptInv, Zenon
<1>3. CASE TypeText \/ ResetToDefault \/ Cancel
  <2>1. Kept
    BY <1>3, MutateKeeps, Zenon DEF TypeText, ResetToDefault, Cancel, Kept
  <2> QED BY <2>1, KeptInv
<1>4. CASE Poll \/ RefreshXrayData
  BY <1>4, Zenon DEF Poll, RefreshXrayData, server, SaveInv
<1>a. /\ save = [phase |-> save.phase, config |-> save.config, doubt |-> save.doubt]
      /\ save.phase # "saved" /\ ~save.doubt => base = stored
      /\ save.phase = "saved" => stored = save.config
  BY DEF SaveInv
<1>5. CASE FetchReturns
  <2>1. save' = [save EXCEPT !.doubt = @ /\ cache' = cache] /\ UNCHANGED stored
    BY <1>5, Zenon DEF FetchReturns, server
  <2>2. save' = [phase |-> save.phase, config |-> save.config, doubt |-> save.doubt /\ cache' = cache]
    BY <1>a, <2>1
  <2>3. IF cache' = cache THEN UNCHANGED base ELSE base' = stored
    BY <1>5 DEF FetchReturns
  <2> QED BY <1>a, <2>1, <2>2, <2>3 DEF SaveInv
<1>6. CASE OnSaveAll
  <2>1. PICK c : save' = [save EXCEPT !.phase = "sent", !.config = c]
    BY <1>6 DEF OnSaveAll
  <2>2. UNCHANGED << stored, base >> /\ save.phase = "idle"
    BY <1>6 DEF OnSaveAll, server
  <2>3. save' = [phase |-> "sent", config |-> c, doubt |-> save.doubt]
    BY <1>a, <2>1
  <2> QED BY <1>a, <2>2, <2>3 DEF SaveInv
<1>7. CASE ServerSaves
  <2>1. UNCHANGED base
    BY <1>7 DEF ServerSaves
  <2>2. CASE stored' = save.config /\ save' = [save EXCEPT !.phase = "saved"]
    BY <1>a, <2>2 DEF SaveInv
  <2>3. CASE stored' = save.config /\ save' = [save EXCEPT !.phase = "refused", !.doubt = TRUE]
    BY <1>a, <2>3 DEF SaveInv
  <2>4. CASE UNCHANGED stored /\ save' = [save EXCEPT !.phase = "refused"]
    <3>1. save.phase = "sent"
      BY <1>7 DEF ServerSaves
    <3>2. save' = [phase |-> "refused", config |-> save.config, doubt |-> save.doubt]
      BY <1>a, <2>4
    <3> QED BY <1>a, <2>1, <2>4, <3>1, <3>2 DEF SaveInv
  <2> QED BY <1>7, <2>2, <2>3, <2>4 DEF ServerSaves
<1>8. CASE SaveReturns
  <2>1. /\ save.phase \in {"saved", "refused"} /\ UNCHANGED stored
        /\ save' = [phase |-> "idle", config |-> Default, doubt |-> save.doubt /\ save.phase = "refused"]
        /\ IF save.phase = "saved" THEN base' = save.config ELSE UNCHANGED base
    BY <1>8 DEF SaveReturns, SavedText, server, Idle
  <2> QED BY <1>a, <2>1 DEF SaveInv
<1> QED BY <1>1, <1>2, <1>3, <1>4, <1>5, <1>6, <1>7, <1>8, Zenon DEF Next, SaveAndSync

LEMMA SaveInvAlways == Spec => []SaveInv
BY InitSave, StepSave, PTL DEF Spec

\* A draft without a difference is what the server holds, whatever was edited,
\* fetched or refused while a save was under way.
THEOREM SavedMeansStored == Spec => []SavedOnlyWhenStored
<1>1. SaveInv => SavedOnlyWhenStored
  BY DEF SaveInv, SavedOnlyWhenStored
<1> QED BY <1>1, SaveInvAlways, PTL

-----------------------------------------------------------------------------
(* Selections.                                                             *)

Rank(I, i) == Cardinality({ j \in I : j <= i })

\* The rank of a position in a set of positions lies between none and all.
LEMMA Counted ==
  ASSUME NEW m \in Nat, NEW I \in SUBSET (1..m)
  PROVE  /\ IsFiniteSet(I) /\ Cardinality(I) \in 0..m
         /\ \A i : IsFiniteSet({ j \in I : j <= i }) /\ Rank(I, i) \in 0..Cardinality(I)
<1>1. IsFiniteSet(1..m) /\ Cardinality(1..m) = m
  BY FS_Interval, SMT
<1>2. IsFiniteSet(I) /\ Cardinality(I) <= m
  BY <1>1, FS_Subset, Zenon
<1>3. Cardinality(I) \in Nat
  BY <1>2, FS_CardinalityType, Zenon
<1>4. ASSUME NEW i
      PROVE  IsFiniteSet({ j \in I : j <= i }) /\ Rank(I, i) \in 0..Cardinality(I)
  <2> DEFINE J == { j \in I : j <= i }
  <2>1. J \in SUBSET I
    OBVIOUS
  <2>2. IsFiniteSet(J) /\ Cardinality(J) <= Cardinality(I)
    BY <1>2, <2>1, FS_Subset, Zenon
  <2>3. Cardinality(J) \in Nat
    BY <2>2, FS_CardinalityType, Zenon
  <2> QED BY <1>3, <2>2, <2>3, SMT DEF Rank
<1> QED BY <1>2, <1>3, <1>4, SMT

\* A later position has a larger number.
LEMMA Later ==
  ASSUME NEW m \in Nat, NEW I \in SUBSET (1..m), NEW i \in I, NEW k \in I, i < k
  PROVE  Rank(I, i) < Rank(I, k)
<1> DEFINE A == { j \in I : j <= i }
           B == { j \in I : j <= k }
<1>0. i \in Nat /\ k \in Nat /\ I \subseteq Nat
  OBVIOUS
<1>1. k \notin A /\ A \cup {k} \in SUBSET B
  <2>1. k \notin A
    BY <1>0, SMT
  <2>2. \A j \in I : j <= i => j <= k
    BY <1>0, SMT
  <2>3. k <= k
    BY <1>0, SMT
  <2> QED BY <2>1, <2>2, <2>3, Zenon
<1>2. IsFiniteSet(A) /\ IsFiniteSet(B)
  BY Counted, Zenon
<1>3. Cardinality(A \cup {k}) = Cardinality(A) + 1
  BY <1>1, <1>2, FS_AddElement, Zenon
<1>4. Cardinality(A \cup {k}) <= Cardinality(B)
  BY <1>1, <1>2, FS_Subset, Zenon
<1>5. Cardinality(A) \in Nat /\ Cardinality(B) \in Nat
  BY <1>2, FS_CardinalityType, Zenon
<1> QED BY <1>3, <1>4, <1>5, SMT DEF Rank

\* Positions and ranks are inverse to each other.
LEMMA NthIs ==
  ASSUME NEW m \in Nat, NEW I \in SUBSET (1..m)
  PROVE  /\ \A n \in 1..Cardinality(I) : Nth(I, n) \in I /\ Rank(I, Nth(I, n)) = n
         /\ \A i \in I : Rank(I, i) \in 1..Cardinality(I) /\ Nth(I, Rank(I, i)) = i
<1>0. /\ Cardinality(I) \in Nat /\ I \subseteq Nat
      /\ \A i \in I : Rank(I, i) \in Nat /\ Rank(I, i) <= Cardinality(I)
  <2>1. Cardinality(I) \in 0..m /\ \A i \in I : Rank(I, i) \in 0..Cardinality(I)
    BY Counted, Zenon
  <2> HIDE DEF Rank
  <2> QED BY <2>1, SMT
<1>1. \A i, k \in I : Rank(I, i) = Rank(I, k) => i = k
  <2> SUFFICES ASSUME NEW i \in I, NEW k \in I, Rank(I, i) = Rank(I, k), i # k
               PROVE  FALSE
    OBVIOUS
  <2>1. Rank(I, i) \in Nat /\ Rank(I, k) \in Nat
    BY <1>0
  <2>2. ~(i < k)
    <3>1. i < k => Rank(I, i) < Rank(I, k)
      BY Later, Zenon
    <3> QED BY <2>1, <3>1, SMT
  <2>3. ~(k < i)
    <3>1. k < i => Rank(I, k) < Rank(I, i)
      BY Later, Zenon
    <3> QED BY <2>1, <3>1, SMT
  <2>4. i \in Nat /\ k \in Nat
    BY <1>0
  <2> QED BY <2>2, <2>3, <2>4, SMT
<1>2. ASSUME NEW i \in I
      PROVE  Rank(I, i) \in 1..Cardinality(I)
  <2> DEFINE A == { j \in I : j <= i }
  <2>1. i \in A /\ IsFiniteSet(A)
    <3>1. IsFiniteSet(A)
      BY Counted, Zenon
    <3>2. i \in A
      BY <1>0, SMT
    <3> QED BY <3>1, <3>2
  <2>2. Cardinality(A) # 0
    BY <2>1, FS_EmptySet, Zenon
  <2>3. Cardinality(A) \in Nat /\ Cardinality(A) <= Cardinality(I)
    BY <1>0, Zenon DEF Rank
  <2> HIDE DEF A
  <2> QED BY <1>0, <2>2, <2>3, SMT DEF Rank, A
<1> DEFINE T == 1..Cardinality(I)
           f == [i \in I |-> Rank(I, i)]
<1>3. f \in Injection(I, T)
  BY <1>1, <1>2, SMT DEF Injection, IsInjective
<1>4. IsFiniteSet(T) /\ Cardinality(T) = Cardinality(I)
  <2>1. 1 \in Int /\ Cardinality(I) \in Int /\ Cardinality(I) >= 0
    BY <1>0, SMT
  <2>2. IsFiniteSet(T) /\ Cardinality(T) = IF 1 > Cardinality(I) THEN 0 ELSE Cardinality(I) - 1 + 1
    BY <2>1, FS_Interval, Zenon
  <2> QED BY <2>1, <2>2, SMT
<1>5. f \in Surjection(I, T)
  BY <1>3, <1>4, FS_Injection, Zenon
<1>6. \A n \in T : \E i \in I : Rank(I, i) = n
  BY <1>5, Zenon DEF Surjection
<1>7. \A n \in T : Nth(I, n) \in I /\ Rank(I, Nth(I, n)) = n
  BY <1>6, Zenon DEF Nth, Rank
<1>8. \A i \in I : Nth(I, Rank(I, i)) = i
  BY <1>1, <1>2, <1>7, Zenon
<1> QED BY <1>2, <1>7, <1>8, Zenon

\* What is selected is a sequence of what was there, each position once and in
\* the same order.
LEMMA Selected ==
  ASSUME NEW X, NEW s \in Seq(X), NEW I \in SUBSET DOMAIN s
  PROVE  /\ Select(s, I) \in Seq(X) /\ Len(Select(s, I)) = Cardinality(I)
         /\ Cardinality(I) \in 0..Len(s)
         /\ DOMAIN Select(s, I) = 1..Cardinality(I)
         /\ \A n \in 1..Cardinality(I) : Nth(I, n) \in I /\ Select(s, I)[n] = s[Nth(I, n)]
         /\ \A i \in I : Rank(I, i) \in 1..Cardinality(I) /\ Select(s, I)[Rank(I, i)] = s[i]
<1>1. Len(s) \in Nat /\ DOMAIN s = 1..Len(s) /\ \A i \in 1..Len(s) : s[i] \in X
  OBVIOUS
<1>2. /\ \A n \in 1..Cardinality(I) : Nth(I, n) \in I
      /\ \A i \in I : Rank(I, i) \in 1..Cardinality(I) /\ Nth(I, Rank(I, i)) = i
  BY <1>1, NthIs, Zenon
<1>3. Cardinality(I) \in 0..Len(s)
  BY <1>1, Counted, Zenon
<1>4. Cardinality(I) \in Nat
  BY <1>1, <1>3, SMT
<1>5. \A n \in 1..Cardinality(I) : Nth(I, n) \in I /\ Select(s, I)[n] = s[Nth(I, n)]
  BY <1>2, SMT DEF Select
<1>6. Select(s, I) \in [1..Cardinality(I) -> X]
  BY <1>1, <1>2, SMT DEF Select
<1>7. Select(s, I) \in Seq(X) /\ Len(Select(s, I)) = Cardinality(I) /\ DOMAIN Select(s, I) = 1..Cardinality(I)
  BY <1>4, <1>6, SMT
<1> QED BY <1>2, <1>3, <1>5, <1>7, Zenon

\* Some of the positions have as many numbers.
LEMMA Numbered ==
  ASSUME NEW m \in Nat, NEW I \in SUBSET (1..m), NEW K \in SUBSET I
  PROVE  Cardinality({ Rank(I, k) : k \in K }) = Cardinality(K)
<1> DEFINE T == { Rank(I, k) : k \in K }
           f == [k \in K |-> Rank(I, k)]
<1>1. \A i, k \in I : Rank(I, i) = Rank(I, k) => i = k
  <2>1. \A i \in I : Nth(I, Rank(I, i)) = i
    BY NthIs, Zenon
  <2> QED BY <2>1, Zenon
<1>2. f \in Bijection(K, T)
  <2>1. f \in [K -> T]
    OBVIOUS
  <2>2. \A i, k \in K : f[i] = f[k] => i = k
    BY <1>1
  <2>3. \A t \in T : \E k \in K : f[k] = t
    OBVIOUS
  <2> QED BY <2>1, <2>2, <2>3, Zenon DEF Bijection, Injection, Surjection, IsInjective
<1>3. IsFiniteSet(K)
  BY Counted, FS_Subset, Zenon
<1> QED BY <1>2, <1>3, FS_Bijection, Zenon DEF ExistsBijection

\* A selection of a selection.
Within(I, J) == { i \in I : Rank(I, i) \in J }

\* A selection from a selection is a selection.
LEMMA Twice ==
  ASSUME NEW m \in Nat, NEW I \in SUBSET (1..m), NEW J \in SUBSET (1..Cardinality(I))
  PROVE  /\ Cardinality(J) = Cardinality(Within(I, J))
         /\ \A i \in Within(I, J) : Rank(J, Rank(I, i)) = Rank(Within(I, J), i)
<1> DEFINE K == Within(I, J)
<1>0. \A i : i \in K <=> i \in I /\ Rank(I, i) \in J
  BY DEF Within
<1>a. K \subseteq I
  BY <1>0
<1> HIDE DEF K
<1>1. /\ \A n \in 1..Cardinality(I) : Nth(I, n) \in I /\ Rank(I, Nth(I, n)) = n
      /\ \A i \in I : Rank(I, i) \in 1..Cardinality(I) /\ Nth(I, Rank(I, i)) = i
  BY NthIs, Zenon
<1>2. J = { Rank(I, k) : k \in K }
  <2>1. ASSUME NEW j \in J PROVE \E k \in K : j = Rank(I, k)
    <3>1. j \in 1..Cardinality(I)
      OBVIOUS
    <3> QED BY <1>0, <1>1, <3>1, Zenon
  <2>2. ASSUME NEW k \in K PROVE Rank(I, k) \in J
    BY <1>0, Zenon
  <2> QED BY <2>1, <2>2, Zenon
<1>3. Cardinality(J) = Cardinality(K)
  <2>1. K \in SUBSET I
    BY <1>a
  <2> QED BY <1>2, <2>1, Numbered, Zenon
<1>4. ASSUME NEW i \in K
      PROVE  Rank(J, Rank(I, i)) = Rank(K, i)
  <2> DEFINE B == { k \in K : k <= i }
             C == { j \in J : j <= Rank(I, i) }
  <2>1. \A k \in I : k <= i <=> Rank(I, k) <= Rank(I, i)
    <3> SUFFICES ASSUME NEW k \in I PROVE k <= i <=> Rank(I, k) <= Rank(I, i)
      OBVIOUS
    <3>1. /\ i < k => Rank(I, i) < Rank(I, k)
          /\ k < i => Rank(I, k) < Rank(I, i)
      BY <1>a, Later, Zenon
    <3>2. i \in Nat /\ k \in Nat /\ Rank(I, i) \in 1..Cardinality(I) /\ Rank(I, k) \in 1..Cardinality(I)
      BY <1>1, <1>a
    <3>3. Rank(I, i) \in Int /\ Rank(I, k) \in Int
      BY <3>2, SMT
    <3> HIDE DEF Rank
    <3> QED BY <3>1, <3>2, <3>3, SMT
  <2>2. C = { Rank(I, k) : k \in B }
    <3>1. ASSUME NEW j \in C PROVE \E k \in B : j = Rank(I, k)
      <4>1. PICK k \in K : j = Rank(I, k)
        BY <1>2, Zenon
      <4>2. k <= i
        BY <1>a, <2>1, <4>1, Zenon
      <4> QED BY <4>1, <4>2, Zenon
    <3>2. ASSUME NEW k \in B PROVE Rank(I, k) \in C
      BY <1>0, <1>a, <2>1, <3>2, Zenon
    <3> QED BY <3>1, <3>2, Zenon
  <2>3. Cardinality(C) = Cardinality(B)
    <3>1. B \in SUBSET I
      BY <1>a, Zenon
    <3> QED BY <2>2, <3>1, Numbered, Zenon
  <2> QED BY <2>3, Zenon DEF Rank
<1> QED BY <1>3, <1>4 DEF K

IsConfig(c) == c = [outbounds |-> c.outbounds, rules |-> c.rules,
                    balancers |-> c.balancers, observer |-> c.observer]

-----------------------------------------------------------------------------
(* Lists.                                                                  *)

\* The least of a set of numbers.
LEMMA MinIsLeast ==
  ASSUME NEW S \in SUBSET Nat, S # {}
  PROVE  Min(S) \in S /\ \A m \in S : Min(S) <= m
<1> DEFINE less == { p \in Nat \X Nat : p[1] < p[2] }
<1>1. IsWellFoundedOn(less, Nat)
  BY NatLessThanWellFounded, Zenon DEF OpToRel
<1>2. PICK n \in S : \A m \in S : ~(<< m, n >> \in less)
  BY <1>1, WFMin, Zenon
<1>3. ASSUME NEW m \in S
      PROVE  n <= m
  <2>1. << m, n >> \in Nat \X Nat /\ << m, n >>[1] = m /\ << m, n >>[2] = n
    OBVIOUS
  <2>2. ~(m < n)
    BY <1>2, <2>1, Zenon
  <2> QED BY <2>2, SMT
<1> QED BY <1>2, <1>3, Zenon DEF Min

\* A list is a function of its positions.
LEMMA ListOf ==
  ASSUME NEW Y, NEW n \in Nat, NEW f \in [1..n -> Y]
  PROVE  f \in Seq(Y) /\ Len(f) = n /\ DOMAIN f = 1..n
OBVIOUS

\* An assignment at a position that is not one changes nothing.
LEMMA ListPut ==
  ASSUME NEW Y, NEW s \in Seq(Y), NEW i, NEW y \in Y
  PROVE  [s EXCEPT ![i] = y] \in Seq(Y)
<1>1. Len(s) \in Nat /\ s \in [1..Len(s) -> Y]
  OBVIOUS
<1>2. [s EXCEPT ![i] = y] \in [1..Len(s) -> Y]
  BY <1>1, Zenon
<1> QED BY <1>1, <1>2, ListOf, Zenon

\* Where the edits leave the elements of a list.
LEMMA ListEdits ==
  ASSUME NEW X, NEW s \in Seq(X), NEW x, NEW Y, Y = X \cup {x}
  PROVE  /\ s \in Seq(Y)
         /\ Append(s, x) \in Seq(Y) /\ << x >> \o s \in Seq(Y)
         /\ \A i : Put(s, i, x) \in Seq(Y)
         /\ \A i : [s EXCEPT ![i] = x] \in Seq(Y)
         /\ \A i \in DOMAIN s : RemoveAt(s, i) \in Seq(X) /\ ToFront(s, i) \in Seq(X)
         /\ \A i : Cut(s, i) \in Seq(X)
         /\ \A i \in DOMAIN s : i < Len(s) => Swap(s, i) \in Seq(X)
<1>1. Len(s) \in Nat /\ DOMAIN s = 1..Len(s) /\ \A i \in 1..Len(s) : s[i] \in X
  OBVIOUS
<1>2. s \in Seq(Y) /\ x \in Y /\ << x >> \in Seq(Y)
  <2>1. x \in Y /\ X \subseteq Y
    OBVIOUS
  <2>2. << x >> \in Seq(Y)
    BY <2>1
  <2>3. s \in [1..Len(s) -> Y]
    BY <2>1
  <2>4. s \in Seq(Y)
    BY <1>1, <2>3, SMT
  <2> QED BY <2>1, <2>2, <2>4
<1>3. Append(s, x) \in Seq(Y) /\ << x >> \o s \in Seq(Y)
  BY <1>2
<1>4. \A i : [s EXCEPT ![i] = x] \in Seq(Y)
  BY <1>2, ListPut, Zenon
<1>5. \A i : Put(s, i, x) \in Seq(Y)
  BY <1>3, <1>4, Zenon DEF Put
<1>6. ASSUME NEW i \in DOMAIN s
      PROVE  RemoveAt(s, i) \in Seq(X) /\ ToFront(s, i) \in Seq(X)
  <2>1. SubSeq(s, 1, i - 1) \in Seq(X) /\ SubSeq(s, i + 1, Len(s)) \in Seq(X)
    BY <1>1
  <2>2. RemoveAt(s, i) \in Seq(X)
    BY <2>1 DEF RemoveAt
  <2>3. << s[i] >> \in Seq(X)
    BY <1>1
  <2> QED BY <2>2, <2>3 DEF ToFront
<1>7. \A i : Cut(s, i) \in Seq(X)
  BY <1>6, Zenon DEF Cut
<1>8. ASSUME NEW i \in DOMAIN s, i < Len(s)
      PROVE  Swap(s, i) \in Seq(X)
  <2>1. s[i] \in X /\ s[i + 1] \in X
    BY <1>1, <1>8
  <2> DEFINE a == s[i]
             b == s[i + 1]
             t == [s EXCEPT ![i] = b]
  <2>2. Swap(s, i) = [t EXCEPT ![i + 1] = a]
    BY DEF Swap
  <2> HIDE DEF a, b
  <2>3. a \in X /\ b \in X
    BY <2>1 DEF a, b
  <2>4. t \in Seq(X)
    BY <2>3, ListPut, Zenon
  <2> HIDE DEF t
  <2>5. [t EXCEPT ![i + 1] = a] \in Seq(X)
    BY <2>3, <2>4, ListPut, Zenon
  <2> QED BY <2>2, <2>5
<1> QED BY <1>2, <1>3, <1>4, <1>5, <1>6, <1>7, <1>8, Zenon

-----------------------------------------------------------------------------
(* The shape of a configuration: what every outbound, rule and balancer has,  *)
(* and which edits of the lists keep it.                                      *)

\* What a rule is, at two levels: that it has its fields, which every edit keeps;
\* and that a loopback's rule leads to its balancer and nowhere else, which the
\* edits keep but for those of a row past a hidden one.
Loose == 0
Led   == 1

LeadsOnly(r) == IsLoopback(r.inbound) => r.outbound = NoTag /\ r.inbound = Lb(r.balancer)

RuleFits(lev, r) ==
    /\ r = [inbound |-> r.inbound, criterion |-> r.criterion, outbound |-> r.outbound,
            balancer |-> r.balancer]
    /\ lev = Led => LeadsOnly(r)

Named(b)        == b.tag # ""
BalancerFits(b) ==
    /\ b = [tag |-> b.tag, strategy |-> b.strategy, selector |-> b.selector, fallback |-> b.fallback]
    /\ Named(b)

StreamFits(s) ==
    /\ s = [network |-> s.network, own |-> s.own, security |-> s.security, secure |-> s.secure,
            mask |-> s.mask]
    /\ "mode" \in DOMAIN s.own

OutboundFits(o) ==
    /\ o = [tag |-> o.tag, protocol |-> o.protocol, dialer |-> o.dialer, server |-> o.server, flow |-> o.flow,
            encryption |-> o.encryption, stream |-> o.stream, mux |-> o.mux]
    /\ StreamFits(o.stream)

OutboundList(s)  == \E X : s \in Seq(X) /\ \A x \in X : OutboundFits(x)
RuleList(lev, s) == \E X : s \in Seq(X) /\ \A x \in X : RuleFits(lev, x)
BalancerList(s)  == \E X : s \in Seq(X) /\ \A x \in X : BalancerFits(x)

Shaped(lev, c) == IsConfig(c) /\ OutboundList(c.outbounds) /\ RuleList(lev, c.rules) /\ BalancerList(c.balancers)

\* Lists and their elements.
LEMMA ElementsFit ==
  ASSUME NEW lev, NEW s
  PROVE  /\ OutboundList(s) => \A i \in DOMAIN s : OutboundFits(s[i])
         /\ RuleList(lev, s) => \A i \in DOMAIN s : RuleFits(lev, s[i])
         /\ BalancerList(s) => \A i \in DOMAIN s : BalancerFits(s[i])
<1>1. ASSUME NEW X, s \in Seq(X), NEW i \in DOMAIN s PROVE s[i] \in X
  BY <1>1
<1> QED BY <1>1, Zenon DEF OutboundList, RuleList, BalancerList

\* The elements at some positions fit when all do.
LEMMA SelectedFit ==
  ASSUME NEW lev, NEW s, NEW I \in SUBSET DOMAIN s
  PROVE  /\ OutboundList(s) => OutboundList(Select(s, I))
         /\ RuleList(lev, s) => RuleList(lev, Select(s, I))
<1>1. ASSUME NEW X, s \in Seq(X) PROVE Select(s, I) \in Seq(X)
  BY <1>1, Selected, Zenon
<1> QED BY <1>1, Zenon DEF OutboundList, RuleList

\* The edits of a list keep its elements fitting.
LEMMA OutboundEdits ==
  ASSUME NEW s, OutboundList(s), NEW o, OutboundFits(o)
  PROVE  /\ OutboundList(Append(s, o)) /\ OutboundList(<< o >> \o s)
         /\ \A i : OutboundList(Put(s, i, o)) /\ OutboundList([s EXCEPT ![i] = o])
         /\ \A i \in DOMAIN s : OutboundList(RemoveAt(s, i)) /\ OutboundList(ToFront(s, i))
         /\ \A i : OutboundList(Cut(s, i))
         /\ \A i \in DOMAIN s : i < Len(s) => OutboundList(Swap(s, i))
<1>1. PICK X : s \in Seq(X) /\ \A x \in X : OutboundFits(x)
  BY Zenon DEF OutboundList
<1> DEFINE Y == X \cup {o}
<1>2. \A y \in Y : OutboundFits(y)
  BY <1>1, Zenon
<1> HIDE DEF Y
<1>3. Y = X \cup {o}
  BY DEF Y
<1> QED BY <1>1, <1>2, <1>3, ListEdits, Zenon DEF OutboundList

LEMMA RuleEdits ==
  ASSUME NEW lev, NEW s, RuleList(lev, s), NEW r, RuleFits(lev, r)
  PROVE  /\ RuleList(lev, Append(s, r))
         /\ \A i : RuleList(lev, Put(s, i, r)) /\ RuleList(lev, [s EXCEPT ![i] = r])
         /\ \A i : RuleList(lev, Cut(s, i))
         /\ \A i \in DOMAIN s : i < Len(s) => RuleList(lev, Swap(s, i))
<1>1. PICK X : s \in Seq(X) /\ \A x \in X : RuleFits(lev, x)
  BY Zenon DEF RuleList
<1> DEFINE Y == X \cup {r}
<1>2. \A y \in Y : RuleFits(lev, y)
  BY <1>1, Zenon
<1> HIDE DEF Y
<1>3. Y = X \cup {r}
  BY DEF Y
<1> QED BY <1>1, <1>2, <1>3, ListEdits, Zenon DEF RuleList

LEMMA BalancerEdits ==
  ASSUME NEW s, BalancerList(s), NEW b, BalancerFits(b)
  PROVE  \A i : BalancerList(Put(s, i, b))
<1>1. PICK X : s \in Seq(X) /\ \A x \in X : BalancerFits(x)
  BY Zenon DEF BalancerList
<1> DEFINE Y == X \cup {b}
<1>2. \A y \in Y : BalancerFits(y)
  BY <1>1, Zenon
<1> HIDE DEF Y
<1>3. Y = X \cup {b}
  BY DEF Y
<1> QED BY <1>1, <1>2, <1>3, ListEdits, Zenon DEF BalancerList

\* Stored configurations.
LEMMA RecordsFit ==
  /\ \A o \in OutboundRecords : OutboundFits(o)
  /\ \A b \in BalancerRecords : Named(b) => BalancerFits(b)
  /\ \A lev : \A c \in Configs : LoopbacksLead(c) /\ "" \notin TagsOf(c.balancers) => Shaped(lev, c)
<1>1. ASSUME NEW o \in OutboundRecords PROVE OutboundFits(o)
  BY DEF OutboundRecords, Streams, Fields, OutboundFits, StreamFits
<1>2. ASSUME NEW b \in BalancerRecords, Named(b) PROVE BalancerFits(b)
  BY <1>2 DEF BalancerRecords, BalancerFits
<1>3. ASSUME NEW lev, NEW c \in Configs, LoopbacksLead(c), "" \notin TagsOf(c.balancers)
      PROVE  Shaped(lev, c)
  <2>1. IsConfig(c)
    BY DEF IsConfig, Configs
  <2>2. c.outbounds \in Seq(OutboundRecords) /\ c.rules \in Seq(RuleRecords) /\ c.balancers \in Seq(BalancerRecords)
    BY DEF Configs
  <2>3. OutboundList(c.outbounds) /\ BalancerList(c.balancers)
    <3> DEFINE X == Range(c.balancers)
    <3>1. c.balancers \in Seq(X) /\ X \subseteq BalancerRecords
      BY <2>2 DEF Range
    <3>2. ASSUME NEW b \in X PROVE Named(b)
      BY <1>3, Zenon DEF Named, TagsOf, Range
    <3>3. \A b \in X : BalancerFits(b)
      BY <1>2, <3>1, <3>2, Zenon
    <3>4. BalancerList(c.balancers)
      BY <3>1, <3>3, Zenon DEF BalancerList
    <3> QED BY <1>1, <2>2, <3>4, Zenon DEF OutboundList
  <2>4. RuleList(lev, c.rules)
    <3> DEFINE X == Range(c.rules)
    <3>1. c.rules \in Seq(X) /\ X \subseteq RuleRecords
      BY <2>2 DEF Range
    <3>2. ASSUME NEW r \in X PROVE RuleFits(lev, r)
      <4>1. r \in RuleRecords
        BY <3>1
      <4>2. r = [inbound |-> r.inbound, criterion |-> r.criterion, outbound |-> r.outbound,
                 balancer |-> r.balancer]
        BY <4>1 DEF RuleRecords
      <4>3. LeadsOnly(r)
        BY <1>3, <3>2, Zenon DEF LoopbacksLead, LeadsOnly
      <4> QED BY <4>2, <4>3, Zenon DEF RuleFits
    <3> QED BY <3>1, <3>2, Zenon DEF RuleList
  <2> QED BY <2>1, <2>3, <2>4, Zenon DEF Shaped
<1> QED BY <1>1, <1>2, <1>3

\* A configuration whose parts are edited.
LEMMA Parts ==
  ASSUME NEW c, IsConfig(c), NEW os, NEW rs, NEW bs
  PROVE  /\ [c EXCEPT !.outbounds = os]
               = [outbounds |-> os, rules |-> c.rules, balancers |-> c.balancers, observer |-> c.observer]
         /\ [c EXCEPT !.rules = rs]
               = [outbounds |-> c.outbounds, rules |-> rs, balancers |-> c.balancers, observer |-> c.observer]
         /\ [c EXCEPT !.balancers = bs]
               = [outbounds |-> c.outbounds, rules |-> c.rules, balancers |-> bs, observer |-> c.observer]
         /\ [c EXCEPT !.outbounds = os, !.rules = rs]
               = [outbounds |-> os, rules |-> rs, balancers |-> c.balancers, observer |-> c.observer]
<1> DEFINE w == c.outbounds
           x == c.rules
           y == c.balancers
           z == c.observer
<1>1. c = [outbounds |-> w, rules |-> x, balancers |-> y, observer |-> z]
  BY DEF IsConfig
<1> HIDE DEF w, x, y, z
<1>2. [c EXCEPT !.outbounds = os] = [outbounds |-> os, rules |-> x, balancers |-> y, observer |-> z]
  BY <1>1
<1>3. [c EXCEPT !.rules = rs] = [outbounds |-> w, rules |-> rs, balancers |-> y, observer |-> z]
  BY <1>1
<1>4. [c EXCEPT !.balancers = bs] = [outbounds |-> w, rules |-> x, balancers |-> bs, observer |-> z]
  BY <1>1
<1>5. [c EXCEPT !.outbounds = os, !.rules = rs] = [outbounds |-> os, rules |-> rs, balancers |-> y, observer |-> z]
  <2> DEFINE d == [c EXCEPT !.outbounds = os]
  <2>1. d = [outbounds |-> os, rules |-> x, balancers |-> y, observer |-> z]
    BY <1>2
  <2> HIDE DEF d
  <2>2. [d EXCEPT !.rules = rs] = [outbounds |-> os, rules |-> rs, balancers |-> y, observer |-> z]
    BY <2>1
  <2> QED BY <2>2 DEF d
<1> QED BY <1>2, <1>3, <1>4, <1>5 DEF w, x, y, z

\* A configuration is well shaped when its parts are.
LEMMA PartsShaped ==
  ASSUME NEW lev, NEW os, OutboundList(os), NEW rs, RuleList(lev, rs), NEW bs, BalancerList(bs), NEW observer
  PROVE  Shaped(lev, [outbounds |-> os, rules |-> rs, balancers |-> bs, observer |-> observer])
<1> DEFINE d == [outbounds |-> os, rules |-> rs, balancers |-> bs, observer |-> observer]
<1>1. IsConfig(d) /\ d.outbounds = os /\ d.rules = rs /\ d.balancers = bs
  BY DEF IsConfig
<1> HIDE DEF d
<1>2. Shaped(lev, d)
  BY <1>1, Zenon DEF Shaped
<1> QED BY <1>2 DEF d

LEMMA EditsShaped ==
  ASSUME NEW lev, NEW c, Shaped(lev, c), NEW os, NEW rs, NEW bs
  PROVE  /\ OutboundList(os) => Shaped(lev, [c EXCEPT !.outbounds = os])
         /\ RuleList(lev, rs) => Shaped(lev, [c EXCEPT !.rules = rs])
         /\ BalancerList(bs) => Shaped(lev, [c EXCEPT !.balancers = bs])
         /\ OutboundList(os) /\ RuleList(lev, rs) => Shaped(lev, [c EXCEPT !.outbounds = os, !.rules = rs])
         /\ OutboundList(os) /\ RuleList(lev, rs) /\ BalancerList(bs) =>
               Shaped(lev, [c EXCEPT !.rules = rs, !.balancers = bs, !.outbounds = os])
<1>1. IsConfig(c) /\ OutboundList(c.outbounds) /\ RuleList(lev, c.rules) /\ BalancerList(c.balancers)
  BY Zenon DEF Shaped
<1> DEFINE x == c.outbounds
           y == c.rules
           z == c.balancers
           v == c.observer
<1>2. OutboundList(os) => Shaped(lev, [c EXCEPT !.outbounds = os])
  <2>1. [c EXCEPT !.outbounds = os] = [outbounds |-> os, rules |-> y, balancers |-> z, observer |-> v]
    BY <1>1, Parts, Zenon
  <2> QED BY <1>1, <2>1, PartsShaped
<1>3. RuleList(lev, rs) => Shaped(lev, [c EXCEPT !.rules = rs])
  <2>1. [c EXCEPT !.rules = rs] = [outbounds |-> x, rules |-> rs, balancers |-> z, observer |-> v]
    BY <1>1, Parts, Zenon
  <2> QED BY <1>1, <2>1, PartsShaped
<1>4. BalancerList(bs) => Shaped(lev, [c EXCEPT !.balancers = bs])
  <2>1. [c EXCEPT !.balancers = bs] = [outbounds |-> x, rules |-> y, balancers |-> bs, observer |-> v]
    BY <1>1, Parts, Zenon
  <2> QED BY <1>1, <2>1, PartsShaped
<1>5. OutboundList(os) /\ RuleList(lev, rs) => Shaped(lev, [c EXCEPT !.outbounds = os, !.rules = rs])
  <2>1. [c EXCEPT !.outbounds = os, !.rules = rs] = [outbounds |-> os, rules |-> rs, balancers |-> z, observer |-> v]
    BY <1>1, Parts, Zenon
  <2> QED BY <1>1, <2>1, PartsShaped
<1>6. OutboundList(os) /\ RuleList(lev, rs) /\ BalancerList(bs) =>
        Shaped(lev, [c EXCEPT !.rules = rs, !.balancers = bs, !.outbounds = os])
  <2> DEFINE d == [c EXCEPT !.rules = rs]
             e == [d EXCEPT !.balancers = bs]
  <2>1. d = [outbounds |-> x, rules |-> rs, balancers |-> z, observer |-> v]
    BY <1>1, Parts, Zenon
  <2> HIDE DEF d
  <2>2. e = [outbounds |-> x, rules |-> rs, balancers |-> bs, observer |-> v]
    BY <2>1
  <2> HIDE DEF e
  <2>3. [e EXCEPT !.outbounds = os] = [outbounds |-> os, rules |-> rs, balancers |-> bs, observer |-> v]
    BY <2>2
  <2>4. OutboundList(os) /\ RuleList(lev, rs) /\ BalancerList(bs) => Shaped(lev, [e EXCEPT !.outbounds = os])
    BY <2>3, PartsShaped
  <2> QED BY <2>4 DEF d, e
<1> QED BY <1>2, <1>3, <1>4, <1>5, <1>6

\* The changes of one outbound, rule or balancer.
LEMMA OutboundEdited ==
  ASSUME NEW o, OutboundFits(o), NEW x
  PROVE  /\ OutboundFits([o EXCEPT !.dialer = x]) /\ [o EXCEPT !.dialer = x].tag = o.tag
         /\ OutboundFits([o EXCEPT !.tag = x])
BY SMT DEF OutboundFits

\* Records after an assignment to a field.
LEMMA BalancerEdited ==
  ASSUME NEW b, BalancerFits(b), NEW x, NEW y
  PROVE  /\ BalancerFits([b EXCEPT !.selector = x, !.fallback = y])
         /\ [b EXCEPT !.selector = x, !.fallback = y].tag = b.tag
         /\ BalancerFits([b EXCEPT !.fallback = y])
<1> DEFINE d == [b EXCEPT !.selector = x]
           e == [d EXCEPT !.fallback = y]
           f == [b EXCEPT !.fallback = y]
<1>0. b = [tag |-> b.tag, strategy |-> b.strategy, selector |-> b.selector,
           fallback |-> b.fallback] /\ Named(b)
  BY Zenon DEF BalancerFits
<1>1. /\ d = [tag |-> d.tag, strategy |-> d.strategy, selector |-> d.selector, fallback |-> d.fallback]
      /\ f = [tag |-> f.tag, strategy |-> f.strategy, selector |-> f.selector, fallback |-> f.fallback]
      /\ d.tag = b.tag /\ f.tag = b.tag
  BY <1>0, SMT
<1> HIDE DEF d, f
<1>2. /\ e = [tag |-> e.tag, strategy |-> e.strategy, selector |-> e.selector, fallback |-> e.fallback]
      /\ e.tag = d.tag
  BY <1>1, SMT
<1> HIDE DEF e
<1>3. BalancerFits(e) /\ BalancerFits(f) /\ e.tag = b.tag
  BY <1>0, <1>1, <1>2, Zenon DEF BalancerFits, Named
<1> QED BY <1>3 DEF d, e, f

LEMMA RuleEdited ==
  ASSUME NEW lev, NEW r, RuleFits(lev, r), NEW old, NEW new, NoTag # old
  PROVE  RuleFits(lev, Redirected(r, old, new))
<1> DEFINE q == Redirected(r, old, new)
<1>1. /\ q = [inbound |-> q.inbound, criterion |-> q.criterion, outbound |-> q.outbound,
              balancer |-> q.balancer]
      /\ q.inbound = r.inbound /\ q.balancer = r.balancer /\ q.outbound = Subst(r.outbound, old, new)
  BY SMT DEF Redirected, RuleFits
<1> HIDE DEF q
<1>2. LeadsOnly(r) => LeadsOnly(q)
  BY <1>1, Zenon DEF LeadsOnly, Subst
<1>3. RuleFits(lev, q)
  BY <1>1, <1>2, Zenon DEF RuleFits
<1> QED BY <1>3 DEF q

LEMMA RetaggedFits ==
  ASSUME NEW b, Named(b), NEW old, NEW new
  PROVE  BalancerFits(Retagged(b, old, new))
<1> DEFINE d == Retagged(b, old, new)
<1>1. d = [tag |-> d.tag, strategy |-> d.strategy, selector |-> d.selector,
           fallback |-> d.fallback] /\ d.tag = b.tag
  BY SMT DEF Retagged
<1> HIDE DEF d
<1>2. BalancerFits(d)
  BY <1>1, Zenon DEF BalancerFits, Named
<1> QED BY <1>2 DEF d

\* A list made element by element.
LEMMA FromElements ==
  ASSUME NEW lev, NEW n \in Nat, NEW f, f = [i \in 1..n |-> f[i]]
  PROVE  /\ Len(f) = n /\ DOMAIN f = 1..n
         /\ (\A i \in 1..n : OutboundFits(f[i])) => OutboundList(f)
         /\ (\A i \in 1..n : RuleFits(lev, f[i])) => RuleList(lev, f)
         /\ (\A i \in 1..n : BalancerFits(f[i])) => BalancerList(f)
<1> DEFINE X == { f[i] : i \in 1..n }
<1>1. f \in [1..n -> X]
  BY Zenon
<1>3. \A x \in X : \E i \in 1..n : x = f[i]
  OBVIOUS
<1> HIDE DEF X
<1>2. f \in Seq(X) /\ Len(f) = n /\ DOMAIN f = 1..n
  BY <1>1, ListOf, Zenon
<1>4. /\ (\A i \in 1..n : OutboundFits(f[i])) => \A x \in X : OutboundFits(x)
      /\ (\A i \in 1..n : RuleFits(lev, f[i])) => \A x \in X : RuleFits(lev, x)
      /\ (\A i \in 1..n : BalancerFits(f[i])) => \A x \in X : BalancerFits(x)
  BY <1>3, Zenon
<1> QED BY <1>2, <1>4, Zenon DEF OutboundList, RuleList, BalancerList

\* The positions of a list.
LEMMA ListsAre ==
  ASSUME NEW lev, NEW s, OutboundList(s) \/ RuleList(lev, s) \/ BalancerList(s)
  PROVE  Len(s) \in Nat /\ DOMAIN s = 1..Len(s) /\ s \in Seq(Range(s))
<1>1. PICK X : s \in Seq(X)
  BY Zenon DEF OutboundList, RuleList, BalancerList
<1>2. Len(s) \in Nat /\ DOMAIN s = 1..Len(s) /\ s = [i \in 1..Len(s) |-> s[i]]
  BY <1>1
<1>3. s \in [1..Len(s) -> Range(s)]
  BY <1>2 DEF Range
<1> QED BY <1>2, <1>3, ListOf, Zenon

\* A loopback tells the balancer it is for.
LEMMA LoopbackNames ==
  ASSUME NEW a, NEW b, Lb(a) = Lb(b)
  PROVE  a = b
<1>1. Lb(a).name = a /\ Lb(b).name = b
  BY DEF Lb
<1> QED BY <1>1

LEMMA LoopbackKinds == \A b : IsLoopback(Lb(b))
BY DEF IsLoopback, Lb

\* All three lists of a configuration replaced.
LEMMA ThreeEdits ==
  ASSUME NEW lev, NEW c, Shaped(lev, c), NEW rs, RuleList(lev, rs), NEW bs, BalancerList(bs), NEW os, OutboundList(os)
  PROVE  Shaped(lev, [c EXCEPT !.rules = rs, !.balancers = bs, !.outbounds = os])
<1> DEFINE d == [c EXCEPT !.rules = rs]
           e == [d EXCEPT !.balancers = bs]
<1>1. Shaped(lev, d)
  BY EditsShaped, Zenon
<1> HIDE DEF d
<1>2. Shaped(lev, e)
  BY <1>1, EditsShaped, Zenon
<1> HIDE DEF e
<1>3. Shaped(lev, [e EXCEPT !.outbounds = os])
  BY <1>2, EditsShaped, Zenon
<1> QED BY <1>3 DEF d, e

\* A tag renamed everywhere.
LEMMA RenameShaped ==
  ASSUME NEW lev, NEW c, Shaped(lev, c), NEW old, NEW new
  PROVE  Shaped(lev, PropagateOutboundTagRename(c, old, new))
<1>1. CASE NoTag \in {old, new}
  BY <1>1 DEF PropagateOutboundTagRename
<1>2. CASE NoTag \notin {old, new}
  <2> DEFINE rs == [r \in DOMAIN c.rules |-> Redirected(c.rules[r], old, new)]
             bs == [b \in DOMAIN c.balancers |-> Retagged(c.balancers[b], old, new)]
             os == [o \in DOMAIN c.outbounds |-> Redialed(c.outbounds[o], old, new)]
  <2>1. OutboundList(c.outbounds) /\ RuleList(lev, c.rules) /\ BalancerList(c.balancers)
    BY Zenon DEF Shaped
  <2>2. RuleList(lev, rs)
    <3>1. Len(c.rules) \in Nat /\ DOMAIN c.rules = 1..Len(c.rules)
      BY <2>1, ListsAre, Zenon
    <3>2. \A i \in DOMAIN c.rules : RuleFits(lev, rs[i])
      BY <1>2, <2>1, ElementsFit, RuleEdited, Zenon
    <3>3. rs = [i \in 1..Len(c.rules) |-> rs[i]]
      BY <3>1
    <3> HIDE DEF rs
    <3> QED BY <3>1, <3>2, <3>3, FromElements, Zenon
  <2>3. BalancerList(bs)
    <3>1. Len(c.balancers) \in Nat /\ DOMAIN c.balancers = 1..Len(c.balancers)
      BY <2>1, ListsAre, Zenon
    <3>2. ASSUME NEW i \in DOMAIN c.balancers PROVE BalancerFits(bs[i])
      <4>1. Named(c.balancers[i])
        BY <2>1, ElementsFit, Zenon DEF BalancerFits
      <4>2. BalancerFits(Retagged(c.balancers[i], old, new))
        BY <4>1, RetaggedFits, Zenon
      <4> QED BY <4>2
    <3>3. bs = [i \in 1..Len(c.balancers) |-> bs[i]]
      BY <3>1
    <3> HIDE DEF bs
    <3> QED BY <3>1, <3>2, <3>3, FromElements, Zenon
  <2>4. OutboundList(os)
    <3>1. Len(c.outbounds) \in Nat /\ DOMAIN c.outbounds = 1..Len(c.outbounds)
      BY <2>1, ListsAre, Zenon
    <3>2. \A i \in DOMAIN c.outbounds : OutboundFits(os[i])
      BY <2>1, ElementsFit, OutboundEdited, Zenon DEF Redialed
    <3>3. os = [i \in 1..Len(c.outbounds) |-> os[i]]
      BY <3>1
    <3> HIDE DEF os
    <3> QED BY <3>1, <3>2, <3>3, FromElements, Zenon
  <2>5. PropagateOutboundTagRename(c, old, new) = [c EXCEPT !.rules = rs, !.balancers = bs, !.outbounds = os]
    BY <1>2, Zenon DEF PropagateOutboundTagRename
  <2> HIDE DEF rs, bs, os
  <2>6. Shaped(lev, [c EXCEPT !.rules = rs, !.balancers = bs, !.outbounds = os])
    BY <2>2, <2>3, <2>4, ThreeEdits, Zenon
  <2> QED BY <2>5, <2>6
<1> QED BY <1>1, <1>2

\* A balancer renamed: the rules to it, then its loopback.
LEMMA RenamedShaped ==
  ASSUME NEW lev, NEW c, Shaped(lev, c), NEW old, NEW new
  PROVE  Shaped(lev, RenamedBalancer(c, old, new))
<1>1. CASE old = new
  BY <1>1 DEF RenamedBalancer
<1>2. CASE old # new
  <2> DEFINE r1 == [r \in DOMAIN c.rules |-> RoutedTo(c.rules[r], Subst(c.rules[r].balancer, old, new))]
             d  == [c EXCEPT !.rules = r1]
             rs == [r \in DOMAIN d.rules |-> RuleRenamed(d.rules[r], old, new)]
             bs == [b \in DOMAIN d.balancers |-> FallbackRenamed(d.balancers[b], old, new)]
             os == [o \in DOMAIN d.outbounds |-> LoopbackRenamed(d.outbounds[o], old, new)]
  <2>1. IsConfig(c) /\ OutboundList(c.outbounds) /\ RuleList(lev, c.rules) /\ BalancerList(c.balancers)
    BY Zenon DEF Shaped
  <2>2. d = [outbounds |-> c.outbounds, rules |-> r1, balancers |-> c.balancers, observer |-> c.observer]
    BY <2>1, Parts, Zenon
  <2>3. RenamedBalancer(c, old, new) = [d EXCEPT !.rules = rs, !.balancers = bs, !.outbounds = os]
    BY <1>2, Zenon DEF RenamedBalancer, Rerouted, PropagateBalancerTagRename
  <2> HIDE DEF d
  <2>4. IsConfig(d) /\ d.outbounds = c.outbounds /\ d.rules = r1 /\ d.balancers = c.balancers
    BY <2>2 DEF IsConfig
  <2>5. RuleList(lev, rs)
    <3>1. Len(c.rules) \in Nat /\ DOMAIN c.rules = 1..Len(c.rules)
      BY <2>1, ListsAre, Zenon
    <3>2. DOMAIN d.rules = 1..Len(c.rules)
      BY <2>4, <3>1
    <3>3. rs = [i \in 1..Len(c.rules) |-> rs[i]]
      BY <3>2
    <3>4. ASSUME NEW i \in 1..Len(c.rules) PROVE RuleFits(lev, rs[i])
      <4> DEFINE r == c.rules[i]
                 p == RoutedTo(r, Subst(r.balancer, old, new))
                 q == RuleRenamed(p, old, new)
      <4>1. RuleFits(lev, r)
        BY <2>1, <3>1, ElementsFit, Zenon
      <4>2. rs[i] = q
        BY <2>4, <3>1, <3>2
      <4> HIDE DEF r
      <4>3. /\ p = [inbound |-> p.inbound, criterion |-> p.criterion, outbound |-> p.outbound,
                    balancer |-> p.balancer]
            /\ p.inbound = r.inbound /\ p.outbound = r.outbound /\ p.balancer = Subst(r.balancer, old, new)
        BY <4>1, SMT DEF RuleFits, RoutedTo
      <4> HIDE DEF p
      <4>4. /\ q = [inbound |-> q.inbound, criterion |-> q.criterion, outbound |-> q.outbound,
                    balancer |-> q.balancer]
            /\ q.inbound = Subst(p.inbound, Lb(old), Lb(new)) /\ q.outbound = p.outbound /\ q.balancer = p.balancer
        BY <4>3, SMT DEF RuleRenamed
      <4> HIDE DEF q
      <4>5. ASSUME LeadsOnly(r), IsLoopback(q.inbound)
            PROVE  q.outbound = NoTag /\ q.inbound = Lb(q.balancer)
        <5>1. Lb(old) = Lb(r.balancer) => old = r.balancer
          BY LoopbackNames, Zenon
        <5>2. CASE r.inbound = Lb(old)
          <6>1. IsLoopback(r.inbound)
            BY <5>2, LoopbackKinds, Zenon
          <6>2. r.balancer = old /\ r.outbound = NoTag
            BY <4>5, <5>1, <5>2, <6>1, Zenon DEF LeadsOnly
          <6>3. q.inbound = Lb(new)
            BY <4>3, <4>4, <5>2, Zenon DEF Subst
          <6>4. q.balancer = new
            BY <4>3, <4>4, <6>2, Zenon DEF Subst
          <6> QED BY <4>3, <4>4, <6>2, <6>3, <6>4
        <5>3. CASE r.inbound # Lb(old)
          <6>1. q.inbound = r.inbound
            BY <4>3, <4>4, <5>3, Zenon DEF Subst
          <6>2. r.outbound = NoTag /\ r.inbound = Lb(r.balancer)
            BY <4>5, <6>1, Zenon DEF LeadsOnly
          <6>3. q.balancer = r.balancer
            BY <4>3, <4>4, <5>3, <6>2, Zenon DEF Subst
          <6> QED BY <4>3, <4>4, <6>1, <6>2, <6>3
        <5> QED BY <5>2, <5>3
      <4>6. LeadsOnly(r) => LeadsOnly(q)
        BY <4>5, Zenon DEF LeadsOnly
      <4>7. RuleFits(lev, q)
        BY <4>1, <4>4, <4>6, Zenon DEF RuleFits
      <4> QED BY <4>2, <4>7
    <3> HIDE DEF rs
    <3> QED BY <3>1, <3>3, <3>4, FromElements, Zenon
  <2>6. BalancerList(bs)
    <3>1. Len(c.balancers) \in Nat /\ DOMAIN d.balancers = 1..Len(c.balancers)
      BY <2>1, <2>4, ListsAre, Zenon
    <3>2. \A i \in 1..Len(c.balancers) : BalancerFits(d.balancers[i])
      BY <2>1, <2>4, <3>1, ElementsFit, Zenon
    <3>3. \A i \in 1..Len(c.balancers) : BalancerFits(bs[i])
      BY <3>1, <3>2, BalancerEdited, Zenon DEF FallbackRenamed
    <3>4. bs = [i \in 1..Len(c.balancers) |-> bs[i]]
      BY <3>1
    <3> HIDE DEF bs
    <3> QED BY <3>1, <3>3, <3>4, FromElements, Zenon
  <2>7. OutboundList(os)
    <3>1. Len(c.outbounds) \in Nat /\ DOMAIN d.outbounds = 1..Len(c.outbounds)
      BY <2>1, <2>4, ListsAre, Zenon
    <3>2. \A i \in 1..Len(c.outbounds) : OutboundFits(d.outbounds[i])
      BY <2>1, <2>4, <3>1, ElementsFit, Zenon
    <3>3. \A i \in 1..Len(c.outbounds) : OutboundFits(os[i])
      BY <3>1, <3>2, OutboundEdited, Zenon DEF LoopbackRenamed
    <3>4. os = [i \in 1..Len(c.outbounds) |-> os[i]]
      BY <3>1
    <3> HIDE DEF os
    <3> QED BY <3>1, <3>3, <3>4, FromElements, Zenon
  <2>8. IsConfig(d)
    BY <2>4
  <2> HIDE DEF rs, bs, os
  <2>9. Shaped(lev, [d EXCEPT !.rules = rs, !.balancers = bs, !.outbounds = os])
    <3> DEFINE e == [d EXCEPT !.rules = rs]
               g == [e EXCEPT !.balancers = bs]
    <3>1. e = [outbounds |-> d.outbounds, rules |-> rs, balancers |-> d.balancers, observer |-> d.observer]
      BY <2>8, Parts, Zenon
    <3>2. Shaped(lev, e)
      BY <2>1, <2>4, <2>5, <3>1, PartsShaped
    <3> HIDE DEF e
    <3>3. Shaped(lev, g)
      BY <2>6, <3>2, EditsShaped, Zenon
    <3> HIDE DEF g
    <3>4. Shaped(lev, [g EXCEPT !.outbounds = os])
      BY <2>7, <3>3, EditsShaped, Zenon
    <3> QED BY <3>4 DEF g, e
  <2> QED BY <2>3, <2>9
<1> QED BY <1>1, <1>2

-----------------------------------------------------------------------------
(* The cleanup after a deletion, and its plan (reference-cleanup.ts).         *)

\* syncObservatories changes the observer alone.
LEMMA SyncParts ==
  ASSUME NEW c, IsConfig(c)
  PROVE  LET d == SyncObservatories(c)
         IN  IsConfig(d) /\ d.outbounds = c.outbounds /\ d.rules = c.rules /\ d.balancers = c.balancers
<1>1. PICK x : SyncObservatories(c) = [c EXCEPT !.observer = x]
  BY Zenon DEF SyncObservatories
<1> DEFINE d == [c EXCEPT !.observer = x]
<1>2. IsConfig(d) /\ d.outbounds = c.outbounds /\ d.rules = c.rules /\ d.balancers = c.balancers
  BY SMT DEF IsConfig
<1> QED BY <1>1, <1>2, Zenon

\* The observer is no list.
LEMMA SyncShaped == ASSUME NEW lev, NEW c, Shaped(lev, c) PROVE Shaped(lev, SyncObservatories(c))
BY SyncParts, Zenon DEF Shaped

\* A rule that keeps a destination, and one that does not.
AsRepaired(lev, r, ro, rb, q) ==
    /\ RuleFits(lev, q)
    /\ ClassifyRule(r, ro, rb) = "kept" => q = r
    /\ ClassifyRule(r, ro, rb) # "kept" => q.outbound # NoTag \/ q.balancer # ""
    /\ LosesOutbound(r, ro) => q.outbound = NoTag
    /\ ~LosesOutbound(r, ro) => q.outbound = r.outbound
    /\ LosesBalancer(r, rb) => q.balancer = ""
    /\ ~LosesBalancer(r, rb) => q.balancer = r.balancer

\* What applyCleanup leaves of a rule it does not remove (reference-cleanup.ts:119-138).
LEMMA RepairedRule ==
  ASSUME NEW lev, NEW r, RuleFits(lev, r), NEW ro, NEW rb, ClassifyRule(r, ro, rb) # "removed"
  PROVE  AsRepaired(lev, r, ro, rb, Repaired(r, ro, rb))
<1> DEFINE q == Repaired(r, ro, rb)
           o == IF LosesOutbound(r, ro) THEN NoTag ELSE r.outbound
           b == IF LosesBalancer(r, rb) THEN "" ELSE r.balancer
           keeps == \/ r.outbound # NoTag /\ ~LosesOutbound(r, ro)
                    \/ r.balancer # "" /\ ~LosesBalancer(r, rb)
<1>1. q = [inbound |-> r.inbound, criterion |-> r.criterion, outbound |-> o, balancer |-> b]
  <2> DEFINE p == [r EXCEPT !.outbound = o]
  <2>1. Repaired(r, ro, rb) = [p EXCEPT !.balancer = b]
    <3>1. p = [inbound |-> r.inbound, criterion |-> r.criterion, outbound |-> o, balancer |-> r.balancer]
      <4> HIDE DEF o
      <4> QED BY DEF RuleFits
    <3> QED BY Zenon DEF Repaired
  <2>2. p = [inbound |-> r.inbound, criterion |-> r.criterion, outbound |-> o, balancer |-> r.balancer]
    <3> HIDE DEF o
    <3> QED BY DEF RuleFits
  <2> HIDE DEF p, o, b
  <2>3. [p EXCEPT !.balancer = b]
          = [inbound |-> r.inbound, criterion |-> r.criterion, outbound |-> o, balancer |-> b]
    BY <2>2
  <2> QED BY <2>1, <2>3
<1>2. /\ ClassifyRule(r, ro, rb) = "kept" <=> ~LosesOutbound(r, ro) /\ ~LosesBalancer(r, rb)
      /\ ClassifyRule(r, ro, rb) # "kept" => keeps
  <2> DEFINE lo == LosesOutbound(r, ro)
             lb == LosesBalancer(r, rb)
             k  == ClassifyRule(r, ro, rb)
  <2>1. k = CASE ~lo /\ ~lb -> "kept" [] (lo \/ lb) /\ keeps -> "modified" [] OTHER -> "removed"
    BY Zenon DEF ClassifyRule
  <2> HIDE DEF lo, lb, k, keeps
  <2>2. k # "removed"
    BY DEF k
  <2>3. /\ k = "kept" <=> ~lo /\ ~lb
        /\ k # "kept" => keeps
    BY <2>1, <2>2, SMT
  <2> QED BY <2>3 DEF lo, lb, k
<1>3. ~LosesOutbound(r, ro) /\ ~LosesBalancer(r, rb) => q = r
  <2> SUFFICES ASSUME ~LosesOutbound(r, ro), ~LosesBalancer(r, rb) PROVE q = r
    OBVIOUS
  <2>1. o = r.outbound /\ b = r.balancer
    OBVIOUS
  <2>2. r = [inbound |-> r.inbound, criterion |-> r.criterion, outbound |-> r.outbound,
             balancer |-> r.balancer]
    BY Zenon DEF RuleFits
  <2> HIDE DEF q, o, b
  <2> QED BY <1>1, <2>1, <2>2, Zenon
<1>4. keeps => o # NoTag \/ b # ""
  BY DEF LosesOutbound, LosesBalancer
<1>5. q.inbound = r.inbound /\ q.outbound = o /\ q.balancer = b
      /\ q = [inbound |-> q.inbound, criterion |-> q.criterion, outbound |-> q.outbound,
              balancer |-> q.balancer]
  <2> HIDE DEF q, o, b
  <2> QED BY <1>1
<1>6. ASSUME LeadsOnly(r), IsLoopback(r.inbound) PROVE o = NoTag /\ b = r.balancer /\ r.inbound = Lb(b)
  <2>1. r.outbound = NoTag /\ r.inbound = Lb(r.balancer)
    BY <1>6, Zenon DEF LeadsOnly
  <2>2. ~LosesOutbound(r, ro)
    BY <2>1, Zenon DEF LosesOutbound
  <2>3. ~keeps \/ ~LosesBalancer(r, rb)
    BY <2>1, Zenon
  <2>4. ~LosesBalancer(r, rb)
    BY <1>2, <2>2, <2>3, Zenon
  <2> QED BY <2>1, <2>4, Zenon
<1>7. RuleFits(lev, q)
  <2> HIDE DEF q, o, b
  <2>1. LeadsOnly(r) => LeadsOnly(q)
    BY <1>5, <1>6, Zenon DEF LeadsOnly
  <2> QED BY <1>5, <2>1, Zenon DEF RuleFits
<1> HIDE DEF keeps
<1>8. ClassifyRule(r, ro, rb) # "kept" => q.outbound # NoTag \/ q.balancer # ""
  <2> HIDE DEF q, o, b
  <2> QED BY <1>2, <1>4, <1>5, Zenon
<1>9. /\ LosesOutbound(r, ro) => q.outbound = NoTag
      /\ ~LosesOutbound(r, ro) => q.outbound = r.outbound
  <2> HIDE DEF q
  <2> QED BY <1>5, Zenon
<1>10. /\ LosesBalancer(r, rb) => q.balancer = ""
       /\ ~LosesBalancer(r, rb) => q.balancer = r.balancer
  <2> HIDE DEF q
  <2> QED BY <1>5, Zenon
<1>11. ClassifyRule(r, ro, rb) = "kept" => q = r
  <2> HIDE DEF q
  <2> QED BY <1>2, <1>3, Zenon
<1> HIDE DEF q
<1>12. AsRepaired(lev, r, ro, rb, q)
  BY <1>7, <1>8, <1>9, <1>10, <1>11, Zenon DEF AsRepaired
<1> QED BY <1>12 DEF q

Stays(c, ro, rb) == { i \in DOMAIN c.rules : ClassifyRule(c.rules[i], ro, rb) # "removed" }

\* The rules after a cleanup: those that stay, in their order, each repaired.
RulesLeft(c, ro, rb, t) ==
    /\ Len(t) = Cardinality(Stays(c, ro, rb))
    /\ \A i \in Stays(c, ro, rb) : t[Rank(Stays(c, ro, rb), i)] = Repaired(c.rules[i], ro, rb)

LEMMA RulesRepaired ==
  ASSUME NEW lev, NEW c, RuleList(lev, c.rules), NEW ro, NEW rb
  PROVE  LET t == RepairRules(c.rules, ro, rb)
         IN  RuleList(lev, t) /\ RulesLeft(c, ro, rb, t)
<1> DEFINE s    == c.rules
           stay == Stays(c, ro, rb)
           kept == Select(s, stay)
           t    == RepairRules(s, ro, rb)
<1>1. t = [n \in DOMAIN kept |-> Repaired(kept[n], ro, rb)]
  BY DEF RepairRules, Stays
<1>2. s \in Seq(Range(s)) /\ stay \in SUBSET DOMAIN s
  BY ListsAre, Zenon DEF Stays
<1>a. \A i \in stay : i \in DOMAIN s /\ ClassifyRule(s[i], ro, rb) # "removed"
  BY DEF Stays
<1>b. RuleList(lev, s)
  OBVIOUS
<1> HIDE DEF s, stay
<1>3. /\ DOMAIN kept = 1..Cardinality(stay) /\ Cardinality(stay) \in 0..Len(s)
      /\ \A n \in 1..Cardinality(stay) : Nth(stay, n) \in stay /\ kept[n] = s[Nth(stay, n)]
      /\ \A i \in stay : Rank(stay, i) \in 1..Cardinality(stay) /\ kept[Rank(stay, i)] = s[i]
  BY <1>2, Selected, Zenon
<1>4. Cardinality(stay) \in Nat
  BY <1>3, SMT
<1> HIDE DEF kept, t
<1>5. t = [n \in 1..Cardinality(stay) |-> t[n]]
  BY <1>1, <1>3
<1>6. \A n \in 1..Cardinality(stay) : t[n] = Repaired(kept[n], ro, rb)
  BY <1>1, <1>3
<1>7. ASSUME NEW n \in 1..Cardinality(stay) PROVE RuleFits(lev, t[n])
  <2>1. Nth(stay, n) \in stay /\ kept[n] = s[Nth(stay, n)]
    BY <1>3, Zenon
  <2>2. RuleFits(lev, s[Nth(stay, n)]) /\ ClassifyRule(s[Nth(stay, n)], ro, rb) # "removed"
    BY <1>a, <1>b, <2>1, ElementsFit, Zenon
  <2> DEFINE r == s[Nth(stay, n)]
  <2> HIDE DEF r
  <2>3. RuleFits(lev, r) /\ ClassifyRule(r, ro, rb) # "removed" => RuleFits(lev, Repaired(r, ro, rb))
    BY RepairedRule, Zenon DEF AsRepaired
  <2>4. t[n] = Repaired(r, ro, rb)
    BY <1>6, <2>1, Zenon DEF r
  <2>5. RuleFits(lev, Repaired(r, ro, rb))
    BY <2>2, <2>3, Zenon DEF r
  <2> QED BY <2>4, <2>5
<1>8. RuleList(lev, t) /\ Len(t) = Cardinality(stay)
  BY <1>4, <1>5, <1>7, FromElements, Zenon
<1>9. ASSUME NEW i \in stay PROVE t[Rank(stay, i)] = Repaired(s[i], ro, rb)
  <2>1. Rank(stay, i) \in 1..Cardinality(stay) /\ kept[Rank(stay, i)] = s[i]
    BY <1>3, Zenon
  <2> HIDE DEF Rank
  <2>2. t[Rank(stay, i)] = Repaired(kept[Rank(stay, i)], ro, rb)
    BY <1>6, <2>1, Zenon
  <2> QED BY <2>1, <2>2
<1> QED BY <1>8, <1>9 DEF t, s, stay, RulesLeft

\* The balancers after a cleanup: all but the removed ones.
LEMMA BalancersRepaired ==
  ASSUME NEW s, BalancerList(s), NEW ro, NEW rb
  PROVE  /\ BalancerList(RepairBalancers(s, ro, rb))
         /\ TagsOf(RepairBalancers(s, ro, rb)) = TagsOf(s) \ rb
<1> DEFINE stay == { i \in DOMAIN s : s[i].tag \notin rb }
           kept == Select(s, stay)
           t    == RepairBalancers(s, ro, rb)
<1>1. t = [n \in DOMAIN kept |-> RepairBalancer(kept[n], ro)]
  BY DEF RepairBalancers
<1>2. s \in Seq(Range(s)) /\ stay \in SUBSET DOMAIN s
  BY ListsAre, Zenon
<1>a. \A i \in DOMAIN s : i \in stay <=> s[i].tag \notin rb
  OBVIOUS
<1> HIDE DEF stay
<1>3. /\ DOMAIN kept = 1..Cardinality(stay) /\ Cardinality(stay) \in 0..Len(s)
      /\ \A n \in 1..Cardinality(stay) : Nth(stay, n) \in stay /\ kept[n] = s[Nth(stay, n)]
      /\ \A i \in stay : Rank(stay, i) \in 1..Cardinality(stay) /\ kept[Rank(stay, i)] = s[i]
  BY <1>2, Selected, Zenon
<1>4. Cardinality(stay) \in Nat
  BY <1>3, SMT
<1> HIDE DEF kept, t
<1>5. t = [n \in 1..Cardinality(stay) |-> t[n]] /\ DOMAIN t = 1..Cardinality(stay)
  BY <1>1, <1>3
<1>6. \A n \in 1..Cardinality(stay) : t[n] = RepairBalancer(kept[n], ro)
  BY <1>1, <1>3
<1>7. ASSUME NEW n \in 1..Cardinality(stay) PROVE BalancerFits(t[n]) /\ t[n].tag = kept[n].tag
  <2>1. Nth(stay, n) \in DOMAIN s /\ kept[n] = s[Nth(stay, n)]
    BY <1>2, <1>3, Zenon
  <2>2. BalancerFits(kept[n])
    BY <2>1, ElementsFit, Zenon
  <2> DEFINE b == kept[n]
             x == b.selector \ ro
             y == IF b.fallback \in ro THEN NoTag ELSE b.fallback
  <2>3. t[n] = [b EXCEPT !.selector = x, !.fallback = y]
    BY <1>6, Zenon DEF RepairBalancer
  <2> HIDE DEF b, x, y
  <2>4. BalancerFits(b) => /\ BalancerFits([b EXCEPT !.selector = x, !.fallback = y])
                           /\ [b EXCEPT !.selector = x, !.fallback = y].tag = b.tag
    BY BalancerEdited, Zenon
  <2>5. BalancerFits(b)
    BY <2>2 DEF b
  <2> QED BY <2>3, <2>4, <2>5 DEF b
<1>8. BalancerList(t)
  BY <1>4, <1>5, <1>7, FromElements, Zenon
<1>9. TagsOf(t) = TagsOf(s) \ rb
  <2>1. ASSUME NEW n \in DOMAIN t PROVE t[n].tag \in TagsOf(s) /\ t[n].tag \notin rb
    <3>1. Nth(stay, n) \in stay /\ Nth(stay, n) \in DOMAIN s /\ t[n].tag = s[Nth(stay, n)].tag
      BY <1>2, <1>3, <1>5, <1>7, Zenon
    <3> QED BY <1>a, <3>1, Zenon DEF TagsOf
  <2>2. ASSUME NEW i \in DOMAIN s, s[i].tag \notin rb PROVE s[i].tag \in TagsOf(t)
    <3>1. Rank(stay, i) \in DOMAIN t /\ t[Rank(stay, i)].tag = s[i].tag
      BY <1>a, <1>3, <1>5, <1>7, <2>2, Zenon
    <3> QED BY <3>1, Zenon DEF TagsOf
  <2> QED BY <2>1, <2>2, Zenon DEF TagsOf
<1> QED BY <1>8, <1>9, Zenon DEF t

\* The outbounds after a cleanup: all but the removed ones.
LEMMA OutboundsRepaired ==
  ASSUME NEW s, OutboundList(s), NEW ro
  PROVE  /\ OutboundList(RepairOutbounds(s, ro))
         /\ TagsOf(RepairOutbounds(s, ro)) = TagsOf(s) \ ro
<1> DEFINE stay == { i \in DOMAIN s : s[i].tag \notin ro }
           kept == Select(s, stay)
           t    == RepairOutbounds(s, ro)
<1>1. t = [n \in DOMAIN kept |-> [kept[n] EXCEPT !.dialer = IF @ \in ro THEN NoTag ELSE @]]
  BY DEF RepairOutbounds
<1>2. s \in Seq(Range(s)) /\ stay \in SUBSET DOMAIN s
  BY ListsAre, Zenon
<1>a. \A i \in DOMAIN s : i \in stay <=> s[i].tag \notin ro
  OBVIOUS
<1> HIDE DEF stay
<1>3. /\ DOMAIN kept = 1..Cardinality(stay) /\ Cardinality(stay) \in 0..Len(s)
      /\ \A n \in 1..Cardinality(stay) : Nth(stay, n) \in stay /\ kept[n] = s[Nth(stay, n)]
      /\ \A i \in stay : Rank(stay, i) \in 1..Cardinality(stay) /\ kept[Rank(stay, i)] = s[i]
  BY <1>2, Selected, Zenon
<1>4. Cardinality(stay) \in Nat
  BY <1>3, SMT
<1> HIDE DEF kept, t
<1>5. t = [n \in 1..Cardinality(stay) |-> t[n]] /\ DOMAIN t = 1..Cardinality(stay)
  BY <1>1, <1>3
<1>6. \A n \in 1..Cardinality(stay) : \E x : t[n] = [kept[n] EXCEPT !.dialer = x]
  BY <1>1, <1>3, Zenon
<1>7. ASSUME NEW n \in 1..Cardinality(stay) PROVE OutboundFits(t[n]) /\ t[n].tag = kept[n].tag
  <2>1. Nth(stay, n) \in DOMAIN s /\ kept[n] = s[Nth(stay, n)]
    BY <1>2, <1>3, Zenon
  <2>2. OutboundFits(kept[n])
    BY <2>1, ElementsFit, Zenon
  <2> DEFINE o == kept[n]
  <2>3. PICK x : t[n] = [o EXCEPT !.dialer = x]
    BY <1>6, Zenon
  <2> HIDE DEF o
  <2>4. OutboundFits(o) => OutboundFits([o EXCEPT !.dialer = x]) /\ [o EXCEPT !.dialer = x].tag = o.tag
    BY OutboundEdited, Zenon
  <2>5. OutboundFits(o)
    BY <2>2 DEF o
  <2> QED BY <2>3, <2>4, <2>5 DEF o
<1>8. OutboundList(t)
  BY <1>4, <1>5, <1>7, FromElements, Zenon
<1>9. TagsOf(t) = TagsOf(s) \ ro
  <2>1. ASSUME NEW n \in DOMAIN t PROVE t[n].tag \in TagsOf(s) /\ t[n].tag \notin ro
    <3>1. Nth(stay, n) \in stay /\ Nth(stay, n) \in DOMAIN s /\ t[n].tag = s[Nth(stay, n)].tag
      BY <1>2, <1>3, <1>5, <1>7, Zenon
    <3> QED BY <1>a, <3>1, Zenon DEF TagsOf
  <2>2. ASSUME NEW i \in DOMAIN s, s[i].tag \notin ro PROVE s[i].tag \in TagsOf(t)
    <3>1. Rank(stay, i) \in DOMAIN t /\ t[Rank(stay, i)].tag = s[i].tag
      BY <1>a, <1>3, <1>5, <1>7, <2>2, Zenon
    <3> QED BY <3>1, Zenon DEF TagsOf
  <2> QED BY <2>1, <2>2, Zenon DEF TagsOf
<1> QED BY <1>8, <1>9, Zenon DEF t

\* What a cleanup makes of c.
Cleanses(c, ro, rb, d) ==
    /\ Len(d.rules) = Cardinality(Stays(c, ro, rb))
    /\ \A i \in Stays(c, ro, rb) : d.rules[Rank(Stays(c, ro, rb), i)] = Repaired(c.rules[i], ro, rb)
    /\ TagsOf(d.balancers) = TagsOf(c.balancers) \ rb
    /\ \A t \in TagsOf(c.outbounds) : t.kind = "out" /\ t \notin ro => t \in TagsOf(d.outbounds)
    /\ \A t \in TagsOf(d.outbounds) : t \notin ro
    /\ d.observer = ApplyCleanup(c, ro, rb).observer

\* What a cleanup does to a whole configuration (reference-cleanup.ts:119-169).
LEMMA Cleaned ==
  ASSUME NEW lev, NEW c, Shaped(lev, c), NEW ro, NEW rb
  PROVE  Shaped(lev, ApplyCleanup(c, ro, rb)) /\ Cleanses(c, ro, rb, ApplyCleanup(c, ro, rb))
<1> DEFINE os == RepairOutbounds(c.outbounds, ro)
           rs == RepairRules(c.rules, ro, rb)
           bs == RepairBalancers(c.balancers, ro, rb)
           d  == ApplyCleanup(c, ro, rb)
           e  == [outbounds |-> os, rules |-> rs, balancers |-> bs, observer |-> c.observer]
<1>1. OutboundList(c.outbounds) /\ RuleList(lev, c.rules) /\ BalancerList(c.balancers)
  BY Zenon DEF Shaped
<1>2. OutboundList(os) /\ TagsOf(os) = TagsOf(c.outbounds) \ ro
  BY <1>1, OutboundsRepaired, Zenon
<1>3. BalancerList(bs) /\ TagsOf(bs) = TagsOf(c.balancers) \ rb
  BY <1>1, BalancersRepaired, Zenon
<1>4. /\ RuleList(lev, rs) /\ Len(rs) = Cardinality(Stays(c, ro, rb))
      /\ \A i \in Stays(c, ro, rb) : rs[Rank(Stays(c, ro, rb), i)] = Repaired(c.rules[i], ro, rb)
  <2>1. RuleList(lev, rs) /\ RulesLeft(c, ro, rb, rs)
    BY <1>1, RulesRepaired, Zenon
  <2> QED BY <2>1, Zenon DEF RulesLeft
<1>5. d = SyncObservatories(e)
  BY Zenon DEF ApplyCleanup
<1> HIDE DEF os, rs, bs
<1>6. Shaped(lev, e) /\ IsConfig(e) /\ e.outbounds = os /\ e.rules = rs /\ e.balancers = bs
  <2>1. Shaped(lev, e)
    BY <1>2, <1>3, <1>4, PartsShaped, Zenon
  <2>2. e.outbounds = os /\ e.rules = rs /\ e.balancers = bs
    OBVIOUS
  <2> HIDE DEF e
  <2> QED BY <2>1, <2>2, Zenon DEF Shaped
<1> HIDE DEF e, d
<1>7. Shaped(lev, d) /\ d.outbounds = os /\ d.rules = rs /\ d.balancers = bs
  BY <1>5, <1>6, SyncParts, SyncShaped, Zenon
<1>8. /\ Len(d.rules) = Cardinality(Stays(c, ro, rb))
      /\ \A i \in Stays(c, ro, rb) : d.rules[Rank(Stays(c, ro, rb), i)] = Repaired(c.rules[i], ro, rb)
  BY <1>4, <1>7
<1>9. /\ TagsOf(d.balancers) = TagsOf(c.balancers) \ rb
      /\ TagsOf(d.outbounds) = TagsOf(c.outbounds) \ ro
  BY <1>2, <1>3, <1>7
<1>10. d.observer = ApplyCleanup(c, ro, rb).observer
  BY DEF d
<1>11. Cleanses(c, ro, rb, d)
  BY <1>8, <1>9, <1>10, Zenon DEF Cleanses
<1> QED BY <1>7, <1>11 DEF d

\* What d is to be for a deletion in c with a plan.
AsAnnounced(c, plan, own, d) ==
    LET fates == plan.fates
        stay  == { i \in DOMAIN fates : fates[i] # "removed" }
    IN  /\ Len(d.rules) = Cardinality(stay)
        /\ \A i \in stay :
              LET old == c.rules[i]
                  new == d.rules[Cardinality({ j \in stay : j <= i })]
              IN  IF fates[i] = "kept" THEN new = old
                  ELSE /\ new.outbound # NoTag \/ new.balancer # ""
                       /\ old.outbound \in {NoTag, new.outbound} \/ old.outbound \notin TagsOf(d.outbounds)
                       /\ new.outbound.kind = "out" /\ new.outbound \in TagsOf(c.outbounds)
                             => new.outbound \in TagsOf(d.outbounds)
                       /\ new.balancer \in TagsOf(c.balancers) \ {""}
                             => new.balancer \in TagsOf(d.balancers)
        /\ TagsOf(d.balancers) = TagsOf(c.balancers) \ (plan.cascaded \cup own)
        /\ plan.observer <=> c.observer.kind # "none" /\ d.observer.kind # c.observer.kind

\* The plan of a cleanup announces what the cleanup does.
LEMMA Agrees ==
  ASSUME NEW lev, NEW c, Shaped(lev, c), NEW ro, NEW rb, NEW cascaded, NEW own, cascaded \cup own = rb,
         NEW d, Cleanses(c, ro, rb, d)
  PROVE  AsAnnounced(c, PlanDeletion(c, ro, rb, cascaded), own, d)
<1> DEFINE plan  == PlanDeletion(c, ro, rb, cascaded)
           stay  == { i \in DOMAIN plan.fates : plan.fates[i] # "removed" }
           stays == Stays(c, ro, rb)
<1>1. /\ plan.fates = [r \in DOMAIN c.rules |-> ClassifyRule(c.rules[r], ro, rb)]
      /\ plan.cascaded = cascaded
      /\ plan.observer = (/\ c.observer.kind # "none"
                          /\ ApplyCleanup(c, ro, rb).observer.kind # c.observer.kind)
  BY DEF PlanDeletion
<1> HIDE DEF plan
<1>2. /\ \A i \in stays : i \in DOMAIN c.rules /\ ClassifyRule(c.rules[i], ro, rb) # "removed"
                          /\ plan.fates[i] = ClassifyRule(c.rules[i], ro, rb)
      /\ stay = stays
  BY <1>1 DEF Stays
<1> HIDE DEF stay, stays
<1>3. ASSUME NEW i \in stays
      PROVE  LET old == c.rules[i]
                 new == d.rules[Rank(stays, i)]
             IN  IF plan.fates[i] = "kept" THEN new = old
                 ELSE /\ new.outbound # NoTag \/ new.balancer # ""
                      /\ old.outbound \in {NoTag, new.outbound} \/ old.outbound \notin TagsOf(d.outbounds)
                      /\ new.outbound.kind = "out" /\ new.outbound \in TagsOf(c.outbounds)
                            => new.outbound \in TagsOf(d.outbounds)
                      /\ new.balancer \in TagsOf(c.balancers) \ {""}
                            => new.balancer \in TagsOf(d.balancers)
  <2> DEFINE old == c.rules[i]
             new == d.rules[Rank(stays, i)]
             ts  == TagsOf(c.outbounds)
             us  == TagsOf(d.outbounds)
             cs  == TagsOf(c.balancers)
             ds  == TagsOf(d.balancers)
  <2>1. RuleFits(lev, old) /\ ClassifyRule(old, ro, rb) # "removed" /\ plan.fates[i] = ClassifyRule(old, ro, rb)
    BY <1>2, ElementsFit, Zenon DEF Shaped
  <2>2. new = Repaired(old, ro, rb)
    BY Zenon DEF Cleanses, stays
  <2>3. /\ \A t \in ts : t.kind = "out" /\ t \notin ro => t \in us
        /\ \A t \in us : t \notin ro
        /\ ds = cs \ rb
    BY Zenon DEF Cleanses
  <2> HIDE DEF old, new, ts, us, cs, ds
  <2>4. /\ ClassifyRule(old, ro, rb) = "kept" => new = old
        /\ ClassifyRule(old, ro, rb) # "kept" => new.outbound # NoTag \/ new.balancer # ""
        /\ old.outbound \in {NoTag, new.outbound} \/ old.outbound \notin us
        /\ new.outbound.kind = "out" /\ new.outbound \in ts => new.outbound \in us
        /\ new.balancer \in cs \ {""} => new.balancer \in ds
    <3>1. /\ ClassifyRule(old, ro, rb) = "kept" => new = old
          /\ ClassifyRule(old, ro, rb) # "kept" => new.outbound # NoTag \/ new.balancer # ""
          /\ LosesOutbound(old, ro) => new.outbound = NoTag
          /\ ~LosesOutbound(old, ro) => new.outbound = old.outbound
          /\ LosesBalancer(old, rb) => new.balancer = ""
          /\ ~LosesBalancer(old, rb) => new.balancer = old.balancer
      <4>1. AsRepaired(lev, old, ro, rb, Repaired(old, ro, rb))
        BY <2>1, RepairedRule, Zenon
      <4>2. AsRepaired(lev, old, ro, rb, new)
        BY <2>2, <4>1
      <4> QED BY <4>2, Zenon DEF AsRepaired
    <3>2. old.outbound \in {NoTag, new.outbound} \/ old.outbound \notin us
      BY <2>3, <3>1, Zenon DEF LosesOutbound
    <3>3. ASSUME new.outbound.kind = "out", new.outbound \in ts PROVE new.outbound \in us
      <4>1. new.outbound # NoTag
        <5>1. \A x : [kind |-> "none", name |-> x].kind # "out"
          OBVIOUS
        <5> QED BY <3>3, <5>1, Zenon DEF NoTag
      <4>2. new.outbound \notin ro
        BY <3>1, <4>1, Zenon DEF LosesOutbound
      <4> QED BY <2>3, <3>3, <4>2, Zenon
    <3>4. new.balancer \in cs \ {""} => new.balancer \in ds
      BY <2>3, <3>1, Zenon DEF LosesBalancer
    <3> QED BY <3>1, <3>2, <3>3, <3>4, Zenon
  <2>5. IF plan.fates[i] = "kept" THEN new = old
        ELSE /\ new.outbound # NoTag \/ new.balancer # ""
             /\ old.outbound \in {NoTag, new.outbound} \/ old.outbound \notin us
             /\ new.outbound.kind = "out" /\ new.outbound \in ts => new.outbound \in us
             /\ new.balancer \in cs \ {""} => new.balancer \in ds
    BY <2>1, <2>4, Zenon
  <2> QED BY <2>5, Zenon DEF old, new, ts, us, cs, ds
<1>4. Len(d.rules) = Cardinality(stay)
  BY <1>2, Zenon DEF Cleanses, stays
<1>5. TagsOf(d.balancers) = TagsOf(c.balancers) \ (plan.cascaded \cup own)
  BY <1>1, Zenon DEF Cleanses
<1>6. plan.observer <=> c.observer.kind # "none" /\ d.observer.kind # c.observer.kind
  BY <1>1, Zenon DEF Cleanses
<1>7. stay = { i \in DOMAIN plan.fates : plan.fates[i] # "removed" }
  BY DEF stay
<1>8. \A i \in stay : 
             LET old == c.rules[i]
                 new == d.rules[Cardinality({ j \in stay : j <= i })]
             IN  IF plan.fates[i] = "kept" THEN new = old
                 ELSE /\ new.outbound # NoTag \/ new.balancer # ""
                      /\ old.outbound \in {NoTag, new.outbound} \/ old.outbound \notin TagsOf(d.outbounds)
                      /\ new.outbound.kind = "out" /\ new.outbound \in TagsOf(c.outbounds)
                            => new.outbound \in TagsOf(d.outbounds)
                      /\ new.balancer \in TagsOf(c.balancers) \ {""}
                            => new.balancer \in TagsOf(d.balancers)
  BY <1>2, <1>3, Zenon DEF Rank
<1>9. AsAnnounced(c, plan, own, d)
  BY <1>4, <1>5, <1>6, <1>8, Zenon DEF AsAnnounced, stay
<1> QED BY <1>9 DEF plan

\* The observer depends on the balancers alone.
LEMMA SameObserver ==
  ASSUME NEW c, IsConfig(c), NEW d, IsConfig(d), c.balancers = d.balancers
  PROVE  SyncObservatories(c).observer = SyncObservatories(d).observer
<1> DEFINE bs       == d.balancers
           pings    == { b \in Range(bs) : b.strategy = "leastPing" }
           required == { b \in Range(bs) : RequiresBurst(b) }
           observer == CASE required # {} -> [kind |-> "burst", subjects |-> Selectors(required \cup pings)]
                         [] required = {} /\ pings # {} -> [kind |-> "regular", subjects |-> Selectors(pings)]
                         [] OTHER -> NoObserver
<1>1. SyncObservatories(c) = [c EXCEPT !.observer = observer]
  BY DEF SyncObservatories
<1>2. SyncObservatories(d) = [d EXCEPT !.observer = observer]
  BY DEF SyncObservatories
<1> HIDE DEF observer
<1>3. [c EXCEPT !.observer = observer].observer = observer
  BY SMT DEF IsConfig
<1>4. [d EXCEPT !.observer = observer].observer = observer
  BY SMT DEF IsConfig
<1> QED BY <1>1, <1>2, <1>3, <1>4

\* The plan of an outbound's deletion announces what the deletion does.
LEMMA OutboundDeletionAgrees ==
  ASSUME NEW lev, NEW c, Shaped(lev, c), NEW i \in DOMAIN c.outbounds
  PROVE  AsAnnounced(c, PlanOutboundDeletion(c, i), {}, ApplyOutboundDeletion(c, i))
<1> DEFINE ro == { c.outbounds[i].tag }
           rb == BalancersEmptiedBy(c, ro)
           d  == ApplyCleanup(c, ro, rb)
<1>1. /\ ApplyOutboundDeletion(c, i) = d
      /\ PlanOutboundDeletion(c, i) = PlanDeletion(c, ro, rb, rb)
  BY Zenon DEF ApplyOutboundDeletion, PlanOutboundDeletion
<1> HIDE DEF ro, rb
<1>2. Cleanses(c, ro, rb, d)
  BY Cleaned, Zenon
<1> HIDE DEF d
<1>3. rb \cup {} = rb
  OBVIOUS
<1>4. AsAnnounced(c, PlanDeletion(c, ro, rb, rb), {}, d)
  BY <1>2, <1>3, Agrees, Zenon
<1> QED BY <1>1, <1>4

\* Without the rules and the outbound of a loopback.
Others(c, b) == { i \in DOMAIN c.rules : c.rules[i].inbound # Lb(b) }

Without(lev, c, b, d) ==
    /\ Shaped(lev, d) /\ d.balancers = c.balancers /\ d.observer = c.observer
    /\ d.rules = Select(c.rules, Others(c, b))
    /\ TagsOf(d.outbounds) = TagsOf(c.outbounds) \ {Lb(b)}

\* A balancer's loopback taken out: the other rules stay in their order.
LEMMA Unlooped ==
  ASSUME NEW lev, NEW c, Shaped(lev, c), NEW b
  PROVE  Without(lev, c, b, RemoveBalancerLoopback(c, b))
<1> DEFINE d  == RemoveBalancerLoopback(c, b)
           I  == Others(c, b)
           os == c.outbounds
           K  == { i \in DOMAIN os : os[i].tag # Lb(b) }
           ks == Select(os, K)
           rs == Select(c.rules, I)
<1>1. IsConfig(c) /\ OutboundList(os) /\ RuleList(lev, c.rules) /\ BalancerList(c.balancers)
  BY Zenon DEF Shaped
<1>2. d = [c EXCEPT !.outbounds = ks, !.rules = rs]
  BY Zenon DEF RemoveBalancerLoopback, Others
<1>3. os \in Seq(Range(os)) /\ K \in SUBSET DOMAIN os /\ I \in SUBSET DOMAIN c.rules
  BY <1>1, ListsAre, Zenon DEF Others
<1> HIDE DEF d, I
<1>4. OutboundList(ks) /\ RuleList(lev, rs)
  BY <1>1, <1>3, SelectedFit, Zenon
<1>5. TagsOf(ks) = TagsOf(os) \ {Lb(b)}
  <2>1. /\ \A n \in 1..Cardinality(K) : Nth(K, n) \in K /\ ks[n] = os[Nth(K, n)]
        /\ \A i \in K : Rank(K, i) \in 1..Cardinality(K) /\ ks[Rank(K, i)] = os[i]
        /\ DOMAIN ks = 1..Cardinality(K)
    <3> HIDE DEF K, os
    <3> QED BY <1>3, Selected, Zenon
  <2>2. \A i : i \in K <=> i \in DOMAIN os /\ os[i].tag # Lb(b)
    OBVIOUS
  <2> HIDE DEF K, ks, os
  <2>3. ASSUME NEW t \in TagsOf(ks) PROVE t \in TagsOf(os) \ {Lb(b)}
    <3>1. PICK n \in DOMAIN ks : t = ks[n].tag
      BY Zenon DEF TagsOf
    <3>2. Nth(K, n) \in K /\ t = os[Nth(K, n)].tag
      BY <2>1, <3>1, Zenon
    <3> QED BY <2>2, <3>2, Zenon DEF TagsOf
  <2>4. ASSUME NEW t \in TagsOf(os) \ {Lb(b)} PROVE t \in TagsOf(ks)
    <3>1. PICK i \in DOMAIN os : t = os[i].tag
      BY Zenon DEF TagsOf
    <3>2. i \in K
      BY <2>2, <3>1, Zenon
    <3>3. Rank(K, i) \in DOMAIN ks /\ ks[Rank(K, i)].tag = t
      BY <2>1, <3>1, <3>2, Zenon
    <3> QED BY <3>3, Zenon DEF TagsOf
  <2> QED BY <2>3, <2>4, Zenon
<1>9. rs = Select(c.rules, I)
  OBVIOUS
<1> HIDE DEF ks, rs
<1>6. Shaped(lev, d)
  <2> DEFINE e == [c EXCEPT !.outbounds = ks]
  <2>1. Shaped(lev, e)
    BY <1>4, EditsShaped, Zenon
  <2>2. d = [e EXCEPT !.rules = rs]
    BY <1>2
  <2> HIDE DEF e
  <2>3. Shaped(lev, [e EXCEPT !.rules = rs])
    BY <1>4, <2>1, EditsShaped, Zenon
  <2> QED BY <2>2, <2>3
<1>7. d = [outbounds |-> ks, rules |-> rs, balancers |-> c.balancers, observer |-> c.observer]
  BY <1>1, <1>2, Parts, Zenon
<1>8. d.outbounds = ks /\ d.rules = rs /\ d.balancers = c.balancers /\ d.observer = c.observer
  BY <1>7
<1>10. Without(lev, c, b, d)
  BY <1>5, <1>6, <1>8, <1>9, Zenon DEF Without, I
<1> QED BY <1>10 DEF d

\* The rules of a balancer's loopback go with the balancer in any case.
LEMMA LoopbackGoes ==
  ASSUME NEW r, RuleFits(Led, r), NEW b, b # "", r.inbound = Lb(b)
  PROVE  ClassifyRule(r, {}, {b}) = "removed"
<1>1. r.outbound = NoTag /\ r.balancer = b
  <2>1. IsLoopback(r.inbound)
    BY LoopbackKinds, Zenon
  <2>2. r.outbound = NoTag /\ Lb(b) = Lb(r.balancer)
    BY <2>1, Zenon DEF RuleFits, LeadsOnly
  <2> QED BY <2>2, LoopbackNames, Zenon
<1> DEFINE lo == LosesOutbound(r, {})
           lb == LosesBalancer(r, {b})
           keeps == \/ r.outbound # NoTag /\ ~LosesOutbound(r, {})
                    \/ r.balancer # "" /\ ~LosesBalancer(r, {b})
           k == ClassifyRule(r, {}, {b})
<1>2. lb /\ ~keeps
  BY <1>1, Zenon DEF LosesBalancer
<1>3. k = CASE ~lo /\ ~lb -> "kept" [] (lo \/ lb) /\ keeps -> "modified" [] OTHER -> "removed"
  BY Zenon DEF ClassifyRule
<1> HIDE DEF lo, lb, keeps, k
<1>4. k = "removed"
  BY <1>2, <1>3
<1> QED BY <1>4 DEF k

\* A balancer's deletion keeps the shape.
LEMMA BalancerDeletionShaped ==
  ASSUME NEW lev, NEW c, Shaped(lev, c), NEW b, NEW i
  PROVE  Shaped(lev, ApplyBalancerDeletion(RemoveBalancerLoopback(c, b), i))
<1>1. Shaped(lev, RemoveBalancerLoopback(c, b))
  BY Unlooped, Zenon DEF Without
<1> QED BY <1>1, Cleaned, Zenon DEF ApplyBalancerDeletion

\* The plan of a balancer's deletion is made before its loopback is taken out
\* and announces what is done after it, when the rules of loopbacks lead to their
\* balancers: another that has an outbound is announced as modified, and removed.
LEMMA BalancerDeletionAgrees ==
  ASSUME NEW c, Shaped(Led, c), NEW i \in DOMAIN c.balancers
  PROVE  LET b == c.balancers[i].tag
             d == ApplyBalancerDeletion(RemoveBalancerLoopback(c, b), i)
         IN  AsAnnounced(c, PlanBalancerDeletion(c, i), {b}, d)
<1> DEFINE b == c.balancers[i].tag
           e == RemoveBalancerLoopback(c, b)
           d == ApplyBalancerDeletion(e, i)
           I == Others(c, b)
           J == Stays(e, {}, {b})
           K == Stays(c, {}, {b})
<1>1. IsConfig(c) /\ OutboundList(c.outbounds) /\ RuleList(Led, c.rules) /\ BalancerList(c.balancers)
  BY Zenon DEF Shaped
<1>2. b # ""
  BY <1>1, ElementsFit, Zenon DEF BalancerFits, Named
<1>3. PlanBalancerDeletion(c, i) = PlanDeletion(c, {}, {b}, {})
  BY DEF PlanBalancerDeletion
<1>a. d = ApplyCleanup(e, {}, { e.balancers[i].tag })
  BY DEF ApplyBalancerDeletion
<1>b. \A k : k \in I <=> k \in DOMAIN c.rules /\ c.rules[k].inbound # Lb(b)
  BY DEF Others
<1>c. Without(Led, c, b, e)
  BY Unlooped, Zenon
<1>d. b = c.balancers[i].tag
  OBVIOUS
<1> HIDE DEF b, d, I, J, K, e
<1>4. /\ Shaped(Led, e) /\ e.balancers = c.balancers /\ e.observer = c.observer
      /\ e.rules = Select(c.rules, I)
      /\ TagsOf(e.outbounds) = TagsOf(c.outbounds) \ {Lb(b)}
  BY <1>c, Zenon DEF Without, I
<1>5. d = ApplyCleanup(e, {}, {b})
  BY <1>4, <1>a, <1>d
<1>6. Shaped(Led, d) /\ Cleanses(e, {}, {b}, d)
  <2>1. Shaped(Led, ApplyCleanup(e, {}, {b})) /\ Cleanses(e, {}, {b}, ApplyCleanup(e, {}, {b}))
    BY <1>4, Cleaned, Zenon
  <2> QED BY <1>5, <2>1
<1>7. c.rules \in Seq(Range(c.rules)) /\ DOMAIN c.rules = 1..Len(c.rules) /\ Len(c.rules) \in Nat
      /\ I \in SUBSET DOMAIN c.rules
  BY <1>1, <1>b, ListsAre, Zenon
<1>8. /\ DOMAIN e.rules = 1..Cardinality(I)
      /\ \A k \in I : Rank(I, k) \in 1..Cardinality(I) /\ e.rules[Rank(I, k)] = c.rules[k]
  <2> DEFINE s == c.rules
             t == Select(s, I)
  <2>1. s \in Seq(Range(s)) /\ I \in SUBSET DOMAIN s
    BY <1>7, Zenon
  <2> HIDE DEF s
  <2>2. /\ DOMAIN t = 1..Cardinality(I)
        /\ \A k \in I : Rank(I, k) \in 1..Cardinality(I) /\ t[Rank(I, k)] = s[k]
    BY <2>1, Selected, Zenon
  <2>3. e.rules = t
    BY <1>4, Zenon DEF s
  <2> HIDE DEF t, Rank
  <2> QED BY <2>2, <2>3 DEF s
<1>9. /\ \A k : k \in K <=> k \in DOMAIN c.rules /\ ClassifyRule(c.rules[k], {}, {b}) # "removed"
      /\ \A n : n \in J <=> n \in DOMAIN e.rules /\ ClassifyRule(e.rules[n], {}, {b}) # "removed"
  BY DEF K, J, Stays
<1>10. K \subseteq I
  <2> SUFFICES ASSUME NEW k \in K, k \notin I PROVE FALSE
    BY Zenon
  <2>1. k \in DOMAIN c.rules /\ c.rules[k].inbound = Lb(b) /\ ClassifyRule(c.rules[k], {}, {b}) # "removed"
    BY <1>9, <1>b, Zenon
  <2>2. RuleFits(Led, c.rules[k])
    BY <1>1, <2>1, ElementsFit, Zenon
  <2> QED BY <1>2, <2>1, <2>2, LoopbackGoes, Zenon
<1>11. \A k : k \in K <=> k \in I /\ Rank(I, k) \in J
  <2> HIDE DEF Rank
  <2>1. ASSUME NEW k \in K PROVE k \in I /\ Rank(I, k) \in J
    <3>1. k \in I
      BY <1>10, Zenon
    <3>2. Rank(I, k) \in DOMAIN e.rules /\ e.rules[Rank(I, k)] = c.rules[k]
      BY <1>8, <3>1, Zenon
    <3> QED BY <1>9, <3>1, <3>2
  <2>2. ASSUME NEW k \in I, Rank(I, k) \in J PROVE k \in K
    <3>1. e.rules[Rank(I, k)] = c.rules[k] /\ k \in DOMAIN c.rules
      BY <1>8, <1>b, Zenon
    <3>2. ClassifyRule(e.rules[Rank(I, k)], {}, {b}) # "removed"
      BY <1>9, <2>2, Zenon
    <3> QED BY <1>9, <3>1, <3>2
  <2> QED BY <2>1, <2>2, Zenon
<1>12. J \in SUBSET (1..Cardinality(I)) /\ I \in SUBSET (1..Len(c.rules))
  BY <1>7, <1>8, <1>9, Zenon
<1>13. /\ Cardinality(J) = Cardinality(K)
       /\ \A k \in K : Rank(J, Rank(I, k)) = Rank(K, k)
  <2> DEFINE m == Len(c.rules)
  <2>1. m \in Nat /\ I \in SUBSET (1..m)
    BY <1>7, <1>12, Zenon
  <2> HIDE DEF m
  <2>2. /\ Cardinality(J) = Cardinality(Within(I, J))
        /\ \A k \in Within(I, J) : Rank(J, Rank(I, k)) = Rank(Within(I, J), k)
    BY <1>12, <2>1, Twice, Zenon
  <2>3. Within(I, J) = K
    BY <1>11 DEF Within
  <2> HIDE DEF Rank
  <2> QED BY <2>2, <2>3
<1>14. /\ Len(d.rules) = Cardinality(K)
       /\ \A k \in K : d.rules[Rank(K, k)] = Repaired(c.rules[k], {}, {b})
  <2>1. /\ Len(d.rules) = Cardinality(J)
        /\ \A n \in J : d.rules[Rank(J, n)] = Repaired(e.rules[n], {}, {b})
    BY <1>6, Zenon DEF Cleanses, J
  <2> HIDE DEF Rank
  <2>2. ASSUME NEW k \in K PROVE d.rules[Rank(K, k)] = Repaired(c.rules[k], {}, {b})
    <3>1. k \in I /\ Rank(I, k) \in J
      BY <1>11, Zenon
    <3>2. d.rules[Rank(J, Rank(I, k))] = Repaired(e.rules[Rank(I, k)], {}, {b})
      BY <2>1, <3>1, Zenon
    <3>3. e.rules[Rank(I, k)] = c.rules[k] /\ Rank(J, Rank(I, k)) = Rank(K, k)
      BY <1>8, <1>13, <3>1, Zenon
    <3> QED BY <3>2, <3>3
  <2> QED BY <1>13, <2>1, <2>2
<1>15. /\ TagsOf(d.balancers) = TagsOf(c.balancers) \ {b}
       /\ \A t \in TagsOf(c.outbounds) : t.kind = "out" => t \in TagsOf(d.outbounds)
  <2>1. /\ TagsOf(d.balancers) = TagsOf(e.balancers) \ {b}
        /\ \A t \in TagsOf(e.outbounds) : t.kind = "out" => t \in TagsOf(d.outbounds)
    BY <1>6, Zenon DEF Cleanses
  <2>2. \A t : t.kind = "out" => t # Lb(b)
    BY DEF Lb
  <2> QED BY <1>4, <2>1, <2>2, Zenon
<1>16. d.observer = ApplyCleanup(c, {}, {b}).observer
  <2> DEFINE bs == RepairBalancers(c.balancers, {}, {b})
             x  == [outbounds |-> RepairOutbounds(c.outbounds, {}), rules |-> RepairRules(c.rules, {}, {b}),
                    balancers |-> bs, observer |-> c.observer]
             y  == [outbounds |-> RepairOutbounds(e.outbounds, {}), rules |-> RepairRules(e.rules, {}, {b}),
                    balancers |-> bs, observer |-> e.observer]
  <2>1. ApplyCleanup(c, {}, {b}) = SyncObservatories(x)
    BY Zenon DEF ApplyCleanup
  <2>2. ApplyCleanup(e, {}, {b}) = SyncObservatories(y)
    BY <1>4 DEF ApplyCleanup
  <2> HIDE DEF bs
  <2>3. IsConfig(x) /\ IsConfig(y) /\ x.balancers = y.balancers
    BY DEF IsConfig
  <2> HIDE DEF x, y
  <2>4. SyncObservatories(x).observer = SyncObservatories(y).observer
    BY <2>3, SameObserver, Zenon
  <2> QED BY <1>5, <2>1, <2>2, <2>4
<1>17. Cleanses(c, {}, {b}, d)
  BY <1>14, <1>15, <1>16, Zenon DEF Cleanses, K
<1>18. AsAnnounced(c, PlanDeletion(c, {}, {b}, {}), {b}, d)
  <2>1. {} \cup {b} = {b}
    OBVIOUS
  <2> QED BY <1>17, <2>1, Agrees, Zenon
<1>19. AsAnnounced(c, PlanBalancerDeletion(c, i), {b}, d)
  BY <1>3, <1>18
<1> QED BY <1>19 DEF b, d, e

\* The first position of a set of positions, 0 when there is none.
LEMMA FirstOf ==
  ASSUME NEW s, Len(s) \in Nat, DOMAIN s = 1..Len(s), NEW I \in SUBSET (1..Len(s)),
         NEW k, k = IF I # {} THEN Min(I) ELSE 0
  PROVE  k \in Nat /\ (k > 0 => k \in I /\ k \in DOMAIN s)
<1>1. CASE I = {}
  BY <1>1
<1>2. CASE I # {}
  <2>1. I \in SUBSET Nat
    BY SMT
  <2>2. Min(I) \in I
    BY <1>2, <2>1, MinIsLeast, Zenon
  <2>3. k = Min(I)
    BY <1>2, Zenon
  <2> QED BY <2>1, <2>2, <2>3, Zenon
<1> QED BY <1>1, <1>2

-----------------------------------------------------------------------------
(* The other edits of a configuration keep its shape.                         *)

\* The outbounds and rules the page makes.
LEMMA MadeOutbounds ==
  /\ \A tag : OutboundFits(OutboundOf(tag)) /\ OutboundFits(ProviderOf(tag))
  /\ \A b : OutboundFits(LoopbackOf(b))
  /\ OutboundFits(NewOutbound)
<1>1. StreamFits(NoStream)
  <2> DEFINE e == ""
             own == [path |-> e, host |-> e, service |-> e, authority |-> e, mode |-> e, header |-> e,
                     mtu |-> e, padding |-> e, session |-> e, packet |-> e, auth |-> e]
             secure == [sni |-> e, fp |-> e, alpn |-> e, ech |-> e, vcn |-> e, pcs |-> e,
                        pbk |-> e, sid |-> e, spx |-> e, pqv |-> e]
             s == [network |-> e, own |-> own, security |-> "none", secure |-> secure, mask |-> e]
  <2>1. NoStream = s
    BY Zenon DEF NoStream, NoFields, NoSecrets
  <2> HIDE DEF e, secure
  <2>2. StreamFits(s)
    BY DEF StreamFits
  <2> HIDE DEF s
  <2> QED BY <2>1, <2>2
<1>2. ASSUME NEW tag PROVE OutboundFits(OutboundOf(tag))
  <2> DEFINE e == ""
             o == [tag |-> tag, protocol |-> "freedom", dialer |-> NoTag, server |-> NoServer, flow |-> e,
                   encryption |-> "none", stream |-> NoStream, mux |-> FALSE]
  <2>1. OutboundOf(tag) = o
    BY Zenon DEF OutboundOf
  <2> HIDE DEF e
  <2>2. OutboundFits(o)
    BY <1>1, SMT DEF OutboundFits
  <2> HIDE DEF o
  <2> QED BY <2>1, <2>2
<1>3. ASSUME NEW o, OutboundFits(o), NEW p PROVE OutboundFits([o EXCEPT !.protocol = p])
  BY <1>3, SMT DEF OutboundFits
<1>4. ASSUME NEW tag PROVE OutboundFits(ProviderOf(tag))
  BY <1>2, <1>3, Zenon DEF ProviderOf
<1>5. ASSUME NEW b PROVE OutboundFits(LoopbackOf(b))
  BY <1>2, <1>3, Zenon DEF LoopbackOf
<1>6. OutboundFits(NewOutbound)
  BY <1>2, <1>3, Zenon DEF NewOutbound
<1> QED BY <1>2, <1>4, <1>5, <1>6, Zenon

\* No tag is no loopback.
LEMMA NoTagLeads == ~IsLoopback(NoTag) /\ \A b : NoTag # Lb(b)
<1>1. \A b, x : [kind |-> "none", name |-> x] # [kind |-> "loop", name |-> b]
  BY SMT
<1>2. \A x : [kind |-> "none", name |-> x].kind # "loop"
  BY SMT
<1> QED BY <1>1, <1>2, Zenon DEF NoTag, Lb, IsLoopback

\* The rules the page makes fit.
LEMMA MadeRules ==
  ASSUME NEW lev
  PROVE  /\ \A criterion, outbound, balancer :
               RuleFits(lev, [inbound |-> NoTag, criterion |-> criterion, outbound |-> outbound, balancer |-> balancer])
         /\ \A b : RuleFits(lev, [LoopbackRule(b) EXCEPT !.balancer = b])
<1>1. ASSUME NEW x, NEW y, NEW z
      PROVE  RuleFits(lev, [inbound |-> NoTag, criterion |-> x, outbound |-> y, balancer |-> z])
  <2> DEFINE r == [inbound |-> NoTag, criterion |-> x, outbound |-> y, balancer |-> z]
  <2>1. /\ r = [inbound |-> r.inbound, criterion |-> r.criterion, outbound |-> r.outbound,
                balancer |-> r.balancer]
        /\ r.inbound = NoTag
    OBVIOUS
  <2> HIDE DEF r
  <2>2. RuleFits(lev, r)
    BY <2>1, NoTagLeads, Zenon DEF RuleFits, LeadsOnly
  <2> QED BY <2>2 DEF r
<1>2. ASSUME NEW b PROVE RuleFits(lev, [LoopbackRule(b) EXCEPT !.balancer = b])
  <2> DEFINE e == ""
             q == [inbound |-> Lb(b), criterion |-> "inbound", outbound |-> NoTag, balancer |-> e]
             r == [q EXCEPT !.balancer = b]
  <2>1. [LoopbackRule(b) EXCEPT !.balancer = b] = r
    BY Zenon DEF LoopbackRule
  <2> HIDE DEF e
  <2>2. /\ r = [inbound |-> r.inbound, criterion |-> r.criterion, outbound |-> r.outbound,
                balancer |-> r.balancer]
        /\ r.inbound = Lb(b) /\ r.outbound = NoTag /\ r.balancer = b
    OBVIOUS
  <2> HIDE DEF r
  <2>4. RuleFits(lev, r)
    BY <2>2, Zenon DEF RuleFits, LeadsOnly
  <2> QED BY <2>1, <2>4
<1> QED BY <1>1, <1>2, Zenon

\* The lists of a well-shaped configuration and their positions.
LEMMA Lists ==
  ASSUME NEW lev, NEW c, Shaped(lev, c)
  PROVE  /\ IsConfig(c) /\ OutboundList(c.outbounds) /\ RuleList(lev, c.rules) /\ BalancerList(c.balancers)
         /\ Len(c.outbounds) \in Nat /\ DOMAIN c.outbounds = 1..Len(c.outbounds)
         /\ Len(c.rules) \in Nat /\ DOMAIN c.rules = 1..Len(c.rules)
         /\ Len(c.balancers) \in Nat /\ DOMAIN c.balancers = 1..Len(c.balancers)
<1>1. OutboundList(c.outbounds) /\ RuleList(lev, c.rules) /\ BalancerList(c.balancers)
  BY Zenon DEF Shaped
<1>2. Len(c.outbounds) \in Nat /\ DOMAIN c.outbounds = 1..Len(c.outbounds)
  BY <1>1, ListsAre, Zenon
<1>3. Len(c.rules) \in Nat /\ DOMAIN c.rules = 1..Len(c.rules)
  BY <1>1, ListsAre, Zenon
<1>4. Len(c.balancers) \in Nat /\ DOMAIN c.balancers = 1..Len(c.balancers)
  BY <1>1, ListsAre, Zenon
<1> QED BY <1>1, <1>2, <1>3, <1>4, Zenon DEF Shaped

\* The loopback of a balancer, made where it is missing.
LEMMA EnsuredShaped ==
  ASSUME NEW lev, NEW c, Shaped(lev, c), NEW b
  PROVE  Shaped(lev, EnsureBalancerLoopback(c, b))
<1> DEFINE oi == { i \in 1..Len(c.outbounds) : c.outbounds[i].tag = Lb(b) }
           ri == { i \in 1..Len(c.rules) : c.rules[i].inbound = Lb(b) }
           o  == IF oi # {} THEN Min(oi) ELSE 0
           r  == IF ri # {} THEN Min(ri) ELSE 0
           os == IF o > 0 THEN [c.outbounds EXCEPT ![o] = LoopbackOf(b)] ELSE Append(c.outbounds, LoopbackOf(b))
           rs == IF r > 0 THEN [c.rules EXCEPT ![r] = [c.rules[r] EXCEPT !.balancer = b]]
                 ELSE Append(c.rules, [LoopbackRule(b) EXCEPT !.balancer = b])
<1>1. EnsureBalancerLoopback(c, b) = [c EXCEPT !.outbounds = os, !.rules = rs]
  BY DEF EnsureBalancerLoopback, SelectInSeq
<1>2. OutboundList(os)
  <2> HIDE DEF o
  <2> QED BY Lists, MadeOutbounds, OutboundEdits, Zenon
<1>3. RuleList(lev, rs)
  <2>1. CASE ~(r > 0)
    <3> HIDE DEF r
    <3> QED BY <2>1, Lists, MadeRules, RuleEdits, Zenon
  <2>2. CASE r > 0
    <3>1. Len(c.rules) \in Nat /\ DOMAIN c.rules = 1..Len(c.rules) /\ ri \in SUBSET (1..Len(c.rules))
      BY Lists, Zenon
    <3> DEFINE s == c.rules
    <3>a. \A i \in ri : i \in DOMAIN s /\ s[i].inbound = Lb(b)
      BY <3>1
    <3> HIDE DEF ri
    <3>b. r = IF ri # {} THEN Min(ri) ELSE 0
      BY DEF ri
    <3> HIDE DEF r, s
    <3>c. Len(s) \in Nat /\ DOMAIN s = 1..Len(s) /\ ri \in SUBSET (1..Len(s))
      BY <3>1 DEF s
    <3>2. r \in ri
      BY <2>2, <3>b, <3>c, FirstOf, Zenon
    <3>3. r \in DOMAIN c.rules /\ c.rules[r].inbound = Lb(b)
      BY <3>a, <3>2, Zenon DEF s
    <3>4. RuleFits(lev, c.rules[r])
      BY <3>3, Lists, ElementsFit, Zenon
    <3> DEFINE x == c.rules[r]
               y == [x EXCEPT !.balancer = b]
    <3>5. RuleFits(lev, x) /\ x.inbound = Lb(b)
      BY <3>3, <3>4, Zenon
    <3>6. rs = [c.rules EXCEPT ![r] = y]
      BY <2>2
    <3>7. IsLoopback(x.inbound)
      BY <3>5, LoopbackKinds, Zenon
    <3> HIDE DEF x
    <3>8. RuleFits(lev, y)
      <4>1. /\ y = [inbound |-> y.inbound, criterion |-> y.criterion, outbound |-> y.outbound,
                    balancer |-> y.balancer]
            /\ y.inbound = x.inbound /\ y.outbound = x.outbound /\ y.balancer = b
        BY <3>5, SMT DEF RuleFits
      <4> HIDE DEF y
      <4>2. LeadsOnly(x) => LeadsOnly(y)
        BY <3>5, <3>7, <4>1, Zenon DEF LeadsOnly
      <4> QED BY <3>5, <4>1, <4>2, Zenon DEF RuleFits
    <3> HIDE DEF y
    <3>9. RuleList(lev, [c.rules EXCEPT ![r] = y])
      BY <3>8, Lists, RuleEdits, Zenon
    <3> QED BY <3>6, <3>9
  <2> QED BY <2>1, <2>2
<1> HIDE DEF os, rs
<1>4. Shaped(lev, [c EXCEPT !.outbounds = os, !.rules = rs])
  <2> DEFINE d == [c EXCEPT !.outbounds = os]
  <2>1. Shaped(lev, d)
    BY <1>2, EditsShaped, Zenon
  <2> HIDE DEF d
  <2>2. Shaped(lev, [d EXCEPT !.rules = rs])
    BY <1>3, <2>1, EditsShaped, Zenon
  <2> QED BY <2>2 DEF d
<1> QED BY <1>1, <1>4

\* Outbounds and rules replaced.
LEMMA TwoEdits ==
  ASSUME NEW lev, NEW c, Shaped(lev, c), NEW os, OutboundList(os), NEW rs, RuleList(lev, rs)
  PROVE  Shaped(lev, [c EXCEPT !.outbounds = os, !.rules = rs])
<1> DEFINE d == [c EXCEPT !.outbounds = os]
<1>1. Shaped(lev, d)
  BY EditsShaped, Zenon
<1> HIDE DEF d
<1>2. Shaped(lev, [d EXCEPT !.rules = rs])
  BY <1>1, EditsShaped, Zenon
<1> QED BY <1>2 DEF d

\* The loopbacks' steps and the basics' rules keep the shape (balancer-loopback.ts, helpers.ts).
LEMMA RemovedShaped ==
  ASSUME NEW lev, NEW c, Shaped(lev, c), NEW b
  PROVE  Shaped(lev, RemoveBalancerLoopback(c, b)) /\ Shaped(lev, RemoveBalancerLoopbackIfOrphaned(c, b))
<1>1. Shaped(lev, RemoveBalancerLoopback(c, b))
  BY Unlooped, Zenon DEF Without
<1> QED BY <1>1, Zenon DEF RemoveBalancerLoopbackIfOrphaned

LEMMA OrphansShaped ==
  ASSUME NEW lev, NEW c, Shaped(lev, c)
  PROVE  Shaped(lev, CleanupOrphanedBalancerLoopbacks(c))
<1> DEFINE orphaned == { o.tag : o \in { x \in Range(c.outbounds) :
                           /\ x.protocol = "loopback" /\ IsLoopback(x.tag)
                           /\ CountLoopbackRefs(c, x.tag.name) = 0 } }
           I  == { i \in DOMAIN c.outbounds : c.outbounds[i].tag \notin orphaned }
           J  == { i \in DOMAIN c.rules : c.rules[i].inbound \notin orphaned }
           os == Select(c.outbounds, I)
           rs == Select(c.rules, J)
<1>1. CleanupOrphanedBalancerLoopbacks(c) = [c EXCEPT !.outbounds = os, !.rules = rs]
  BY Zenon DEF CleanupOrphanedBalancerLoopbacks
<1>2. I \in SUBSET DOMAIN c.outbounds /\ J \in SUBSET DOMAIN c.rules
  OBVIOUS
<1> HIDE DEF I, J
<1>3. OutboundList(os) /\ RuleList(lev, rs)
  BY <1>2, Lists, SelectedFit, Zenon
<1> HIDE DEF os, rs
<1>4. Shaped(lev, [c EXCEPT !.outbounds = os, !.rules = rs])
  BY <1>3, TwoEdits, Zenon
<1> QED BY <1>1, <1>4

LEMMA SetterShaped ==
  ASSUME NEW lev, NEW c, Shaped(lev, c), NEW tag, NEW criterion, NEW some
  PROVE  Shaped(lev, RuleSetter(c, tag, criterion, some))
<1> DEFINE old  == RuleGetter(c, tag, criterion)
           stay == IF some THEN { i \in old : \A j \in old : i <= j } ELSE {}
           kept == { i \in DOMAIN c.rules : i \notin old \/ i \in stay }
           rs   == Append(c.rules, [inbound |-> NoTag, criterion |-> criterion, outbound |-> tag,
                                    balancer |-> ""])
           ss   == Select(c.rules, kept)
<1>1. RuleSetter(c, tag, criterion, some) = IF old = {} THEN [c EXCEPT !.rules = rs] ELSE [c EXCEPT !.rules = ss]
  BY Zenon DEF RuleSetter
<1>2. RuleList(lev, rs)
  BY Lists, MadeRules, RuleEdits, Zenon
<1>3. RuleList(lev, ss)
  <2>1. kept \in SUBSET DOMAIN c.rules
    OBVIOUS
  <2> HIDE DEF kept
  <2> QED BY <2>1, Lists, SelectedFit, Zenon
<1> HIDE DEF rs, ss, old
<1>4. Shaped(lev, [c EXCEPT !.rules = rs]) /\ Shaped(lev, [c EXCEPT !.rules = ss])
  BY <1>2, <1>3, EditsShaped, Zenon
<1> QED BY <1>1, <1>4

LEMMA SyncOutboundShaped ==
  ASSUME NEW lev, NEW c, Shaped(lev, c), NEW tag
  PROVE  Shaped(lev, SyncOutbound(c, tag)) /\ Shaped(lev, SetDefaultOutboundTag(c, tag))
<1> DEFINE s  == c.outbounds
           I  == { i \in 1..Len(s) : s[i].tag = tag }
           at == IF I # {} THEN Min(I) ELSE 0
           used == \E i \in DOMAIN c.rules : c.rules[i].outbound = tag
           named == tag.name \in {"direct", "blocked"}
           s1 == RemoveAt(s, at)
           s2 == Append(s, OutboundOf(tag))
           s3 == << OutboundOf(tag) >> \o s
           s4 == ToFront(s, at)
           d1 == [c EXCEPT !.outbounds = s1]
           d2 == [c EXCEPT !.outbounds = s2]
           d3 == [c EXCEPT !.outbounds = s3]
           d4 == [c EXCEPT !.outbounds = s4]
<1>1. SyncOutbound(c, tag) = CASE ~used /\ at > 1 -> d1 [] used /\ at = 0 -> d2 [] OTHER -> c
  BY DEF SyncOutbound, SelectInSeq
<1>2. SetDefaultOutboundTag(c, tag) = CASE at = 0 /\ named -> d3 [] at > 1 -> d4 [] OTHER -> c
  BY DEF SetDefaultOutboundTag, SelectInSeq
<1>3. OutboundList(s) /\ Len(s) \in Nat /\ DOMAIN s = 1..Len(s)
  BY Lists, Zenon
<1>4. I \in SUBSET (1..Len(s))
  OBVIOUS
<1> HIDE DEF I, s
<1>5. at \in Nat /\ (at > 0 => at \in DOMAIN s)
  BY <1>3, <1>4, FirstOf, Zenon
<1> HIDE DEF at
<1>6. at > 1 => at \in DOMAIN s
  BY <1>5, SMT
<1>7. OutboundList(s2) /\ OutboundList(s3)
  BY <1>3, MadeOutbounds, OutboundEdits, Zenon
<1>8. at > 1 => OutboundList(s1) /\ OutboundList(s4)
  BY <1>3, <1>6, MadeOutbounds, OutboundEdits, Zenon
<1> HIDE DEF s1, s2, s3, s4
<1>9. Shaped(lev, d2) /\ Shaped(lev, d3) /\ (at > 1 => Shaped(lev, d1) /\ Shaped(lev, d4))
  BY <1>7, <1>8, EditsShaped, Zenon
<1> HIDE DEF d1, d2, d3, d4, used, named
<1> QED BY <1>1, <1>2, <1>9

\* Completing the loopbacks of the balancers one after the other.
Completed(c, x, n) ==
    IF IsLoopback(c.balancers[n].fallback) THEN EnsureBalancerLoopback(x, c.balancers[n].fallback.name) ELSE x

Completes(c, m, f) == f = [n \in 0..m |-> IF n = 0 THEN c ELSE Completed(c, f[n - 1], n)]

\* What holds of zero and of the next number holds of all of them.
LEMMA CountedUp ==
  ASSUME NEW m \in Nat, NEW T, 0 \in T, \A k \in 1..m : k - 1 \in T => k \in T
  PROVE  m \in T
<1> DEFINE S == { k \in 0..m : k \notin T }
<1>1. S = {}
  <2> SUFFICES ASSUME S # {} PROVE FALSE
    OBVIOUS
  <2> DEFINE k == Min(S)
  <2>1. S \in SUBSET Nat
    BY SMT
  <2>2. k \in S /\ \A j \in S : k <= j
    BY <2>1, MinIsLeast, Zenon
  <2> HIDE DEF k
  <2>3. k \in 0..m /\ k \notin T /\ k # 0
    BY <2>2
  <2>4. k \in 1..m /\ k - 1 \in 0..m /\ ~(k <= k - 1)
    BY <2>3, SMT
  <2>5. k - 1 \in T
    BY <2>2, <2>4, Zenon
  <2> QED BY <2>3, <2>4, <2>5, Zenon
<1>2. m \in 0..m
  BY SMT
<1> QED BY <1>1, <1>2, Zenon

\* The run over the balancers exists: each stage follows from the one before.
LEMMA CompletionExists ==
  ASSUME NEW c, NEW m \in Nat
  PROVE  \E f : Completes(c, m, f)
<1> DEFINE T == { k \in Nat : \E f : Completes(c, k, f) }
<1>1. 0 \in T
  <2> DEFINE f == [n \in 0..0 |-> c]
  <2>1. f = [n \in 0..0 |-> IF n = 0 THEN c ELSE Completed(c, f[n - 1], n)]
    OBVIOUS
  <2> HIDE DEF f
  <2>2. Completes(c, 0, f)
    BY <2>1, Zenon DEF Completes
  <2> QED BY <2>2
<1>2. ASSUME NEW k \in 1..m, k - 1 \in T PROVE k \in T
  <2>1. PICK f : Completes(c, k - 1, f)
    BY <1>2, Zenon
  <2> DEFINE g == [n \in 0..k |-> IF n = k THEN Completed(c, f[k - 1], k) ELSE f[n]]
  <2>2. f = [n \in 0..(k - 1) |-> IF n = 0 THEN c ELSE Completed(c, f[n - 1], n)]
    BY <2>1, Zenon DEF Completes
  <2>3. k \in Nat /\ k # 0
    BY SMT
  <2>4. \A n \in 0..k : g[n] = IF n = 0 THEN c ELSE Completed(c, g[n - 1], n)
    <3> SUFFICES ASSUME NEW n \in 0..k PROVE g[n] = IF n = 0 THEN c ELSE Completed(c, g[n - 1], n)
      OBVIOUS
    <3>1. CASE n = k
      <4>1. g[n] = Completed(c, f[k - 1], k) /\ g[k - 1] = f[k - 1]
        BY <2>3, <3>1
      <4> HIDE DEF g
      <4> QED BY <2>3, <3>1, <4>1
    <3>2. CASE n # k /\ n # 0
      <4>1. n \in 0..(k - 1) /\ n - 1 \in 0..(k - 1) /\ n - 1 # k /\ n \in 0..k /\ n - 1 \in 0..k
        BY <2>3, <3>2, SMT
      <4>2. g[n] = f[n] /\ g[n - 1] = f[n - 1]
        BY <3>2, <4>1
      <4>3. f[n] = Completed(c, f[n - 1], n)
        BY <2>2, <3>2, <4>1
      <4> HIDE DEF g
      <4> QED BY <3>2, <4>2, <4>3
    <3>3. CASE n # k /\ n = 0
      <4>1. 0 \in 0..(k - 1)
        BY <2>3, SMT
      <4>2. f[0] = c
        BY <2>2, <4>1
      <4> QED BY <3>3, <4>2
    <3> QED BY <3>1, <3>2, <3>3
  <2>5. g = [n \in 0..k |-> g[n]]
    OBVIOUS
  <2> HIDE DEF g
  <2>6. g = [n \in 0..k |-> IF n = 0 THEN c ELSE Completed(c, g[n - 1], n)]
    BY <2>4, <2>5
  <2>7. Completes(c, k, g)
    BY <2>6, Zenon DEF Completes
  <2> QED BY <2>3, <2>7, Zenon
<1> HIDE DEF T
<1>3. m \in T
  BY <1>1, <1>2, CountedUp, Zenon
<1> QED BY <1>3, Zenon DEF T

\* The completion, one balancer at a time.
LEMMA Completion ==
  ASSUME NEW c, Len(c.balancers) \in Nat
  PROVE  \E f : LET m == Len(c.balancers)
               IN  /\ EnsureMissingBalancerLoopbacks(c) = f[m]
                   /\ m \in Nat /\ f[0] = c
                   /\ \A k \in 1..m : f[k] = Completed(c, f[k - 1], k)
<1> DEFINE m == Len(c.balancers)
           f == CHOOSE f : Completes(c, m, f)
<1>1. EnsureMissingBalancerLoopbacks(c) = f[m]
  BY DEF EnsureMissingBalancerLoopbacks, Completes, Completed
<1>2. m \in Nat
  OBVIOUS
<1> HIDE DEF m
<1>3. Completes(c, m, f)
  BY <1>2, CompletionExists, Zenon
<1> HIDE DEF f
<1>4. f = [n \in 0..m |-> IF n = 0 THEN c ELSE Completed(c, f[n - 1], n)]
  BY <1>3, Zenon DEF Completes
<1>5. f[0] = c /\ \A k \in 1..m : f[k] = Completed(c, f[k - 1], k)
  <2>1. 0 \in 0..m /\ \A k \in 1..m : k \in 0..m /\ k # 0
    BY <1>2, SMT
  <2> QED BY <1>4, <2>1
<1> QED BY <1>1, <1>2, <1>5 DEF m

\* The save's completion of the loopbacks keeps the shape.
LEMMA MissingShaped ==
  ASSUME NEW lev, NEW c, Shaped(lev, c)
  PROVE  Shaped(lev, EnsureMissingBalancerLoopbacks(c))
<1> DEFINE m == Len(c.balancers)
<1>1. PICK f : /\ EnsureMissingBalancerLoopbacks(c) = f[m]
               /\ m \in Nat /\ f[0] = c
               /\ \A k \in 1..m : f[k] = Completed(c, f[k - 1], k)
  <2>1. Len(c.balancers) \in Nat
    BY Lists, Zenon
  <2> QED BY <2>1, Completion, Zenon
<1> HIDE DEF m
<1>2. ASSUME NEW x, Shaped(lev, x), NEW n PROVE Shaped(lev, Completed(c, x, n))
  BY <1>2, EnsuredShaped, Zenon DEF Completed
<1> DEFINE T == { k \in 0..m : Shaped(lev, f[k]) }
<1>3. 0 \in T
  BY <1>1
<1>4. ASSUME NEW k \in 1..m, k - 1 \in T PROVE k \in T
  <2>1. Shaped(lev, f[k])
    BY <1>1, <1>2, <1>4
  <2> QED BY <2>1
<1>5. m \in T
  <2> HIDE DEF T
  <2> QED BY <1>1, <1>3, <1>4, CountedUp, Zenon
<1> QED BY <1>1, <1>5

-----------------------------------------------------------------------------
(* The outbound form keeps an outbound's shape.                               *)

\* One field of an outbound, of a stream or of its settings.
LEMMA OutboundField ==
  ASSUME NEW o, OutboundFits(o), NEW x
  PROVE  /\ OutboundFits([o EXCEPT !.tag = x]) /\ OutboundFits([o EXCEPT !.protocol = x])
         /\ OutboundFits([o EXCEPT !.dialer = x]) /\ OutboundFits([o EXCEPT !.server = x])
         /\ OutboundFits([o EXCEPT !.flow = x]) /\ OutboundFits([o EXCEPT !.encryption = x])
         /\ OutboundFits([o EXCEPT !.mux = x])
         /\ StreamFits(x) => OutboundFits([o EXCEPT !.stream = x])
<1>1. OutboundFits([o EXCEPT !.tag = x]) /\ OutboundFits([o EXCEPT !.protocol = x])
  BY SMT DEF OutboundFits
<1>2. OutboundFits([o EXCEPT !.dialer = x]) /\ OutboundFits([o EXCEPT !.server = x])
  BY SMT DEF OutboundFits
<1>3. OutboundFits([o EXCEPT !.flow = x]) /\ OutboundFits([o EXCEPT !.encryption = x])
  BY SMT DEF OutboundFits
<1>4. OutboundFits([o EXCEPT !.mux = x])
  BY SMT DEF OutboundFits
<1>5. StreamFits(x) => OutboundFits([o EXCEPT !.stream = x])
  BY SMT DEF OutboundFits
<1> QED BY <1>1, <1>2, <1>3, <1>4, <1>5

\* Streams and their fields after an assignment.
LEMMA StreamField ==
  ASSUME NEW s, StreamFits(s), NEW x
  PROVE  /\ StreamFits([s EXCEPT !.security = x]) /\ StreamFits([s EXCEPT !.secure = x])
         /\ StreamFits([s EXCEPT !.mask = x])
         /\ "mode" \in DOMAIN x => StreamFits([s EXCEPT !.own = x])
BY SMT DEF StreamFits

LEMMA OwnField ==
  ASSUME NEW own, "mode" \in DOMAIN own, NEW x
  PROVE  /\ "mode" \in DOMAIN [own EXCEPT !.path = x] /\ "mode" \in DOMAIN [own EXCEPT !.header = x]
         /\ "mode" \in DOMAIN [own EXCEPT !.host = x] /\ "mode" \in DOMAIN [own EXCEPT !.mode = x]
         /\ "mode" \in DOMAIN [own EXCEPT !.mtu = x] /\ "mode" \in DOMAIN [own EXCEPT !.padding = x]
         /\ "mode" \in DOMAIN [own EXCEPT !.packet = x] /\ "mode" \in DOMAIN [own EXCEPT !.auth = x]
         /\ "mode" \in DOMAIN [own EXCEPT !.service = x] /\ "mode" \in DOMAIN [own EXCEPT !.authority = x]
         /\ "mode" \in DOMAIN [own EXCEPT !.session = x]
BY SMT

\* No field is set, but each is there.
LEMMA FieldsFit == "mode" \in DOMAIN NoFields
<1> DEFINE e == ""
           own == [path |-> e, host |-> e, service |-> e, authority |-> e, mode |-> e, header |-> e,
                   mtu |-> e, padding |-> e, session |-> e, packet |-> e, auth |-> e]
<1>1. NoFields = own
  BY Zenon DEF NoFields
<1> HIDE DEF e
<1>2. "mode" \in DOMAIN own
  OBVIOUS
<1> QED BY <1>1, <1>2

\* The slices a form starts from.
LEMMA SlicesFit ==
  /\ \A network, security : StreamFits(NewStreamSlice(network, security))
  /\ StreamFits(HysteriaSlice) /\ StreamFits(NoStream)
<1>1. ASSUME NEW network PROVE "mode" \in DOMAIN NetworkDefaults(network)
  <2> DEFINE p == IF network \in {"ws", "httpupgrade", "xhttp"} THEN "/" ELSE ""
             h == IF network = "tcp" THEN "none" ELSE ""
             m == IF network = "kcp" THEN "1350" ELSE ""
             q == IF network = "xhttp" THEN "100-1000" ELSE ""
             d1 == [NoFields EXCEPT !.path = p]
             d2 == [d1 EXCEPT !.header = h]
             d3 == [d2 EXCEPT !.mtu = m]
  <2>1. NetworkDefaults(network) = [d3 EXCEPT !.padding = q]
    BY Zenon DEF NetworkDefaults
  <2> HIDE DEF p, h, m, q
  <2>2. "mode" \in DOMAIN d1
    BY FieldsFit, OwnField, Zenon
  <2> HIDE DEF d1
  <2>3. "mode" \in DOMAIN d2
    BY <2>2, OwnField, Zenon
  <2> HIDE DEF d2
  <2>4. "mode" \in DOMAIN d3
    BY <2>3, OwnField, Zenon
  <2> HIDE DEF d3
  <2>5. "mode" \in DOMAIN [d3 EXCEPT !.padding = q]
    BY <2>4, OwnField, Zenon
  <2> QED BY <2>1, <2>5
<1>2. ASSUME NEW network, NEW security PROVE StreamFits(NewStreamSlice(network, security))
  <2> DEFINE e == ""
             s == [network |-> network, own |-> NetworkDefaults(network),
                   security |-> security, secure |-> SecurityDefaults(security), mask |-> e]
  <2>1. NewStreamSlice(network, security) = s
    BY Zenon DEF NewStreamSlice
  <2> HIDE DEF e
  <2>2. StreamFits(s)
    BY <1>1, SMT DEF StreamFits
  <2> HIDE DEF s
  <2> QED BY <2>1, <2>2
<1>3. StreamFits(HysteriaSlice)
  <2> DEFINE s == NewStreamSlice("hysteria", "tls")
  <2>1. HysteriaSlice = [s EXCEPT !.secure = [s.secure EXCEPT !.alpn = "h3"]]
    BY DEF HysteriaSlice
  <2>2. StreamFits(s)
    BY <1>2, Zenon
  <2> HIDE DEF s
  <2>3. StreamFits([s EXCEPT !.secure = [s.secure EXCEPT !.alpn = "h3"]])
    BY <2>2, StreamField, Zenon
  <2> QED BY <2>1, <2>3
<1>4. StreamFits(NoStream)
  <2>1. OutboundFits(OutboundOf(NoTag)) /\ OutboundOf(NoTag).stream = NoStream
    <3>1. OutboundOf(NoTag).stream = NoStream
      BY Zenon DEF OutboundOf
    <3> QED BY <3>1, MadeOutbounds, Zenon
  <2> QED BY <2>1, Zenon DEF OutboundFits
<1> QED BY <1>2, <1>3, <1>4, Zenon

\* The form's steps on an outbound keep it fitting (OutboundFormModal.tsx, outbound-form-adapter.ts).
LEMMA StreamedFits ==
  ASSUME NEW v, OutboundFits(v), NEW s, StreamFits(s)
  PROVE  OutboundFits(WithStream(v, s))
<1> DEFINE w == [v EXCEPT !.stream = s]
<1>1. OutboundFits(w)
  BY OutboundField, Zenon
<1>2. WithStream(v, s) = [w EXCEPT !.dialer = NoTag]
  BY Zenon DEF WithStream
<1> HIDE DEF w
<1>3. OutboundFits([w EXCEPT !.dialer = NoTag])
  BY <1>1, OutboundField, Zenon
<1> QED BY <1>2, <1>3

LEMMA EffectsFit ==
  ASSUME NEW v, OutboundFits(v)
  PROVE  OutboundFits(Effects(v))
<1> DEFINE w == SeedStream(v)
<1>1. OutboundFits(w)
  <2> DEFINE a == v.protocol = "wireguard" /\ v.stream.network # ""
             b == v.protocol # "wireguard" /\ StreamAllowed(v.protocol) /\ v.stream.network = ""
             x == WithStream(v, NoStream)
             y == WithStream(v, NewStreamSlice("tcp", "none"))
  <2>1. w = CASE a -> x [] b -> y [] OTHER -> v
    BY DEF SeedStream
  <2>2. OutboundFits(x) /\ OutboundFits(y)
    BY SlicesFit, StreamedFits, Zenon
  <2> HIDE DEF a, b, w, x, y
  <2> QED BY <2>1, <2>2
<1> HIDE DEF w
<1>2. OutboundFits(HoldHysteria(w))
  <2> DEFINE s == w.stream
             h == HysteriaSlice
             own == IF s.network = "hysteria" THEN s.own ELSE h.own
             d == [h EXCEPT !.own = own]
             secure == IF s.security = "tls" THEN s.secure ELSE h.secure
             e == [d EXCEPT !.secure = secure]
  <2>1. StreamFits(s) /\ StreamFits(h)
    BY <1>1, SlicesFit, Zenon DEF OutboundFits
  <2>2. StreamFits(d)
    <3>1. "mode" \in DOMAIN own
      BY <2>1, Zenon DEF StreamFits
    <3> HIDE DEF own, h
    <3> QED BY <2>1, <3>1, StreamField, Zenon
  <2>3. HoldHysteria(w) = w \/ HoldHysteria(w) = WithStream(w, e)
    <3>1. d.secure = h.secure
      <4> HIDE DEF own, h
      <4> QED BY <2>1 DEF StreamFits
    <3> QED BY <3>1, Zenon DEF HoldHysteria
  <2> HIDE DEF d, secure
  <2>4. StreamFits(e)
    BY <2>2, StreamField, Zenon
  <2> HIDE DEF e
  <2>5. OutboundFits(WithStream(w, e))
    BY <1>1, <2>4, StreamedFits, Zenon
  <2> QED BY <1>1, <2>3, <2>5
<1> QED BY <1>2, Zenon DEF Effects, w

LEMMA FromWireFits ==
  ASSUME NEW o, OutboundFits(o)
  PROVE  OutboundFits(FromWire(o))
<1> DEFINE x  == IF o.protocol = "vless" THEN o.flow ELSE ""
           d  == [o EXCEPT !.flow = x]
           y  == IF o.protocol = "vless" THEN o.encryption ELSE "none"
           e1 == [o EXCEPT !.protocol = "vless"]
           e2 == [e1 EXCEPT !.server = NoServer]
           e3 == [e2 EXCEPT !.flow = ""]
<1>1. d.encryption = o.encryption
  <2> HIDE DEF x
  <2> QED BY DEF OutboundFits
<1>2. FromWire(o) = [d EXCEPT !.encryption = y] \/ FromWire(o) = [e3 EXCEPT !.encryption = "none"]
  BY <1>1, Zenon DEF FromWire
<1> HIDE DEF x, y
<1>3. OutboundFits(d) /\ OutboundFits(e1)
  BY OutboundField, Zenon
<1> HIDE DEF d, e1
<1>4. OutboundFits(e2)
  BY <1>3, OutboundField, Zenon
<1> HIDE DEF e2
<1>5. OutboundFits(e3)
  BY <1>4, OutboundField, Zenon
<1> HIDE DEF e3
<1>6. OutboundFits([d EXCEPT !.encryption = y]) /\ OutboundFits([e3 EXCEPT !.encryption = "none"])
  BY <1>3, <1>5, OutboundField, Zenon
<1> QED BY <1>2, <1>6

LEMMA ToWireFits ==
  ASSUME NEW v, OutboundFits(v)
  PROVE  OutboundFits(ToWire(v))
<1> DEFINE s   == v.stream
           own == IF s.network = "xhttp" THEN NormalizeXhttp(s.own) ELSE s.own
           n   == [s EXCEPT !.own = own]
           t   == IF StreamWritten(v.protocol) THEN n ELSE NoStream
           d   == [v EXCEPT !.stream = t]
<1>1. StreamFits(s)
  BY Zenon DEF OutboundFits
<1>2. "mode" \in DOMAIN own
  <2>1. "mode" \in DOMAIN s.own
    BY <1>1, Zenon DEF StreamFits
  <2>2. "mode" \in DOMAIN NormalizeXhttp(s.own)
    BY <2>1, OwnField, Zenon DEF NormalizeXhttp
  <2> QED BY <2>1, <2>2
<1>3. ToWire(v) = [d EXCEPT !.mux = v.mux /\ MuxAllowed(v)]
  <2>1. d.mux = v.mux
    <3> HIDE DEF t
    <3> QED BY DEF OutboundFits
  <2> QED BY <2>1, Zenon DEF ToWire, NormalizeStream
<1> HIDE DEF own, s
<1>4. StreamFits(n)
  BY <1>1, <1>2, StreamField, Zenon
<1> HIDE DEF n
<1>5. OutboundFits(d)
  <2>1. StreamFits(t)
    BY <1>4, SlicesFit, Zenon
  <2> HIDE DEF t
  <2> QED BY <2>1, OutboundField, Zenon
<1> HIDE DEF d
<1>6. OutboundFits([d EXCEPT !.mux = v.mux /\ MuxAllowed(v)])
  BY <1>5, OutboundField, Zenon
<1> QED BY <1>3, <1>6

\* The controls.
LEMMA ControlsFit ==
  ASSUME NEW v, OutboundFits(v), NEW x
  PROVE  /\ OutboundFits(ChangeProtocol(v, x)) /\ OutboundFits(ChangeNetwork(v, x))
         /\ OutboundFits(ChangeSecurity(v, x))
<1> DEFINE s == v.stream
<1>1. StreamFits(s)
  BY Zenon DEF OutboundFits
<1>2. OutboundFits(ChangeProtocol(v, x))
  <2> DEFINE e1 == [v EXCEPT !.protocol = x]
             e2 == [e1 EXCEPT !.server = NoServer]
             e3 == [e2 EXCEPT !.flow = ""]
             b  == [e3 EXCEPT !.encryption = "none"]
             w1 == WithStream(b, HysteriaSlice)
             w2 == WithStream(b, NewStreamSlice("tcp", "none"))
             p1 == x = "hysteria"
             p2 == x # "hysteria" /\ v.stream.network = "hysteria"
  <2>1. ChangeProtocol(v, x) = CASE p1 -> w1 [] p2 -> w2 [] OTHER -> b
    BY Zenon DEF ChangeProtocol
  <2>2. OutboundFits(e1)
    BY OutboundField, Zenon
  <2> HIDE DEF e1
  <2>3. OutboundFits(e2)
    BY <2>2, OutboundField, Zenon
  <2> HIDE DEF e2
  <2>4. OutboundFits(e3)
    BY <2>3, OutboundField, Zenon
  <2> HIDE DEF e3
  <2>5. OutboundFits(b)
    BY <2>4, OutboundField, Zenon
  <2> HIDE DEF b
  <2>6. OutboundFits(w1) /\ OutboundFits(w2)
    BY <2>5, SlicesFit, StreamedFits, Zenon
  <2> HIDE DEF w1, w2, p1, p2
  <2> QED BY <2>1, <2>5, <2>6
<1>3. OutboundFits(ChangeNetwork(v, x))
  <2> DEFINE t == ApplyNetworkChange(v.protocol, s, x)
             stays == \/ s.security = "tls" /\ CanEnableTls(v.protocol, x)
                      \/ s.security = "reality" /\ CanEnableReality(v.protocol, x)
             n  == NewStreamSlice(x, s.security)
             t1 == [n EXCEPT !.secure = s.secure]
             t2 == NewStreamSlice(x, "none")
             p1 == x = "hysteria"
             p2 == x # "hysteria" /\ stays
  <2>1. t = CASE p1 -> HysteriaSlice [] p2 -> t1 [] OTHER -> t2
    BY DEF ApplyNetworkChange
  <2>2. StreamFits(n) /\ StreamFits(t2) /\ StreamFits(HysteriaSlice)
    BY SlicesFit, Zenon
  <2> HIDE DEF n
  <2>3. StreamFits(t1)
    BY <2>2, StreamField, Zenon
  <2>4. StreamFits(t)
    <3> HIDE DEF t, t1, t2, p1, p2
    <3> QED BY <2>1, <2>2, <2>3
  <2>5. ChangeNetwork(v, x) = WithStream(v, t)
    BY Zenon DEF ChangeNetwork
  <2> HIDE DEF t
  <2> QED BY <2>4, <2>5, StreamedFits
<1>4. OutboundFits(ChangeSecurity(v, x))
  <2> DEFINE t  == [s EXCEPT !.security = x]
             u  == [t EXCEPT !.secure = SecurityDefaults(x)]
             d  == [v EXCEPT !.stream = t]
             e  == [v EXCEPT !.stream = u]
             sd == SecurityDefaults(x)
  <2>1. StreamFits(t)
    <3> HIDE DEF s
    <3> QED BY <1>1, StreamField, Zenon
  <2>2. StreamFits(u)
    <3> HIDE DEF t
    <3> QED BY <2>1, StreamField, Zenon
  <2>3. ChangeSecurity(v, x) = [d EXCEPT !.stream = [d.stream EXCEPT !.secure = sd]]
    BY DEF ChangeSecurity
  <2>4. d.stream = t
    <3> HIDE DEF t
    <3> QED BY DEF OutboundFits
  <2>5. OutboundFits(d)
    <3> HIDE DEF t
    <3> QED BY <2>1, OutboundField, Zenon
  <2>6. ChangeSecurity(v, x) = [d EXCEPT !.stream = u]
    BY <2>3, <2>4
  <2> HIDE DEF d, u
  <2>7. OutboundFits([d EXCEPT !.stream = u])
    BY <2>2, <2>5, OutboundField, Zenon
  <2> QED BY <2>6, <2>7
<1> QED BY <1>2, <1>3, <1>4

\* What a form opens with.
FormFits(form) ==
    /\ form = [values |-> form.values, tab |-> form.tab, text |-> form.text, dirty |-> form.dirty,
               from |-> form.from, endpoint |-> form.endpoint, touched |-> form.touched]
    /\ form.text = [shape |-> form.text.shape, of |-> form.text.of]
    /\ OutboundFits(form.values) /\ OutboundFits(form.from) /\ OutboundFits(form.text.of)

\* A form on a fitting outbound fits.
LEMMA OpenedFits ==
  ASSUME NEW o, OutboundFits(o)
  PROVE  FormFits(FormOn(o))
<1> DEFINE v == Effects(FromWire(o))
           w == ToWire(v)
           t == [shape |-> "object", of |-> w]
           f == [values |-> v, tab |-> "basic", text |-> t, dirty |-> FALSE,
                 from |-> o, endpoint |-> << >>, touched |-> {}]
<1>1. OutboundFits(v)
  BY FromWireFits, EffectsFit, Zenon
<1> HIDE DEF v
<1>2. OutboundFits(w)
  BY <1>1, ToWireFits, Zenon
<1> HIDE DEF w
<1>3. FormFits(f)
  BY <1>1, <1>2, SMT DEF FormFits
<1>4. FormOn(o) = f
  BY Zenon DEF FormOn, v, w
<1> HIDE DEF f
<1> QED BY <1>3, <1>4

\* A stream built for a link, and what its parameters make of the settings.
LEMMA BuiltFits == \A network, security : StreamFits(BuildStream(network, security))
<1> TAKE network, security
<1> DEFINE s == NewStreamSlice(network, security)
           m == IF network = "xhttp" THEN "auto" ELSE s.own.mode
           o == [s.own EXCEPT !.mode = m]
<1>1. StreamFits(s)
  BY SlicesFit, Zenon
<1>2. BuildStream(network, security) = [s EXCEPT !.own = o]
  BY DEF BuildStream
<1> HIDE DEF s, m
<1>3. "mode" \in DOMAIN o
  <2>1. "mode" \in DOMAIN s.own
    BY <1>1, Zenon DEF StreamFits
  <2> QED BY <2>1, OwnField, Zenon
<1> HIDE DEF o
<1>4. StreamFits([s EXCEPT !.own = o])
  BY <1>1, <1>3, StreamField, Zenon
<1> QED BY <1>2, <1>4

\* The readers of links make fitting outbounds (outbound-link-parser.ts).
LEMMA TransportFits ==
  ASSUME NEW s, StreamFits(s), NEW q
  PROVE  "mode" \in DOMAIN ApplyTransportParams(s, q)
<1> DEFINE own   == s.own
           path  == Get(q, "path", "/")
           host  == Get(q, "host", "")
           named == [own EXCEPT !.host = host, !.path = path]
           mode  == Get(q, "mode", "")
           n1    == [own EXCEPT !.host = host]
           sv    == Get(q, "serviceName", Get(q, "path", ""))
           au    == Get(q, "authority", "")
           gm    == IF mode = "multi" THEN mode ELSE ""
           g1    == [own EXCEPT !.service = sv]
           g2    == [g1 EXCEPT !.authority = au]
           g     == [g2 EXCEPT !.mode = gm]
           xm    == IF mode = "" THEN named.mode ELSE mode
           x     == [named EXCEPT !.mode = xm]
           xx    == ApplyXhttpParams(x, q)
           t     == [named EXCEPT !.header = "http"]
           p1    == s.network \in {"ws", "httpupgrade"}
           p2    == s.network = "grpc"
           p3    == s.network = "xhttp"
           p4    == s.network = "tcp" /\ Get(q, "headerType", "") = "http"
           r     == ApplyTransportParams(s, q)
<1>1. r = CASE p1 -> named [] p2 -> g [] p3 -> xx [] p4 -> t [] OTHER -> own
  BY Zenon DEF ApplyTransportParams
<1>2. "mode" \in DOMAIN own
  BY Zenon DEF StreamFits
<1>3. named = [n1 EXCEPT !.path = path]
  OBVIOUS
<1> HIDE DEF own, path, host, named, mode, sv, au, gm, xm
<1>4. "mode" \in DOMAIN n1 /\ "mode" \in DOMAIN g1
  BY <1>2, OwnField, Zenon
<1> HIDE DEF n1, g1
<1>5. "mode" \in DOMAIN named
  <2>1. "mode" \in DOMAIN [n1 EXCEPT !.path = path]
    BY <1>4, OwnField, Zenon
  <2> QED BY <1>3, <2>1
<1>6. "mode" \in DOMAIN g2
  BY <1>4, OwnField, Zenon
<1> HIDE DEF g2
<1>7. "mode" \in DOMAIN g /\ "mode" \in DOMAIN x /\ "mode" \in DOMAIN t
  BY <1>5, <1>6, OwnField, Zenon
<1> HIDE DEF g, x, t
<1>8. DOMAIN xx = DOMAIN x
  BY DEF ApplyXhttpParams
<1> HIDE DEF xx, r, p1, p2, p3, p4
<1>9. "mode" \in DOMAIN r
  BY <1>1, <1>2, <1>5, <1>7, <1>8
<1> QED BY <1>9 DEF r

LEMMA StreamEdits ==
  ASSUME NEW s, StreamFits(s), NEW own, "mode" \in DOMAIN own, NEW secure, NEW mask
  PROVE  /\ StreamFits([s EXCEPT !.own = own, !.secure = secure])
         /\ StreamFits([s EXCEPT !.own = own, !.secure = secure, !.mask = mask])
         /\ [s EXCEPT !.own = own].secure = s.secure
<1> DEFINE d == [s EXCEPT !.own = own]
           e == [d EXCEPT !.secure = secure]
           f == [e EXCEPT !.mask = mask]
<1>1. StreamFits(d) /\ d.secure = s.secure
  <2>1. d.secure = s.secure
    BY DEF StreamFits
  <2> QED BY <2>1, StreamField, Zenon
<1> HIDE DEF d
<1>2. StreamFits(e)
  BY <1>1, StreamField, Zenon
<1> HIDE DEF e
<1>3. StreamFits(f)
  BY <1>2, StreamField, Zenon
<1>4. [s EXCEPT !.own = own, !.secure = secure] = e /\ [s EXCEPT !.own = own, !.secure = secure, !.mask = mask] = f
  BY DEF d, e
<1> HIDE DEF f
<1> QED BY <1>1, <1>2, <1>3, <1>4 DEF d

LEMMA UrlStreamFits == \A q, security : StreamFits(UrlStream(q, security))
<1> TAKE q, security
<1> DEFINE s == BuildStream(Get(q, "type", "tcp"), security)
           own == ApplyTransportParams(s, q)
           secure == ApplySecurityParams(security, q)
           mask == SanitizeMask(Get(q, "fm", ""))
<1>1. UrlStream(q, security) = [s EXCEPT !.own = own, !.secure = secure, !.mask = mask]
  BY DEF UrlStream
<1>2. StreamFits(s)
  BY BuiltFits, Zenon
<1> HIDE DEF s
<1>3. "mode" \in DOMAIN own
  BY <1>2, TransportFits, Zenon
<1> HIDE DEF own, secure, mask
<1>4. StreamFits([s EXCEPT !.own = own, !.secure = secure, !.mask = mask])
  BY <1>2, <1>3, StreamEdits, Zenon
<1> QED BY <1>1, <1>4

LEMMA ImportedFits ==
  ASSUME NEW link, NEW protocol, NEW s, StreamFits(s)
  PROVE  OutboundFits(Imported(link, protocol, s))
<1> DEFINE o == OutboundOf(IF link.remark = "" THEN NoTag ELSE Out(link.remark))
           v == [NoServer EXCEPT !.host = link.host, !.port = link.port, !.user = link.user]
           d == [o EXCEPT !.protocol = protocol]
           e == [d EXCEPT !.stream = s]
<1>1. Imported(link, protocol, s) = [e EXCEPT !.server = v]
  BY Zenon DEF Imported
<1>2. OutboundFits(o)
  BY MadeOutbounds, Zenon
<1> HIDE DEF o, v
<1>3. OutboundFits(d)
  BY <1>2, OutboundField, Zenon
<1> HIDE DEF d
<1>4. OutboundFits(e)
  BY <1>3, OutboundField, Zenon
<1> HIDE DEF e
<1>5. OutboundFits([e EXCEPT !.server = v])
  BY <1>4, OutboundField, Zenon
<1> QED BY <1>1, <1>5

LEMMA VmessFits == \A link : OutboundFits(ParseVmessLink(link))
<1> TAKE link
<1> DEFINE q        == link.q
           security == IF Get(q, "tls", "") = "tls" THEN "tls" ELSE "none"
           s        == BuildStream(Get(q, "net", "tcp"), security)
           asUrl    == CASE s.network = "tcp"  -> [headerType |-> Get(q, "type", "")] @@ q
                         [] s.network = "grpc" -> [mode |-> Get(q, "type", "")] @@ q
                         [] OTHER -> q
           own      == ApplyTransportParams(s, asUrl)
           secure   == IF security = "tls" THEN ReadSecrets({"sni", "fp", "alpn"}, q) ELSE s.secure
           d        == [s EXCEPT !.own = own]
           t        == [s EXCEPT !.own = own, !.secure = secure]
<1>1. StreamFits(s)
  BY BuiltFits, Zenon
<1>2. "mode" \in DOMAIN own
  <2> HIDE DEF s, asUrl
  <2> QED BY <1>1, TransportFits, Zenon
<1>3. ParseVmessLink(link) = Imported(link, "vmess",
         [s EXCEPT !.own = own,
                   !.secure = IF security = "tls" THEN ReadSecrets({"sni", "fp", "alpn"}, q) ELSE @])
  BY Zenon DEF ParseVmessLink
<1> HIDE DEF s, own, q, security
<1>4. d.secure = s.secure
  BY <1>1, <1>2, StreamEdits, Zenon
<1>5. [s EXCEPT !.own = own,
                !.secure = IF security = "tls" THEN ReadSecrets({"sni", "fp", "alpn"}, q) ELSE @] = t
  BY <1>4
<1>6. StreamFits(t)
  <2> HIDE DEF secure
  <2> QED BY <1>1, <1>2, StreamEdits, Zenon
<1>7. ParseVmessLink(link) = Imported(link, "vmess", t)
  BY <1>3, <1>5
<1> HIDE DEF t
<1> QED BY <1>6, <1>7, ImportedFits

LEMMA VlessFits == \A link : OutboundFits(ParseVlessLink(link))
<1> TAKE link
<1> DEFINE s == UrlStream(link.q, Get(link.q, "security", "none"))
           o == Imported(link, "vless", s)
           f == Get(link.q, "flow", "")
           x == Get(link.q, "encryption", "none")
           d == [o EXCEPT !.flow = f]
<1>1. OutboundFits(o)
  <2>1. StreamFits(s)
    BY UrlStreamFits, Zenon
  <2> HIDE DEF s
  <2> QED BY <2>1, ImportedFits
<1>2. ParseVlessLink(link) = [d EXCEPT !.encryption = x]
  BY Zenon DEF ParseVlessLink
<1> HIDE DEF o, f, x
<1>3. OutboundFits(d)
  BY <1>1, OutboundField, Zenon
<1> HIDE DEF d
<1>4. OutboundFits([d EXCEPT !.encryption = x])
  BY <1>3, OutboundField, Zenon
<1> QED BY <1>2, <1>4

LEMMA OthersFit ==
  \A link : OutboundFits(ParseTrojanLink(link)) /\ OutboundFits(ParseShadowsocksLink(link))
<1> TAKE link
<1> DEFINE s == UrlStream(link.q, Get(link.q, "security", "tls"))
           x == [link EXCEPT !.user = Decoded(link.user)]
<1>1. StreamFits(s) /\ StreamFits(NoStream)
  BY UrlStreamFits, SlicesFit, Zenon
<1>2. /\ ParseTrojanLink(link) = Imported(link, "trojan", s)
      /\ ParseShadowsocksLink(link) = Imported(x, "shadowsocks", NoStream)
  BY Zenon DEF ParseTrojanLink, ParseShadowsocksLink
<1> HIDE DEF s, x
<1> QED BY <1>1, <1>2, ImportedFits

LEMMA WireguardFits == \A link : OutboundFits(ParseWireguardLink(link))
<1> TAKE link
<1> DEFINE o == Imported(link, "wireguard", NoStream)
           p == << Get(link.q, "publickey", ""), Get(link.q, "address", "") >>
           v == [o.server EXCEPT !.peer = p]
<1>1. OutboundFits(o)
  BY SlicesFit, ImportedFits, Zenon
<1>2. ParseWireguardLink(link) = [o EXCEPT !.server = v]
  BY DEF ParseWireguardLink
<1> HIDE DEF o, v
<1>3. OutboundFits([o EXCEPT !.server = v])
  BY <1>1, OutboundField, Zenon
<1> QED BY <1>2, <1>3

LEMMA HysteriaFits == \A link : OutboundFits(ParseHysteria2Link(link))
<1> TAKE link
<1> DEFINE q == link.q
           h == HysteriaSlice
           a == link.user[1]
           own == [h.own EXCEPT !.auth = a]
           r == ReadSecrets(TlsFields \ {"pcs"}, q)
           secure == [r EXCEPT !.alpn = Get(q, "alpn", "h3"), !.pcs = Get(q, "pinSHA256", "")]
           mask == SanitizeMask(Get(q, "fm", ""))
           s == [h EXCEPT !.own = own, !.secure = secure, !.mask = mask]
           o == Imported(link, "hysteria", s)
           v == [o.server EXCEPT !.user = << >>]
<1>1. StreamFits(h)
  BY SlicesFit, Zenon
<1>2. ParseHysteria2Link(link) = [o EXCEPT !.server = v]
  BY DEF ParseHysteria2Link
<1> HIDE DEF h, a, secure, mask
<1>3. "mode" \in DOMAIN own
  <2>1. "mode" \in DOMAIN h.own
    BY <1>1, Zenon DEF StreamFits
  <2> QED BY <2>1, OwnField, Zenon
<1> HIDE DEF own
<1>4. StreamFits(s)
  BY <1>1, <1>3, StreamEdits, Zenon
<1> HIDE DEF s
<1>5. OutboundFits(o)
  BY <1>4, ImportedFits, Zenon
<1> HIDE DEF o, v
<1>6. OutboundFits([o EXCEPT !.server = v])
  BY <1>5, OutboundField, Zenon
<1> QED BY <1>2, <1>6

LEMMA LinksFit == \A link : \A o \in Range(ParseOutboundLink(link)) : OutboundFits(o)
<1> TAKE link
<1> DEFINE a == ParseVmessLink(link)
           b == ParseVlessLink(link)
           c == ParseTrojanLink(link)
           d == ParseShadowsocksLink(link)
           e == ParseHysteria2Link(link)
           f == ParseWireguardLink(link)
           s == ParseOutboundLink(link)
<1>1. /\ OutboundFits(a) /\ OutboundFits(b) /\ OutboundFits(c)
      /\ OutboundFits(d) /\ OutboundFits(e) /\ OutboundFits(f)
  BY VmessFits, VlessFits, OthersFit, HysteriaFits, WireguardFits, Zenon
<1>2. s \in { << a >>, << b >>, << c >>, << d >>, << e >>, << f >>, << >> }
  BY DEF ParseOutboundLink
<1> HIDE DEF a, b, c, d, e, f, s
<1>3. \A o \in Range(s) : o \in { a, b, c, d, e, f }
  <2>1. \A x : Range(<< x >>) = {x}
    BY DEF Range
  <2>2. Range(<< >>) = {}
    BY DEF Range
  <2> QED BY <1>2, <2>1, <2>2
<1>4. \A o \in Range(s) : OutboundFits(o)
  BY <1>1, <1>3, Zenon
<1> QED BY <1>4 DEF s

-----------------------------------------------------------------------------
(* What the page holds, and what every step leaves of it.                     *)

\* A form after one assignment.
LEMMA FormFields ==
  ASSUME NEW f, FormFits(f), NEW x
  PROVE  /\ FormFits([f EXCEPT !.endpoint = x]) /\ FormFits([f EXCEPT !.tab = x])
         /\ FormFits([f EXCEPT !.dirty = x])
         /\ FormFits([f EXCEPT !.touched = x])
         /\ OutboundFits(x) => FormFits([f EXCEPT !.values = x])
         /\ x = [shape |-> x.shape, of |-> x.of] /\ OutboundFits(x.of) => FormFits([f EXCEPT !.text = x])
<1>1. FormFits([f EXCEPT !.endpoint = x]) /\ FormFits([f EXCEPT !.tab = x])
  BY SMT DEF FormFits
<1>2. FormFits([f EXCEPT !.dirty = x]) /\ FormFits([f EXCEPT !.touched = x])
  BY SMT DEF FormFits
<1>3. OutboundFits(x) => FormFits([f EXCEPT !.values = x])
  BY SMT DEF FormFits
<1>4. x = [shape |-> x.shape, of |-> x.of] /\ OutboundFits(x.of) => FormFits([f EXCEPT !.text = x])
  BY SMT DEF FormFits
<1> QED BY <1>1, <1>2, <1>3, <1>4

Lefts == [edits : Nat, saves : Nat, refreshes : Nat, form : Nat]

\* What a dialog holds under configuration c.
DialogFits(lev, d, c) ==
    /\ d = [kind |-> d.kind, at |-> d.at, taken |-> d.taken, form |-> d.form, plan |-> d.plan,
            stale |-> d.stale]
    /\ d.kind = "outbound" => FormFits(d.form)
    /\ d.kind = "rule" => RuleFits(lev, d.form)
    /\ d.kind = "balancer" => Named(d.form)
    /\ d.kind = "outbound deletion" /\ ~d.stale =>
          d.at \in DOMAIN c.outbounds /\ d.plan = PlanOutboundDeletion(c, d.at)
    /\ d.kind = "balancer deletion" /\ ~d.stale =>
          d.at \in DOMAIN c.balancers /\ d.plan = PlanBalancerDeletion(c, d.at)

\* The page when its draft and its dialog fit at a level.
PageAt(lev) ==
    /\ Shaped(lev, draft) /\ Shaped(Loose, stored)
    /\ save = [phase |-> save.phase, config |-> save.config, doubt |-> save.doubt]
    /\ Shaped(Loose, save.config)
    /\ DialogFits(lev, dialog, draft)
    /\ left \in Lefts

PageInv == PageAt(Loose)

\* What a step keeps: the invariant, and at every level what an edit starts from.
Landed(lev) == PageInv' /\ (Edited => Shaped(lev, draft'))

\* A step that is no confirmation of a deletion.
Quiet == left'.edits = left.edits \/ dialog.kind \notin {"outbound deletion", "balancer deletion"}

Passed(lev) == Landed(lev) /\ Quiet

\* What fits at the upper level fits at the lower one.
LEMMA LowerLevel ==
  ASSUME NEW lev
  PROVE  /\ \A r : RuleFits(lev, r) => RuleFits(Loose, r)
         /\ \A c : Shaped(lev, c) => Shaped(Loose, c)
         /\ PageAt(lev) => PageInv
<1>1. ASSUME NEW r, RuleFits(lev, r) PROVE RuleFits(Loose, r)
  <2>1. Loose # Led
    BY DEF Loose, Led
  <2> QED BY <1>1, <2>1, Zenon DEF RuleFits
<1>2. ASSUME NEW c, Shaped(lev, c) PROVE Shaped(Loose, c)
  <2>1. IsConfig(c) /\ OutboundList(c.outbounds) /\ RuleList(lev, c.rules) /\ BalancerList(c.balancers)
    BY <1>2, Zenon DEF Shaped
  <2>2. RuleList(Loose, c.rules)
    BY <1>1, <2>1, Zenon DEF RuleList
  <2> QED BY <2>1, <2>2, Zenon DEF Shaped
<1>3. ASSUME NEW d, NEW c, DialogFits(lev, d, c) PROVE DialogFits(Loose, d, c)
  BY <1>1, <1>3, Zenon DEF DialogFits
<1> QED BY <1>1, <1>2, <1>3, Zenon DEF PageInv, PageAt

\* The upper level is the lower one and rules of loopbacks that lead.
LEMMA UpperLevel ==
  ASSUME NEW c
  PROVE  /\ Shaped(Loose, c) /\ LoopbacksLead(c) => Shaped(Led, c)
         /\ Shaped(Led, c) => LoopbacksLead(c)
<1>1. ASSUME Shaped(Loose, c), LoopbacksLead(c) PROVE Shaped(Led, c)
  <2>1. IsConfig(c) /\ OutboundList(c.outbounds) /\ RuleList(Loose, c.rules) /\ BalancerList(c.balancers)
    BY <1>1, Zenon DEF Shaped
  <2> DEFINE X == Range(c.rules)
  <2>2. c.rules \in Seq(X)
    BY <2>1, ListsAre, Zenon
  <2>3. ASSUME NEW r \in X PROVE RuleFits(Led, r)
    <3>1. RuleFits(Loose, r)
      BY <2>1, <2>3, ElementsFit, Zenon DEF Range
    <3>2. LeadsOnly(r)
      BY <1>1, <2>3, Zenon DEF LoopbacksLead, LeadsOnly
    <3> QED BY <3>1, <3>2, Zenon DEF RuleFits
  <2>4. RuleList(Led, c.rules)
    BY <2>2, <2>3, Zenon DEF RuleList
  <2> QED BY <2>1, <2>4, Zenon DEF Shaped
<1>2. ASSUME Shaped(Led, c) PROVE LoopbacksLead(c)
  <2>1. RuleList(Led, c.rules)
    BY <1>2, Zenon DEF Shaped
  <2>2. ASSUME NEW r \in Range(c.rules) PROVE LeadsOnly(r)
    <3>1. RuleFits(Led, r)
      BY <2>1, <2>2, ElementsFit, Zenon DEF Range
    <3> QED BY <3>1, Zenon DEF RuleFits
  <2> QED BY <2>2, Zenon DEF LoopbacksLead, LeadsOnly
<1> QED BY <1>1, <1>2

\* The page reaches the upper level when its draft and the rule in its dialog do.
LEMMA Rises ==
  ASSUME PageInv, LoopbacksLead(draft), dialog.kind = "rule" => LeadsOnly(dialog.form)
  PROVE  PageAt(Led)
<1>1. Shaped(Led, draft)
  BY UpperLevel, Zenon DEF PageInv, PageAt
<1>2. dialog.kind = "rule" => RuleFits(Led, dialog.form)
  BY Zenon DEF PageInv, PageAt, DialogFits, RuleFits
<1>3. DialogFits(Led, dialog, draft)
  BY <1>2, Zenon DEF PageInv, PageAt, DialogFits
<1> QED BY <1>1, <1>3, Zenon DEF PageInv, PageAt

\* No dialog fits every configuration.
LEMMA ClosedFits == ASSUME NEW lev, NEW c PROVE DialogFits(lev, Closed, c)
<1> DEFINE p == NoPlan
           d == [kind |-> "none", at |-> 0, taken |-> {}, form |-> << >>, plan |-> p, stale |-> FALSE]
<1>1. Closed = d
  BY Zenon DEF Closed
<1> HIDE DEF p
<1>2. DialogFits(lev, d, c)
  BY SMT DEF DialogFits
<1> QED BY <1>1, <1>2

LEMMA NoneFits ==
  ASSUME NEW lev, NEW d, NEW c, DialogFits(lev, d, c), d.kind = "none"
  PROVE  \A e : DialogFits(Loose, d, e)
BY SMT DEF DialogFits

\* A step spends from one budget only.
LEMMA SpentFits ==
  ASSUME left \in Lefts
  PROVE  /\ left.edits > 0 => [left EXCEPT !.edits = @ - 1] \in Lefts
         /\ left.saves > 0 => [left EXCEPT !.saves = @ - 1] \in Lefts
                              /\ [left EXCEPT !.saves = @ - 1].edits = left.edits
         /\ left.refreshes > 0 => [left EXCEPT !.refreshes = @ - 1] \in Lefts
                                  /\ [left EXCEPT !.refreshes = @ - 1].edits = left.edits
         /\ left.form > 0 => [left EXCEPT !.form = @ - 1] \in Lefts
                             /\ [left EXCEPT !.form = @ - 1].edits = left.edits
<1>1. left.edits > 0 => [left EXCEPT !.edits = @ - 1] \in Lefts
  BY SMT DEF Lefts
<1>2. left.saves > 0 => [left EXCEPT !.saves = @ - 1] \in Lefts /\ [left EXCEPT !.saves = @ - 1].edits = left.edits
  BY SMT DEF Lefts
<1>3. left.refreshes > 0 => [left EXCEPT !.refreshes = @ - 1] \in Lefts /\ [left EXCEPT !.refreshes = @ - 1].edits = left.edits
  BY SMT DEF Lefts
<1>4. left.form > 0 => [left EXCEPT !.form = @ - 1] \in Lefts /\ [left EXCEPT !.form = @ - 1].edits = left.edits
  BY SMT DEF Lefts
<1> QED BY <1>1, <1>2, <1>3, <1>4

\* Steps that open a dialog, mutate the draft, confirm a dialog or edit a form.
LEMMA Unedited ==
  ASSUME NEW lev, PageAt(lev), PageInv', left'.edits = left.edits
  PROVE  Passed(lev)
<1>1. left.edits \in Nat
  BY Zenon DEF PageAt, Lefts
<1>2. ~Edited
  BY <1>1 DEF Edited
<1> QED BY <1>2, Zenon DEF Passed, Landed, Quiet

LEMMA OpenPasses ==
  ASSUME NEW lev, PageAt(lev), NEW d, Open(d), DialogFits(Loose, d, draft)
  PROVE  Passed(lev)
<1>1. UNCHANGED << stored, draft, save, left >> /\ dialog' = d
  BY Zenon DEF Open, server, query
<1>2. PageInv
  BY LowerLevel, Zenon
<1>3. PageInv'
  BY <1>1, <1>2, Zenon DEF PageInv, PageAt
<1> QED BY <1>1, <1>3, Unedited, Zenon

LEMMA MutatePasses ==
  ASSUME NEW lev, PageAt(lev), NEW c, Mutate(c), Shaped(lev, c), DialogFits(Loose, dialog', c)
  PROVE  Landed(lev)
<1>1. UNCHANGED << stored, save >> /\ draft' = c /\ left' = [left EXCEPT !.edits = @ - 1] /\ left.edits > 0
  BY Zenon DEF Mutate, server, query
<1>2. left' \in Lefts
  BY <1>1, SpentFits, Zenon DEF PageAt
<1>3. PageInv /\ Shaped(Loose, c)
  BY LowerLevel, Zenon
<1>4. PageInv'
  BY <1>1, <1>2, <1>3, Zenon DEF PageInv, PageAt
<1> QED BY <1>1, <1>4 DEF Landed

LEMMA ConfirmPasses ==
  ASSUME NEW lev, PageAt(lev), NEW c, Confirm(c), Shaped(lev, c)
  PROVE  Landed(lev)
<1>1. Mutate(c) /\ dialog' = Closed
  BY Zenon DEF Confirm
<1>2. DialogFits(Loose, dialog', c)
  BY <1>1, ClosedFits
<1> QED BY <1>1, <1>2, MutatePasses, Zenon

LEMMA EditFormPasses ==
  ASSUME NEW lev, PageAt(lev), NEW form, EditForm(form), FormFits(form)
  PROVE  Passed(lev)
<1>1. /\ UNCHANGED << stored, save, draft >> /\ dialog.kind = "outbound"
      /\ left' = [left EXCEPT !.form = @ - 1] /\ left.form > 0
      /\ dialog' = [dialog EXCEPT !.form = form]
  BY Zenon DEF EditForm, server, query
<1>2. left' \in Lefts /\ left'.edits = left.edits
  BY <1>1, SpentFits, Zenon DEF PageAt
<1>3. DialogFits(Loose, dialog', draft)
  <2>1. DialogFits(lev, dialog, draft)
    BY Zenon DEF PageAt
  <2>2. /\ dialog' = [kind |-> dialog.kind, at |-> dialog.at, taken |-> dialog.taken, form |-> form,
                      plan |-> dialog.plan, stale |-> dialog.stale]
    BY <1>1, <2>1, SMT DEF DialogFits
  <2>3. /\ dialog'.kind = "outbound" /\ dialog'.form = form
        /\ dialog' = [kind |-> dialog'.kind, at |-> dialog'.at, taken |-> dialog'.taken,
                      form |-> dialog'.form,
                      plan |-> dialog'.plan, stale |-> dialog'.stale]
    <3>1. \A k, a, t, f, p, l :
             LET d == [kind |-> k, at |-> a, taken |-> t, form |-> f, plan |-> p, stale |-> l]
             IN  /\ d.kind = k /\ d.form = f
                 /\ d = [kind |-> d.kind, at |-> d.at, taken |-> d.taken, form |-> d.form,
                         plan |-> d.plan, stale |-> d.stale]
      OBVIOUS
    <3> DEFINE k == dialog.kind
               a == dialog.at
               t == dialog.taken
               p == dialog.plan
               l == dialog.stale
    <3> HIDE DEF k, a, t, p, l
    <3>2. dialog' = [kind |-> k, at |-> a, taken |-> t, form |-> form, plan |-> p, stale |-> l]
      BY <2>2 DEF k, a, t, p, l
    <3>3. k = "outbound"
      BY <1>1 DEF k
    <3> QED BY <3>1, <3>2, <3>3
  <2>4. /\ dialog'.kind # "rule" /\ dialog'.kind # "balancer"
        /\ dialog'.kind # "outbound deletion" /\ dialog'.kind # "balancer deletion"
    BY <2>3
  <2>5. FormFits(dialog'.form)
    BY <2>3
  <2> QED BY <2>3, <2>4, <2>5, Zenon DEF DialogFits
<1>4. PageInv
  BY LowerLevel, Zenon
<1>5. PageInv'
  BY <1>1, <1>2, <1>3, <1>4, Zenon DEF PageInv, PageAt
<1> QED BY <1>2, <1>5, Unedited, Zenon

\* Only the confirmation of a deletion announces anything.
LEMMA OtherKinds ==
  ASSUME dialog.kind \in {"none", "outbound", "rule", "balancer", "rule deletion", "warp", "nord", "nord logout"}
  PROVE  Quiet
BY DEF Quiet

\* What a kind of dialog must hold, and a dialog just opened.
Holds(lev, k, i, f, p, c) ==
    /\ k = "outbound" => FormFits(f)
    /\ k = "rule" => RuleFits(lev, f)
    /\ k = "balancer" => Named(f)
    /\ k = "outbound deletion" => i \in DOMAIN c.outbounds /\ p = PlanOutboundDeletion(c, i)
    /\ k = "balancer deletion" => i \in DOMAIN c.balancers /\ p = PlanBalancerDeletion(c, i)

IsOpened(d, k, i, t, f, p) == d = [kind |-> k, at |-> i, taken |-> t, form |-> f, plan |-> p, stale |-> FALSE]

\* A dialog just opened fits when what it was opened with does.
LEMMA DialogMade ==
  ASSUME NEW lev, NEW k, NEW i, NEW t, NEW f, NEW p, NEW c, Holds(lev, k, i, f, p, c), NEW d, IsOpened(d, k, i, t, f, p)
  PROVE  DialogFits(lev, d, c)
<1>1. /\ d.kind = k /\ d.at = i /\ d.form = f /\ d.plan = p
      /\ d = [kind |-> d.kind, at |-> d.at, taken |-> d.taken, form |-> d.form, plan |-> d.plan,
              stale |-> d.stale]
  BY DEF IsOpened
<1> QED BY <1>1, Zenon DEF DialogFits, Holds

LEMMA DialogEdits ==
  ASSUME NEW k, NEW i, NEW x, NEW y
  PROVE  /\ IsOpened([Closed EXCEPT !.kind = k], k, 0, {}, << >>, NoPlan)
         /\ IsOpened([Closed EXCEPT !.kind = k, !.at = i], k, i, {}, << >>, NoPlan)
         /\ IsOpened([Closed EXCEPT !.kind = k, !.at = i, !.form = x], k, i, {}, x, NoPlan)
         /\ IsOpened([Closed EXCEPT !.kind = k, !.at = i, !.plan = x], k, i, {}, << >>, x)
         /\ IsOpened([Closed EXCEPT !.kind = k, !.at = i, !.form = x, !.taken = y], k, i, y, x, NoPlan)
<1> DEFINE p == NoPlan
           z == {}
           e == << >>
           n == "none"
           w == 0
           q == FALSE
           c == [kind |-> n, at |-> w, taken |-> z, form |-> e, plan |-> p, stale |-> q]
           d1 == [c EXCEPT !.kind = k]
           d2 == [d1 EXCEPT !.at = i]
           d3 == [d2 EXCEPT !.form = x]
           d4 == [d2 EXCEPT !.plan = x]
           d5 == [d3 EXCEPT !.taken = y]
<1>1. Closed = c
  BY Zenon DEF Closed
<1> HIDE DEF p, z, e, n, w, q
<1>2. d1 = [kind |-> k, at |-> w, taken |-> z, form |-> e, plan |-> p, stale |-> q]
  OBVIOUS
<1> HIDE DEF d1
<1>3. d2 = [kind |-> k, at |-> i, taken |-> z, form |-> e, plan |-> p, stale |-> q]
  BY <1>2
<1> HIDE DEF d2
<1>4. d3 = [kind |-> k, at |-> i, taken |-> z, form |-> x, plan |-> p, stale |-> q]
  BY <1>3
<1>5. d4 = [kind |-> k, at |-> i, taken |-> z, form |-> e, plan |-> x, stale |-> q]
  BY <1>3
<1> HIDE DEF d3
<1>6. d5 = [kind |-> k, at |-> i, taken |-> y, form |-> x, plan |-> p, stale |-> q]
  BY <1>4
<1> HIDE DEF c, d4, d5
<1>7. /\ IsOpened(d1, k, 0, {}, << >>, NoPlan)
      /\ IsOpened(d2, k, i, {}, << >>, NoPlan)
      /\ IsOpened(d3, k, i, {}, x, NoPlan)
      /\ IsOpened(d4, k, i, {}, << >>, x)
      /\ IsOpened(d5, k, i, y, x, NoPlan)
  BY <1>2, <1>3, <1>4, <1>5, <1>6, Zenon DEF IsOpened, p, z, e, w, q
<1>8. /\ d1 = [Closed EXCEPT !.kind = k]
      /\ d2 = [Closed EXCEPT !.kind = k, !.at = i]
      /\ d3 = [Closed EXCEPT !.kind = k, !.at = i, !.form = x]
      /\ d4 = [Closed EXCEPT !.kind = k, !.at = i, !.plan = x]
      /\ d5 = [Closed EXCEPT !.kind = k, !.at = i, !.form = x, !.taken = y]
  BY <1>1, Zenon DEF d1, d2, d3, d4, d5
<1> QED BY <1>7, <1>8

LEMMA OpenedOn ==
  ASSUME NEW lev, NEW k, NEW i, NEW taken, NEW form, NEW plan, NEW c
  PROVE  /\ FormFits(form) =>
              DialogFits(lev, [Closed EXCEPT !.kind = "outbound", !.at = i, !.form = form, !.taken = taken], c)
         /\ RuleFits(lev, form) => DialogFits(lev, [Closed EXCEPT !.kind = "rule", !.at = i, !.form = form], c)
         /\ Named(form) => DialogFits(lev, [Closed EXCEPT !.kind = "balancer", !.at = i, !.form = form], c)
         /\ DialogFits(lev, [Closed EXCEPT !.kind = "rule deletion", !.at = i], c)
         /\ k \in {"warp", "nord"} => DialogFits(lev, [Closed EXCEPT !.kind = k], c)
         /\ i \in DOMAIN c.outbounds /\ plan = PlanOutboundDeletion(c, i) =>
              DialogFits(lev, [Closed EXCEPT !.kind = "outbound deletion", !.at = i, !.plan = plan], c)
         /\ i \in DOMAIN c.balancers /\ plan = PlanBalancerDeletion(c, i) =>
              DialogFits(lev, [Closed EXCEPT !.kind = "balancer deletion", !.at = i, !.plan = plan], c)
<1>1. ASSUME FormFits(form)
      PROVE  DialogFits(lev, [Closed EXCEPT !.kind = "outbound", !.at = i, !.form = form, !.taken = taken], c)
  <2> DEFINE d == [Closed EXCEPT !.kind = "outbound", !.at = i, !.form = form, !.taken = taken]
  <2>1. IsOpened(d, "outbound", i, taken, form, NoPlan)
    BY DialogEdits, Zenon
  <2>2. Holds(lev, "outbound", i, form, NoPlan, c)
    BY <1>1 DEF Holds
  <2> HIDE DEF d
  <2>3. DialogFits(lev, d, c)
    BY <2>1, <2>2, DialogMade, Zenon
  <2> QED BY <2>3 DEF d
<1>2. ASSUME RuleFits(lev, form) PROVE DialogFits(lev, [Closed EXCEPT !.kind = "rule", !.at = i, !.form = form], c)
  <2> DEFINE d == [Closed EXCEPT !.kind = "rule", !.at = i, !.form = form]
  <2>1. IsOpened(d, "rule", i, {}, form, NoPlan)
    BY DialogEdits, Zenon
  <2>2. Holds(lev, "rule", i, form, NoPlan, c)
    BY <1>2 DEF Holds
  <2> HIDE DEF d
  <2>3. DialogFits(lev, d, c)
    BY <2>1, <2>2, DialogMade, Zenon
  <2> QED BY <2>3 DEF d
<1>3. ASSUME Named(form) PROVE DialogFits(lev, [Closed EXCEPT !.kind = "balancer", !.at = i, !.form = form], c)
  <2> DEFINE d == [Closed EXCEPT !.kind = "balancer", !.at = i, !.form = form]
  <2>1. IsOpened(d, "balancer", i, {}, form, NoPlan)
    BY DialogEdits, Zenon
  <2>2. Holds(lev, "balancer", i, form, NoPlan, c)
    BY <1>3 DEF Holds
  <2> HIDE DEF d
  <2>3. DialogFits(lev, d, c)
    BY <2>1, <2>2, DialogMade, Zenon
  <2> QED BY <2>3 DEF d
<1>4. ASSUME TRUE PROVE DialogFits(lev, [Closed EXCEPT !.kind = "rule deletion", !.at = i], c)
  <2> DEFINE d == [Closed EXCEPT !.kind = "rule deletion", !.at = i]
  <2>1. IsOpened(d, "rule deletion", i, {}, << >>, NoPlan)
    BY DialogEdits, Zenon
  <2>2. Holds(lev, "rule deletion", i, << >>, NoPlan, c)
    BY <1>4 DEF Holds
  <2> HIDE DEF d
  <2>3. DialogFits(lev, d, c)
    BY <2>1, <2>2, DialogMade, Zenon
  <2> QED BY <2>3 DEF d
<1>5. ASSUME k \in {"warp", "nord"} PROVE DialogFits(lev, [Closed EXCEPT !.kind = k], c)
  <2> DEFINE d == [Closed EXCEPT !.kind = k]
  <2>1. IsOpened(d, k, 0, {}, << >>, NoPlan)
    BY DialogEdits, Zenon
  <2>2. Holds(lev, k, 0, << >>, NoPlan, c)
    BY <1>5 DEF Holds
  <2> HIDE DEF d
  <2>3. DialogFits(lev, d, c)
    BY <2>1, <2>2, DialogMade, Zenon
  <2> QED BY <2>3 DEF d
<1>6. ASSUME i \in DOMAIN c.outbounds, plan = PlanOutboundDeletion(c, i)
      PROVE  DialogFits(lev, [Closed EXCEPT !.kind = "outbound deletion", !.at = i, !.plan = plan], c)
  <2> DEFINE d == [Closed EXCEPT !.kind = "outbound deletion", !.at = i, !.plan = plan]
  <2>1. IsOpened(d, "outbound deletion", i, {}, << >>, plan)
    BY DialogEdits, Zenon
  <2>2. Holds(lev, "outbound deletion", i, << >>, plan, c)
    BY <1>6 DEF Holds
  <2> HIDE DEF d
  <2>3. DialogFits(lev, d, c)
    BY <2>1, <2>2, DialogMade, Zenon
  <2> QED BY <2>3 DEF d
<1>7. ASSUME i \in DOMAIN c.balancers, plan = PlanBalancerDeletion(c, i)
      PROVE  DialogFits(lev, [Closed EXCEPT !.kind = "balancer deletion", !.at = i, !.plan = plan], c)
  <2> DEFINE d == [Closed EXCEPT !.kind = "balancer deletion", !.at = i, !.plan = plan]
  <2>1. IsOpened(d, "balancer deletion", i, {}, << >>, plan)
    BY DialogEdits, Zenon
  <2>2. Holds(lev, "balancer deletion", i, << >>, plan, c)
    BY <1>7 DEF Holds
  <2> HIDE DEF d
  <2>3. DialogFits(lev, d, c)
    BY <2>1, <2>2, DialogMade, Zenon
  <2> QED BY <2>3 DEF d
<1> QED BY <1>1, <1>2, <1>3, <1>4, <1>5, <1>6, <1>7, Zenon

\* A row is the position of an outbound or of a rule, though not its own, and
\* what follows it has a position.
LEMMA RowsAre ==
  ASSUME NEW lev, PageAt(lev)
  PROVE  /\ OutboundRows \subseteq DOMAIN draft.outbounds
         /\ \A i \in OutboundRows : i + 1 \in OutboundRows => i < Len(draft.outbounds)
         /\ RuleRows \subseteq DOMAIN draft.rules
         /\ \A i \in RuleRows : i + 1 \in RuleRows => i < Len(draft.rules)
<1>1. ASSUME NEW n \in Nat, NEW I \in SUBSET (1..n), NEW i \in 1..Cardinality(I)
      PROVE  i \in 1..n /\ (i + 1 \in 1..Cardinality(I) => i < n)
  <2>1. Cardinality(I) \in 0..n
    BY Counted, Zenon
  <2> HIDE DEF Cardinality
  <2> QED BY <2>1, SMT
<1> DEFINE m == Len(draft.outbounds)
           n == Len(draft.rules)
           I == { i \in DOMAIN draft.outbounds : ~IsLoopback(draft.outbounds[i].tag) }
           J == { i \in DOMAIN draft.rules : ~IsLoopback(draft.rules[i].inbound) }
<1>2. Shaped(lev, draft)
  BY Zenon DEF PageAt
<1>3. m \in Nat /\ DOMAIN draft.outbounds = 1..m /\ n \in Nat /\ DOMAIN draft.rules = 1..n
  BY <1>2, Lists, Zenon
<1>4. OutboundRows = 1..Cardinality(I) /\ RuleRows = 1..Cardinality(J)
  BY DEF OutboundRows, RuleRows
<1>5. I \in SUBSET (1..m) /\ J \in SUBSET (1..n)
  BY <1>3
<1> HIDE DEF m, n, I, J
<1>6. \A i \in OutboundRows : i \in 1..m /\ (i + 1 \in OutboundRows => i < m)
  BY <1>1, <1>3, <1>4, <1>5, Zenon
<1>7. \A i \in RuleRows : i \in 1..n /\ (i + 1 \in RuleRows => i < n)
  BY <1>1, <1>3, <1>4, <1>5, Zenon
<1> QED BY <1>3, <1>6, <1>7, Zenon DEF m, n

\* The actions of the outbounds tab (OutboundsTab.tsx).
LEMMA OutboundDialogs ==
  ASSUME NEW lev, PageAt(lev), NEW i
  PROVE  /\ i \in OutboundRows \cup {0} /\ OpenOutbound(i) => Passed(lev)
         /\ i \in OutboundRows /\ OpenOutboundDeletion(i) => Passed(lev)
<1>1. ASSUME i \in OutboundRows \cup {0}, OpenOutbound(i) PROVE Passed(lev)
  <2> DEFINE o == IF i = 0 THEN NewOutbound ELSE draft.outbounds[i]
             taken == { draft.outbounds[j].tag : j \in DOMAIN draft.outbounds \ {i} }
             form == FormOn(o)
             d == [Closed EXCEPT !.kind = "outbound", !.at = i, !.form = form, !.taken = taken]
  <2>1. Open(d)
    BY <1>1 DEF OpenOutbound
  <2>2. OutboundFits(o)
    <3>1. i # 0 => i \in DOMAIN draft.outbounds
      BY <1>1, RowsAre, Zenon
    <3> QED BY <3>1, MadeOutbounds, ElementsFit, Zenon DEF PageAt, Shaped
  <2> HIDE DEF o, taken
  <2>3. FormFits(form)
    BY <2>2, OpenedFits, Zenon
  <2> HIDE DEF form
  <2>4. DialogFits(Loose, d, draft)
    BY <2>3, OpenedOn, Zenon
  <2> QED BY <2>1, <2>4, OpenPasses, Zenon
<1>2. ASSUME i \in OutboundRows, OpenOutboundDeletion(i) PROVE Passed(lev)
  <2> DEFINE plan == PlanOutboundDeletion(draft, i)
             d == [Closed EXCEPT !.kind = "outbound deletion", !.at = i, !.plan = plan]
  <2>1. Open(d)
    BY <1>2, Zenon DEF OpenOutboundDeletion
  <2>2. DialogFits(Loose, d, draft)
    <3>1. i \in DOMAIN draft.outbounds
      BY <1>2, RowsAre, Zenon
    <3> QED BY <3>1, OpenedOn, Zenon
  <2> QED BY <2>1, <2>2, OpenPasses, Zenon
<1> QED BY <1>1, <1>2, Zenon

LEMMA OutboundConfirmed ==
  ASSUME NEW lev, PageAt(lev), NEW tag, NEW to, ConfirmOutbound(tag, to)
  PROVE  Passed(lev)
<1> DEFINE form == dialog.form
           v    == form.values
           o    == Confirmed(tag, to)
           w    == ToWire(o)
           put  == [draft EXCEPT !.outbounds = Put(@, dialog.at, w)]
           old  == draft.outbounds[dialog.at].tag
           c    == IF dialog.at \in DOMAIN draft.outbounds /\ old # tag
                   THEN PropagateOutboundTagRename(put, old, tag) ELSE put
<1>1. dialog.kind = "outbound" /\ Confirm(c)
  BY DEF ConfirmOutbound
<1>2. FormFits(form) /\ Shaped(lev, draft)
  BY <1>1, Zenon DEF PageAt, DialogFits
<1>3. OutboundFits(o)
  <2> DEFINE x == [v EXCEPT !.tag = tag]
             y == FromWire(form.text.of)
  <2>1. o = y \/ o = [x EXCEPT !.server = to]
    BY Zenon DEF Confirmed
  <2>2. OutboundFits(v) /\ OutboundFits(form.text.of)
    BY <1>2, Zenon DEF FormFits
  <2> HIDE DEF v
  <2>3. OutboundFits(x) /\ OutboundFits(y)
    BY <2>2, OutboundField, FromWireFits, Zenon
  <2> HIDE DEF x, y
  <2>4. OutboundFits([x EXCEPT !.server = to])
    BY <2>3, OutboundField, Zenon
  <2> QED BY <2>1, <2>3, <2>4
<1> HIDE DEF o
<1>4. OutboundFits(w)
  BY <1>3, ToWireFits, Zenon
<1> HIDE DEF w
<1>5. Shaped(lev, put)
  <2> DEFINE os == Put(draft.outbounds, dialog.at, w)
  <2>1. OutboundList(os)
    BY <1>2, <1>4, OutboundEdits, Zenon DEF Shaped
  <2> HIDE DEF os
  <2>2. Shaped(lev, [draft EXCEPT !.outbounds = os])
    BY <1>2, <2>1, EditsShaped, Zenon
  <2> QED BY <2>2 DEF os
<1> HIDE DEF put
<1>6. Shaped(lev, c)
  BY <1>5, RenameShaped, Zenon
<1> HIDE DEF c
<1>7. Landed(lev)
  BY <1>1, <1>6, ConfirmPasses, Zenon
<1>8. Quiet
  BY <1>1, OtherKinds
<1> QED BY <1>7, <1>8 DEF Passed

LEMMA SwapFits ==
  ASSUME NEW lev, NEW s, NEW i \in DOMAIN s
  PROVE  /\ OutboundList(s) /\ i < Len(s) => OutboundList(Swap(s, i))
         /\ OutboundList(s) => OutboundList(ToFront(s, i))
         /\ RuleList(lev, s) /\ i < Len(s) => RuleList(lev, Swap(s, i))
<1>1. OutboundList(s) => OutboundFits(s[i])
  BY ElementsFit, Zenon
<1>2. RuleList(lev, s) => RuleFits(lev, s[i])
  BY ElementsFit, Zenon
<1> QED BY <1>1, <1>2, OutboundEdits, RuleEdits, Zenon

LEMMA OutboundMoved ==
  ASSUME NEW lev, PageAt(lev), NEW i \in OutboundRows, MoveOutbound(i)
  PROVE  Passed(lev)
<1> DEFINE os == draft.outbounds
           s  == Swap(os, i)
           f  == ToFront(os, i)
<1>1. OutboundList(os) /\ Shaped(lev, draft) /\ DialogFits(lev, dialog, draft)
  BY Zenon DEF PageAt, Shaped
<1>a. i \in DOMAIN os /\ (i + 1 \in OutboundRows => i < Len(os))
  BY RowsAre, Zenon
<1>2. dialog.kind = "none" /\ UNCHANGED dialog
  BY Zenon DEF MoveOutbound
<1>3. PICK ns : /\ (ns = s /\ i < Len(os)) \/ ns = f
                /\ Mutate([draft EXCEPT !.outbounds = ns])
  BY <1>a, Zenon DEF MoveOutbound
<1>4. OutboundList(ns)
  <2>1. OutboundList(f) /\ (i < Len(os) => OutboundList(s))
    BY <1>1, <1>a, SwapFits, Zenon
  <2> HIDE DEF s, f
  <2> QED BY <1>3, <2>1
<1> DEFINE c == [draft EXCEPT !.outbounds = ns]
<1>5. Shaped(lev, c)
  BY <1>1, <1>4, EditsShaped, Zenon
<1>6. DialogFits(Loose, dialog, c)
  BY <1>1, <1>2, NoneFits, Zenon
<1> HIDE DEF c
<1>7. Landed(lev)
  <2>1. Mutate(c)
    BY <1>3 DEF c
  <2>2. DialogFits(Loose, dialog', c)
    BY <1>2, <1>6
  <2> QED BY <1>5, <2>1, <2>2, MutatePasses, Zenon
<1>8. Quiet
  BY <1>2, OtherKinds
<1> QED BY <1>7, <1>8 DEF Passed

LEMMA OutboundsPass ==
  ASSUME NEW lev, PageAt(lev), EditOutbounds
  PROVE  Passed(lev) \/ ConfirmOutboundDeletion
BY OutboundDialogs, OutboundConfirmed, OutboundMoved, Zenon DEF EditOutbounds, ConfirmOutbounds

\* Only an open outbound form is edited.
LEMMA FormOpen ==
  ASSUME NEW lev, PageAt(lev), dialog.kind = "outbound"
  PROVE  FormFits(dialog.form) /\ OutboundFits(dialog.form.values) /\ OutboundFits(dialog.form.text.of)
BY Zenon DEF PageAt, DialogFits, FormFits

\* The actions of the outbound form (OutboundFormModal.tsx).
LEMMA ControlPasses ==
  ASSUME NEW lev, PageAt(lev), dialog.kind = "outbound", NEW control, NEW v, OutboundFits(v), UseControl(control, v)
  PROVE  Passed(lev)
<1> DEFINE f == dialog.form
           w == Effects(v)
           t == f.touched \cup {control}
           g == [f EXCEPT !.values = w]
           h == [g EXCEPT !.touched = t]
<1>1. FormFits(f)
  BY FormOpen, Zenon
<1>2. EditForm([f EXCEPT !.values = w, !.touched = @ \cup {control}])
  BY Zenon DEF UseControl
<1>3. OutboundFits(w)
  BY EffectsFit, Zenon
<1> HIDE DEF f, w
<1>4. FormFits(g)
  BY <1>1, <1>3, FormFields, Zenon
<1>5. [f EXCEPT !.values = w, !.touched = @ \cup {control}] = h
  <2>1. g.touched = f.touched
    BY <1>1 DEF FormFits
  <2> QED BY <2>1
<1> HIDE DEF g
<1>6. FormFits(h)
  BY <1>4, FormFields, Zenon
<1>7. EditForm(h)
  BY <1>2, <1>5
<1> HIDE DEF h
<1> QED BY <1>6, <1>7, EditFormPasses, Zenon

LEMMA ControlsPass == ASSUME NEW lev, PageAt(lev), UseControls PROVE Passed(lev)
<1> DEFINE v == dialog.form.values
<1>1. dialog.kind = "outbound" /\ OutboundFits(v)
  BY FormOpen, Zenon DEF UseControls
<1>2. ASSUME NEW p, UseControl(<< "protocol", p >>, ChangeProtocol(v, p)) PROVE Passed(lev)
  BY <1>1, <1>2, ControlsFit, ControlPasses, Zenon
<1>3. ASSUME NEW n, UseControl(<< "network", n >>, ChangeNetwork(v, n)) PROVE Passed(lev)
  BY <1>1, <1>3, ControlsFit, ControlPasses, Zenon
<1>4. ASSUME NEW s, UseControl(<< "security", s >>, ChangeSecurity(v, s)) PROVE Passed(lev)
  BY <1>1, <1>4, ControlsFit, ControlPasses, Zenon
<1>5. ASSUME NEW f, UseControl(<< "flow", f >>, [v EXCEPT !.flow = f]) PROVE Passed(lev)
  <2> HIDE DEF v
  <2>1. OutboundFits([v EXCEPT !.flow = f])
    BY <1>1, OutboundField, Zenon
  <2> QED BY <1>1, <1>5, <2>1, ControlPasses, Zenon
<1>6. ASSUME UseControl(<< "mux", "" >>, [v EXCEPT !.mux = ~@]) PROVE Passed(lev)
  <2> DEFINE m == ~v.mux
             w == [v EXCEPT !.mux = m]
  <2>1. UseControl(<< "mux", "" >>, w)
    BY <1>6
  <2> HIDE DEF v, m
  <2>2. OutboundFits(w)
    BY <1>1, OutboundField, Zenon
  <2> HIDE DEF w
  <2> QED BY <1>1, <2>1, <2>2, ControlPasses, Zenon
<1>7. \/ \E p : UseControl(<< "protocol", p >>, ChangeProtocol(v, p))
      \/ \E n : UseControl(<< "network", n >>, ChangeNetwork(v, n))
      \/ \E s : UseControl(<< "security", s >>, ChangeSecurity(v, s))
      \/ \E f : UseControl(<< "flow", f >>, [v EXCEPT !.flow = f])
      \/ UseControl(<< "mux", "" >>, [v EXCEPT !.mux = ~@])
  BY Zenon DEF UseControls
<1> HIDE DEF v
<1> QED BY <1>2, <1>3, <1>4, <1>5, <1>6, <1>7, Zenon

LEMMA TextFits ==
  ASSUME NEW f, FormFits(f), NEW tab, NEW dirty, NEW shape, NEW o, OutboundFits(o)
  PROVE  /\ FormFits([f EXCEPT !.tab = tab, !.dirty = dirty, !.text = [shape |-> shape, of |-> o]])
         /\ FormFits([f EXCEPT !.dirty = dirty, !.text = [shape |-> shape, of |-> o]])
         /\ FormFits([f EXCEPT !.tab = tab])
<1> DEFINE t == [shape |-> shape, of |-> o]
           a == [f EXCEPT !.tab = tab]
           b == [a EXCEPT !.dirty = dirty]
           c == [b EXCEPT !.text = t]
           d == [f EXCEPT !.dirty = dirty]
           e == [d EXCEPT !.text = t]
<1>1. t = [shape |-> t.shape, of |-> t.of] /\ OutboundFits(t.of)
  OBVIOUS
<1> HIDE DEF t
<1>2. FormFits(a) /\ FormFits(d)
  BY FormFields, Zenon
<1> HIDE DEF a, d
<1>3. FormFits(b) /\ FormFits(e)
  BY <1>1, <1>2, FormFields, Zenon
<1> HIDE DEF b, e
<1>4. FormFits(c)
  BY <1>1, <1>3, FormFields, Zenon
<1> HIDE DEF c
<1> QED BY <1>2, <1>3, <1>4 DEF a, b, c, d, e, t

LEMMA TabsPass ==
  ASSUME NEW lev, PageAt(lev), OpenJson \/ TypeJson \/ OpenBasic \/ RefuseText
  PROVE  Passed(lev)
<1> DEFINE f == dialog.form
<1>1. dialog.kind = "outbound" /\ FormFits(f) /\ OutboundFits(f.values) /\ OutboundFits(f.text.of)
  BY FormOpen, Zenon DEF OpenJson, TypeJson, OpenBasic, RefuseText
<1>2. CASE OpenJson
  <2> DEFINE w == ToWire(f.values)
             t == [shape |-> "object", of |-> w]
             g == [f EXCEPT !.tab = "json", !.dirty = FALSE, !.text = t]
  <2>1. EditForm(g)
    BY <1>2, Zenon DEF OpenJson
  <2>2. OutboundFits(w)
    BY <1>1, ToWireFits, Zenon
  <2> HIDE DEF f, w
  <2>3. FormFits(g)
    BY <1>1, <2>2, TextFits, Zenon
  <2> HIDE DEF g
  <2> QED BY <2>1, <2>3, EditFormPasses, Zenon
<1>3. CASE TypeJson
  <2>1. PICK shape \in {"object", "blank", "broken"}, o \in Texts :
          EditForm([f EXCEPT !.dirty = TRUE, !.text = [shape |-> shape, of |-> o]])
    BY <1>3, Zenon DEF TypeJson
  <2> DEFINE t == [shape |-> shape, of |-> o]
             g == [f EXCEPT !.dirty = TRUE, !.text = t]
  <2>2. OutboundFits(o)
    BY EditorAssumption, RecordsFit, Zenon
  <2>3. EditForm(g)
    BY <2>1
  <2> HIDE DEF f
  <2>4. FormFits(g)
    BY <1>1, <2>2, TextFits, Zenon
  <2> HIDE DEF g
  <2> QED BY <2>3, <2>4, EditFormPasses, Zenon
<1>4. CASE OpenBasic
  <2> DEFINE g == FormOn(f.text.of)
             h == [f EXCEPT !.tab = "basic"]
  <2>1. EditForm(g) \/ EditForm(h)
    BY <1>4 DEF OpenBasic
  <2>2. FormFits(g)
    BY <1>1, OpenedFits, Zenon
  <2> HIDE DEF f, g
  <2>3. FormFits(h)
    BY <1>1, FormFields, Zenon
  <2> HIDE DEF h
  <2> QED BY <2>1, <2>2, <2>3, EditFormPasses, Zenon
<1>5. CASE RefuseText
  <2> DEFINE g == FormOn(f.text.of)
             h == [g EXCEPT !.tab = "json"]
             k == [h EXCEPT !.text = f.text]
  <2>1. EditForm(k)
    BY <1>5, Zenon DEF RefuseText
  <2>2. FormFits(g)
    BY <1>1, OpenedFits, Zenon
  <2>3. f.text = [shape |-> f.text.shape, of |-> f.text.of]
    BY <1>1, Zenon DEF FormFits
  <2> HIDE DEF f, g
  <2>4. FormFits(h)
    BY <2>2, FormFields, Zenon
  <2> HIDE DEF h
  <2>5. FormFits(k)
    BY <1>1, <2>3, <2>4, FormFields, Zenon
  <2> HIDE DEF k
  <2> QED BY <2>1, <2>5, EditFormPasses, Zenon
<1> QED BY <1>2, <1>3, <1>4, <1>5

LEMMA ImportPasses ==
  ASSUME NEW lev, PageAt(lev), NEW link, NEW endpoint, ImportLink(link, endpoint)
  PROVE  Passed(lev)
<1> DEFINE e == << endpoint >>
<1>1. PICK o \in Range(ParseOutboundLink(link)) :
         EditForm([FormOn([o EXCEPT !.tag = IF @ = NoTag THEN dialog.form.values.tag ELSE @]) EXCEPT !.endpoint = e])
  BY Zenon DEF ImportLink
<1> DEFINE tag == IF o.tag = NoTag THEN dialog.form.values.tag ELSE o.tag
           v == [o EXCEPT !.tag = tag]
           f == FormOn(v)
           g == [f EXCEPT !.endpoint = e]
<1>2. EditForm(g)
  BY <1>1
<1>3. OutboundFits(o)
  BY LinksFit, Zenon
<1> HIDE DEF tag, e
<1>4. OutboundFits(v)
  BY <1>3, OutboundField, Zenon
<1> HIDE DEF v
<1>5. FormFits(f)
  BY <1>4, OpenedFits, Zenon
<1> HIDE DEF f
<1>6. FormFits(g)
  BY <1>5, FormFields, Zenon
<1> HIDE DEF g
<1> QED BY <1>2, <1>6, EditFormPasses, Zenon

LEMMA OutboundFormPasses == ASSUME NEW lev, PageAt(lev), EditOutboundForm PROVE Passed(lev)
<1>1. ImportLinks => Passed(lev)
  BY ImportPasses, Zenon DEF ImportLinks
<1> QED BY <1>1, ControlsPass, TabsPass, Zenon DEF EditOutboundForm

\* A confirmed change of one part of the draft, from another kind of dialog.
LEMMA PartConfirmed ==
  ASSUME NEW lev, PageAt(lev), NEW xs
  PROVE  /\ OutboundList(xs) /\ Confirm([draft EXCEPT !.outbounds = xs]) => Landed(lev)
         /\ RuleList(lev, xs) /\ Confirm([draft EXCEPT !.rules = xs]) => Landed(lev)
<1> DEFINE a == [draft EXCEPT !.outbounds = xs]
           b == [draft EXCEPT !.rules = xs]
<1>1. (OutboundList(xs) => Shaped(lev, a)) /\ (RuleList(lev, xs) => Shaped(lev, b))
  BY EditsShaped, Zenon DEF PageAt
<1>2. (Shaped(lev, a) /\ Confirm(a) => Landed(lev)) /\ (Shaped(lev, b) /\ Confirm(b) => Landed(lev))
  <2> HIDE DEF a, b
  <2> QED BY ConfirmPasses, Zenon
<1> QED BY <1>1, <1>2, Zenon

\* A change outside of any dialog.
LEMMA MutatedAlone ==
  ASSUME NEW lev, PageAt(lev), dialog.kind = "none", UNCHANGED dialog, NEW c, Shaped(lev, c), Mutate(c)
  PROVE  Passed(lev)
<1>1. DialogFits(lev, dialog, draft)
  BY Zenon DEF PageAt
<1>2. DialogFits(Loose, dialog', c)
  BY <1>1, NoneFits
<1>3. Quiet
  BY OtherKinds
<1> QED BY <1>2, <1>3, MutatePasses, Zenon DEF Passed

\* The actions of the routing tab and its basics (RoutingTab.tsx, RoutingBasic.tsx).
LEMMA RulesPass == ASSUME NEW lev, PageAt(lev), EditRules PROVE Passed(lev)
<1> DEFINE rs == draft.rules
<1>1. Shaped(lev, draft) /\ RuleList(lev, rs) /\ DialogFits(lev, dialog, draft)
  BY Zenon DEF PageAt, Shaped
<1>2. ASSUME NEW i, NEW to, OpenRule(i, to) PROVE Passed(lev)
  <2> DEFINE k == IF i = 0 THEN "domain" ELSE draft.rules[i].criterion
             n == IF i = 0 THEN NoTag ELSE draft.rules[i].inbound
             r == [inbound |-> n, criterion |-> k, outbound |-> to.outbound, balancer |-> to.balancer]
             d == [Closed EXCEPT !.kind = "rule", !.at = i, !.form = r]
  <2>1. RuleFits(Loose, r)
    <3>1. Loose # Led
      BY DEF Loose, Led
    <3> HIDE DEF k, n
    <3>2. r = [inbound |-> r.inbound, criterion |-> r.criterion, outbound |-> r.outbound,
               balancer |-> r.balancer]
      OBVIOUS
    <3> HIDE DEF r
    <3> QED BY <3>1, <3>2, Zenon DEF RuleFits
  <2>2. Open(d)
    BY <1>2, Zenon DEF OpenRule, RuleForm
  <2> HIDE DEF r
  <2>3. DialogFits(Loose, d, draft)
    BY <2>1, OpenedOn, Zenon
  <2> HIDE DEF d
  <2> QED BY <2>2, <2>3, OpenPasses, Zenon
<1>3. ASSUME ConfirmRule PROVE Passed(lev)
  <2> DEFINE f == dialog.form
             s == Put(rs, dialog.at, f)
  <2>1. dialog.kind = "rule" /\ Confirm([draft EXCEPT !.rules = s])
    BY <1>3 DEF ConfirmRule
  <2>2. RuleFits(lev, f)
    BY <1>1, <2>1, Zenon DEF DialogFits
  <2> HIDE DEF f
  <2>3. RuleList(lev, s)
    BY <1>1, <2>2, RuleEdits, Zenon
  <2> HIDE DEF s
  <2>4. Landed(lev)
    BY <2>1, <2>3, PartConfirmed, Zenon
  <2>5. Quiet
    BY <2>1, OtherKinds
  <2> QED BY <2>4, <2>5 DEF Passed
<1>4. ASSUME NEW i, OpenRuleDeletion(i) PROVE Passed(lev)
  <2> DEFINE d == [Closed EXCEPT !.kind = "rule deletion", !.at = i]
  <2>1. Open(d)
    BY <1>4, Zenon DEF OpenRuleDeletion
  <2>2. DialogFits(Loose, d, draft)
    BY OpenedOn, Zenon
  <2> HIDE DEF d
  <2> QED BY <2>1, <2>2, OpenPasses, Zenon
<1>5. ASSUME ConfirmRuleDeletion PROVE Passed(lev)
  <2> DEFINE s == Cut(rs, dialog.at)
  <2>1. dialog.kind = "rule deletion" /\ Confirm([draft EXCEPT !.rules = s])
    BY <1>5 DEF ConfirmRuleDeletion
  <2>2. RuleList(lev, s)
    <3>1. \E r : RuleFits(lev, r)
      BY MadeRules, Zenon
    <3> QED BY <1>1, <3>1, RuleEdits, Zenon
  <2> HIDE DEF s
  <2>3. Landed(lev)
    BY <2>1, <2>2, PartConfirmed, Zenon
  <2>4. Quiet
    BY <2>1, OtherKinds
  <2> QED BY <2>3, <2>4 DEF Passed
<1>6. ASSUME NEW i \in RuleRows, MoveRule(i) PROVE Passed(lev)
  <2> DEFINE s == Swap(rs, i)
             c == [draft EXCEPT !.rules = s]
  <2>1. dialog.kind = "none" /\ UNCHANGED dialog /\ i + 1 \in RuleRows /\ Mutate(c)
    BY <1>6, Zenon DEF MoveRule
  <2>a. i \in DOMAIN rs /\ i < Len(rs)
    BY <1>6, <2>1, RowsAre, Zenon
  <2>2. RuleList(lev, s)
    BY <1>1, <2>a, SwapFits, Zenon
  <2> HIDE DEF s
  <2>3. Shaped(lev, c)
    BY <1>1, <2>2, EditsShaped, Zenon
  <2> HIDE DEF c
  <2> QED BY <2>1, <2>3, MutatedAlone, Zenon
<1>7. ASSUME NEW tag, NEW criterion, NEW some, SetBasicRule(tag, criterion, some) PROVE Passed(lev)
  <2> DEFINE r == RuleSetter(draft, tag, criterion, some)
             c == IF tag = Out("blocked") THEN r ELSE SyncOutbound(r, tag)
  <2>1. dialog.kind = "none" /\ UNCHANGED dialog /\ Mutate(c)
    BY <1>7, Zenon DEF SetBasicRule
  <2>2. Shaped(lev, r)
    BY <1>1, SetterShaped, Zenon
  <2> HIDE DEF r
  <2>3. Shaped(lev, c)
    BY <2>2, SyncOutboundShaped, Zenon
  <2> HIDE DEF c
  <2> QED BY <2>1, <2>3, MutatedAlone, Zenon
<1>8. ASSUME NEW tag, SetDefaultOutbound(tag) PROVE Passed(lev)
  <2> DEFINE c == SetDefaultOutboundTag(draft, tag)
  <2>1. dialog.kind = "none" /\ UNCHANGED dialog /\ Mutate(c)
    BY <1>8, Zenon DEF SetDefaultOutbound
  <2>2. Shaped(lev, c)
    BY <1>1, SyncOutboundShaped, Zenon
  <2> HIDE DEF c
  <2> QED BY <2>1, <2>2, MutatedAlone, Zenon
<1> QED BY <1>2, <1>3, <1>4, <1>5, <1>6, <1>7, <1>8, Zenon DEF EditRules

\* The actions of the WARP and NordVPN dialogs (WarpModal.tsx, NordModal.tsx, XrayPage.tsx).
LEMMA ProvidersPass == ASSUME NEW lev, PageAt(lev), EditProviders PROVE Passed(lev)
<1> DEFINE os == draft.outbounds
           rs == draft.rules
<1>1. Shaped(lev, draft) /\ OutboundList(os) /\ RuleList(lev, rs) /\ DialogFits(lev, dialog, draft)
  BY Zenon DEF PageAt, Shaped
<1>2. ASSUME NEW k \in {"warp", "nord"}, OpenProvider(k) PROVE Passed(lev)
  <2> DEFINE d == [Closed EXCEPT !.kind = k]
  <2>1. Open(d)
    BY <1>2, Zenon DEF OpenProvider
  <2>2. DialogFits(Loose, d, draft)
    BY OpenedOn, Zenon
  <2> HIDE DEF d
  <2> QED BY <2>1, <2>2, OpenPasses, Zenon
<1>3. ASSUME NEW tag, PutProvider(tag) PROVE Passed(lev)
  <2> DEFINE at  == IndexOf(IF tag = Warp THEN {Warp} ELSE Nord)
             o   == ProviderOf(tag)
             s   == Put(os, at, o)
             put == [draft EXCEPT !.outbounds = s]
             old == os[at].tag
             c   == IF tag \in Nord /\ at > 0 THEN PropagateOutboundTagRename(put, old, tag) ELSE put
  <2>1. dialog.kind \in {"warp", "nord"} /\ Confirm(c)
    BY <1>3 DEF PutProvider
  <2>2. OutboundFits(o)
    BY MadeOutbounds, Zenon
  <2> HIDE DEF o, at, os
  <2>3. OutboundList(s)
    BY <1>1, <2>2, OutboundEdits, Zenon
  <2> HIDE DEF s
  <2>4. Shaped(lev, put)
    BY <1>1, <2>3, EditsShaped, Zenon
  <2> HIDE DEF put, old
  <2>5. Shaped(lev, c)
    BY <2>4, RenameShaped, Zenon
  <2> HIDE DEF c
  <2>6. Landed(lev)
    BY <2>1, <2>5, ConfirmPasses, Zenon
  <2>7. Quiet
    BY <2>1, OtherKinds
  <2> QED BY <2>6, <2>7 DEF Passed
<1>4. ASSUME RemoveWarp PROVE Passed(lev)
  <2> DEFINE s == Cut(os, IndexOf({Warp}))
  <2>1. dialog.kind = "warp" /\ Confirm([draft EXCEPT !.outbounds = s])
    BY <1>4 DEF RemoveWarp
  <2>2. OutboundList(s)
    BY <1>1, MadeOutbounds, OutboundEdits, Zenon
  <2> HIDE DEF s
  <2>3. Landed(lev)
    BY <2>1, <2>2, PartConfirmed, Zenon
  <2>4. Quiet
    BY <2>1, OtherKinds
  <2> QED BY <2>3, <2>4 DEF Passed
<1>5. ASSUME LogOut PROVE Passed(lev)
  <2> DEFINE i == IndexOf(Nord)
             k == "nord logout"
             t == dialog.taken
             f == dialog.form
             p == dialog.plan
             l == dialog.stale
             n == dialog.kind
             j == dialog.at
             d == [dialog EXCEPT !.kind = k]
             e == [d EXCEPT !.at = i]
  <2>1. /\ UNCHANGED << stored, save, draft, left >> /\ dialog.kind = "nord"
        /\ dialog' = e
    BY <1>5, Zenon DEF LogOut, server, query
  <2>2. dialog = [kind |-> n, at |-> j, taken |-> t, form |-> f, plan |-> p, stale |-> l]
    BY <1>1, Zenon DEF DialogFits
  <2>3. k # "outbound" /\ k # "rule" /\ k # "balancer" /\ k # "outbound deletion" /\ k # "balancer deletion"
    OBVIOUS
  <2> HIDE DEF i, k, t, f, p, l, n, j
  <2>4. d = [kind |-> k, at |-> j, taken |-> t, form |-> f, plan |-> p, stale |-> l]
    BY <2>2
  <2> HIDE DEF d
  <2>5. e = [kind |-> k, at |-> i, taken |-> t, form |-> f, plan |-> p, stale |-> l]
    BY <2>4
  <2> HIDE DEF e
  <2>6. /\ e = [kind |-> e.kind, at |-> e.at, taken |-> e.taken, form |-> e.form, plan |-> e.plan,
                stale |-> e.stale]
        /\ e.kind = k
    BY <2>5
  <2>7. DialogFits(Loose, e, draft)
    BY <2>3, <2>6, Zenon DEF DialogFits
  <2>8. DialogFits(Loose, dialog', draft)
    BY <2>1, <2>7
  <2>9. PageInv
    BY LowerLevel, Zenon
  <2>10. PageInv'
    BY <2>1, <2>8, <2>9, Zenon DEF PageInv, PageAt
  <2> QED BY <2>1, <2>10, Unedited, Zenon
<1>6. ASSUME RemoveNord PROVE Passed(lev)
  <2> DEFINE s == Cut(os, dialog.at)
             I == { i \in DOMAIN rs : rs[i].outbound \notin Nord }
             t == Select(rs, I)
             c == [draft EXCEPT !.outbounds = s, !.rules = t]
  <2>1. dialog.kind = "nord logout" /\ Confirm(c)
    <3> DEFINE e == [draft EXCEPT !.outbounds = s]
    <3>1. e.rules = rs
      <4>1. IsConfig(draft)
        BY <1>1, Zenon DEF Shaped
      <4> HIDE DEF s
      <4> QED BY <4>1 DEF IsConfig
    <3> QED BY <1>6, <3>1 DEF RemoveNord
  <2>2. OutboundList(s)
    BY <1>1, MadeOutbounds, OutboundEdits, Zenon
  <2>3. RuleList(lev, t)
    <3>1. I \in SUBSET DOMAIN rs
      OBVIOUS
    <3> HIDE DEF I
    <3> QED BY <1>1, <3>1, SelectedFit, Zenon
  <2> HIDE DEF s, t
  <2>4. Shaped(lev, c)
    BY <1>1, <2>2, <2>3, TwoEdits, Zenon
  <2> HIDE DEF c
  <2>5. Landed(lev)
    BY <2>1, <2>4, ConfirmPasses, Zenon
  <2>6. Quiet
    BY <2>1, OtherKinds
  <2> QED BY <2>5, <2>6 DEF Passed
<1> QED BY <1>2, <1>3, <1>4, <1>5, <1>6, Zenon DEF EditProviders

\* The actions of the balancers tab (BalancersTab.tsx): its forms have a name.
LEMMA FormsNamed ==
  ASSUME NEW lev, PageAt(lev)
  PROVE  /\ \A b \in Balancers : Named(NewForm(b))
         /\ \A i \in DOMAIN draft.balancers : \A f \in Filled(BalancerForm(draft.balancers[i])) : Named(f)
<1>1. ASSUME NEW b \in Balancers PROVE Named(NewForm(b))
  <2> DEFINE e == ""
             f == [tag |-> b, strategy |-> "random", selector |-> {Out("direct")}, fallback |-> e]
  <2>1. NewForm(b) = f
    BY Zenon DEF NewForm
  <2>2. b # e
    BY EditorAssumption, Zenon
  <2>3. \A x : Named(x) <=> x.tag # e
    BY Zenon DEF Named
  <2> HIDE DEF e
  <2>4. f.tag = b
    OBVIOUS
  <2> HIDE DEF f
  <2>5. Named(f)
    BY <2>2, <2>3, <2>4, Zenon
  <2> QED BY <2>1, <2>5
<1>2. ASSUME NEW i \in DOMAIN draft.balancers, NEW f \in Filled(BalancerForm(draft.balancers[i]))
      PROVE  Named(f)
  <2> DEFINE b == draft.balancers[i]
             g == BalancerForm(b)
             w == ResolveLoopbackFallback(draft, b.fallback)
             e == ""
  <2>1. BalancerFits(b)
    BY ElementsFit, Zenon DEF PageAt, Shaped
  <2>2. \A x : Named(x) <=> x.tag # e
    BY Zenon DEF Named
  <2>3. \A t \in Balancers : t # e
    BY EditorAssumption, Zenon
  <2>4. b.tag # e
    BY <2>1, Zenon DEF BalancerFits, Named
  <2>5. g = [tag |-> b.tag, strategy |-> b.strategy, selector |-> b.selector, fallback |-> w]
    BY DEF BalancerForm
  <2>6. \E x : \/ \E t \in Balancers : f = [g EXCEPT !.tag = t]
               \/ f = [g EXCEPT !.strategy = x]
               \/ f = [g EXCEPT !.selector = x]
               \/ f = [g EXCEPT !.fallback = x]
    BY Zenon DEF Filled
  <2> HIDE DEF b, g, w, e
  <2>7. f.tag \in Balancers \/ f.tag = b.tag
    BY <2>5, <2>6
  <2> QED BY <2>2, <2>3, <2>4, <2>7
<1> QED BY <1>1, <1>2, Zenon

LEMMA BalancerConfirmed ==
  ASSUME NEW lev, PageAt(lev), ConfirmBalancer
  PROVE  Passed(lev)
<1> DEFINE form       == dialog.form
           toBalancer == form.fallback \in OtherTags(dialog.at)
           wire       == Wire(form, toBalancer)
           edit       == dialog.at \in DOMAIN draft.balancers
           before     == draft.balancers[dialog.at]
           bs         == Put(draft.balancers, dialog.at, wire)
           put        == [draft EXCEPT !.balancers = bs]
           renamed    == IF edit THEN RenamedBalancer(put, before.tag, wire.tag) ELSE put
           trims      == edit /\ IsLoopback(before.fallback) /\ before.fallback.name # form.fallback
           trimmed    == IF trims THEN RemoveBalancerLoopbackIfOrphaned(renamed, before.fallback.name) ELSE renamed
           ensured    == IF toBalancer THEN EnsureBalancerLoopback(trimmed, form.fallback) ELSE trimmed
           c          == SyncObservatories(ensured)
<1>1. dialog.kind = "balancer" /\ Confirm(c)
  BY Zenon DEF ConfirmBalancer
<1>2. Shaped(lev, draft) /\ BalancerList(draft.balancers) /\ Named(form)
  BY <1>1, Zenon DEF PageAt, DialogFits, Shaped
<1>3. BalancerFits(wire)
  <2> DEFINE x == CASE toBalancer -> Lb(form.fallback)
                    [] ~toBalancer /\ form.fallback = "" -> NoTag
                    [] OTHER -> Out(form.fallback)
             w == [tag |-> form.tag, strategy |-> form.strategy, selector |-> form.selector, fallback |-> x]
  <2>1. wire = w
    BY Zenon DEF Wire
  <2> HIDE DEF x, form
  <2>2. w = [tag |-> w.tag, strategy |-> w.strategy, selector |-> w.selector,
             fallback |-> w.fallback] /\ w.tag = form.tag
    OBVIOUS
  <2> HIDE DEF w
  <2>3. BalancerFits(w)
    BY <1>2, <2>2, Zenon DEF BalancerFits, Named
  <2> HIDE DEF wire
  <2> QED BY <2>1, <2>3
<1> HIDE DEF wire
<1>4. BalancerList(bs)
  BY <1>2, <1>3, BalancerEdits, Zenon
<1> HIDE DEF bs
<1>5. Shaped(lev, put)
  BY <1>2, <1>4, EditsShaped, Zenon
<1> HIDE DEF put, before
<1>6. Shaped(lev, renamed)
  BY <1>5, RenamedShaped, Zenon
<1> HIDE DEF renamed, trims
<1>7. Shaped(lev, trimmed)
  BY <1>6, RemovedShaped, Zenon
<1> HIDE DEF trimmed
<1>8. Shaped(lev, ensured)
  BY <1>7, EnsuredShaped, Zenon
<1> HIDE DEF ensured
<1>9. Shaped(lev, c)
  BY <1>8, SyncShaped, Zenon
<1> HIDE DEF c
<1>10. Landed(lev)
  BY <1>1, <1>9, ConfirmPasses, Zenon
<1>11. Quiet
  BY <1>1, OtherKinds
<1> QED BY <1>10, <1>11 DEF Passed

LEMMA BalancersPass ==
  ASSUME NEW lev, PageAt(lev), EditBalancers
  PROVE  Passed(lev) \/ ConfirmBalancerDeletion
<1>1. ASSUME NEW i, NEW form, Named(form), OpenBalancer(i, form) PROVE Passed(lev)
  <2> DEFINE d == [Closed EXCEPT !.kind = "balancer", !.at = i, !.form = form]
  <2>1. Open(d)
    BY <1>1, Zenon DEF OpenBalancer
  <2>2. DialogFits(Loose, d, draft)
    BY <1>1, OpenedOn, Zenon
  <2> HIDE DEF d
  <2> QED BY <2>1, <2>2, OpenPasses, Zenon
<1>2. ASSUME NEW i \in DOMAIN draft.balancers, OpenBalancerDeletion(i) PROVE Passed(lev)
  <2> DEFINE plan == PlanBalancerDeletion(draft, i)
             d == [Closed EXCEPT !.kind = "balancer deletion", !.at = i, !.plan = plan]
  <2>1. Open(d)
    BY <1>2, Zenon DEF OpenBalancerDeletion
  <2>2. DialogFits(Loose, d, draft)
    BY OpenedOn, Zenon
  <2> HIDE DEF d
  <2> QED BY <2>1, <2>2, OpenPasses, Zenon
<1>3. \/ \E b \in Balancers : OpenBalancer(0, NewForm(b))
      \/ \E i \in DOMAIN draft.balancers : \E f \in Filled(BalancerForm(draft.balancers[i])) : OpenBalancer(i, f)
      \/ ConfirmBalancer
      \/ \E i \in DOMAIN draft.balancers : OpenBalancerDeletion(i)
      \/ ConfirmBalancerDeletion
  BY Zenon DEF EditBalancers
<1>4. /\ \A b \in Balancers : Named(NewForm(b))
      /\ \A i \in DOMAIN draft.balancers : \A f \in Filled(BalancerForm(draft.balancers[i])) : Named(f)
  BY FormsNamed
<1>5. ConfirmBalancer => Passed(lev)
  BY BalancerConfirmed
<1> QED BY <1>1, <1>2, <1>3, <1>4, <1>5, Zenon

\* A confirmed deletion does what was announced when the draft was not seeded
\* again under it.
DeletedAs(lev, own) == Landed(lev) /\ (InTime => AsAnnounced(draft, dialog.plan, own, draft'))

\* The two deletions do what was announced when nothing overtook their dialog,
\* that of a balancer when the rules of loopbacks lead.
LEMMA OutboundDeleted ==
  ASSUME NEW lev, PageAt(lev), ConfirmOutboundDeletion
  PROVE  DeletedAs(lev, {}) /\ dialog.kind = "outbound deletion"
<1> DEFINE at == dialog.at
           e == ApplyOutboundDeletion(draft, at)
           s == SyncObservatories(draft)
           c == IF at \in DOMAIN draft.outbounds THEN e ELSE s
<1>1. dialog.kind = "outbound deletion" /\ Confirm(c) /\ Shaped(lev, draft) /\ DialogFits(lev, dialog, draft)
  BY Zenon DEF ConfirmOutboundDeletion, PageAt
<1>2. Shaped(lev, e)
  <2> DEFINE ro == { draft.outbounds[at].tag }
             rb == BalancersEmptiedBy(draft, ro)
  <2>1. e = ApplyCleanup(draft, ro, rb)
    BY Zenon DEF ApplyOutboundDeletion
  <2> HIDE DEF e, ro, rb
  <2>2. Shaped(lev, ApplyCleanup(draft, ro, rb))
    BY <1>1, Cleaned, Zenon
  <2> QED BY <2>1, <2>2
<1>3. Shaped(lev, s)
  BY <1>1, SyncShaped, Zenon
<1>4. InTime => at \in DOMAIN draft.outbounds /\ dialog.plan = PlanOutboundDeletion(draft, at)
  BY <1>1, Zenon DEF InTime, DialogFits
<1>5. InTime => AsAnnounced(draft, dialog.plan, {}, e)
  BY <1>1, <1>4, OutboundDeletionAgrees, Zenon
<1> HIDE DEF e, s
<1>6. Shaped(lev, c) /\ (InTime => c = e)
  BY <1>2, <1>3, <1>4, Zenon
<1>7. draft' = c
  BY <1>1, Zenon DEF Confirm, Mutate
<1> HIDE DEF c
<1>8. Landed(lev)
  BY <1>1, <1>6, ConfirmPasses, Zenon
<1>9. InTime => AsAnnounced(draft, dialog.plan, {}, draft')
  BY <1>5, <1>6, <1>7
<1> QED BY <1>1, <1>8, <1>9, Zenon DEF DeletedAs

LEMMA BalancerDeleted ==
  ASSUME NEW lev, PageAt(lev), ConfirmBalancerDeletion
  PROVE  /\ Landed(lev) /\ (lev = Led => DeletedAs(lev, { draft.balancers[dialog.at].tag }))
         /\ dialog.kind = "balancer deletion"
<1> DEFINE at == dialog.at
           b == draft.balancers[at].tag
           e == ApplyBalancerDeletion(RemoveBalancerLoopback(draft, b), at)
           s == SyncObservatories(draft)
           c == IF at \in DOMAIN draft.balancers THEN e ELSE s
<1>1. dialog.kind = "balancer deletion" /\ Confirm(c) /\ Shaped(lev, draft) /\ DialogFits(lev, dialog, draft)
  BY Zenon DEF ConfirmBalancerDeletion, PageAt
<1>2. Shaped(lev, e)
  BY <1>1, BalancerDeletionShaped, Zenon
<1>a. lev = Led /\ at \in DOMAIN draft.balancers =>
         AsAnnounced(draft, PlanBalancerDeletion(draft, at), {b}, e)
  BY <1>1, BalancerDeletionAgrees, Zenon
<1>3. Shaped(lev, s)
  BY <1>1, SyncShaped, Zenon
<1>4. InTime => at \in DOMAIN draft.balancers /\ dialog.plan = PlanBalancerDeletion(draft, at)
  BY <1>1, Zenon DEF InTime, DialogFits
<1> HIDE DEF b, e, s
<1>5. lev = Led /\ InTime => AsAnnounced(draft, dialog.plan, {b}, e)
  BY <1>4, <1>a
<1>6. Shaped(lev, c) /\ (InTime => c = e)
  BY <1>2, <1>3, <1>4, Zenon
<1>7. draft' = c
  BY <1>1, Zenon DEF Confirm, Mutate
<1> HIDE DEF c
<1>8. Landed(lev)
  BY <1>1, <1>6, ConfirmPasses, Zenon
<1>9. lev = Led /\ InTime => AsAnnounced(draft, dialog.plan, {b}, draft')
  BY <1>5, <1>6, <1>7
<1>10. Landed(lev) /\ (lev = Led => DeletedAs(lev, {b}))
  BY <1>8, <1>9, Zenon DEF DeletedAs
<1> QED BY <1>1, <1>10 DEF b

\* The rest of the page.
LEMMA SaveAndSyncPasses == ASSUME NEW lev, PageAt(lev), SaveAndSync PROVE Passed(lev)
<1>1. /\ Shaped(Loose, draft) /\ Shaped(Loose, stored) /\ DialogFits(Loose, dialog, draft) /\ left \in Lefts
      /\ save = [phase |-> save.phase, config |-> save.config, doubt |-> save.doubt]
      /\ Shaped(Loose, save.config)
  <2>1. PageInv
    BY LowerLevel, Zenon
  <2> QED BY <2>1, Zenon DEF PageInv, PageAt
<1>a. Shaped(lev, draft)
  BY Zenon DEF PageAt
<1>2. \A l : \A c \in Stored \cup {Default} : Shaped(l, c)
  BY EditorAssumption, RecordsFit, Zenon DEF NamesOfTheirOwn
<1>3. CASE TypeText
  <2>1. /\ dialog.kind = "none" /\ left.edits > 0 /\ left' = [left EXCEPT !.edits = @ - 1]
        /\ draft' \in {draft} \cup Stored /\ UNCHANGED << stored, save, dialog >>
    BY <1>3, Zenon DEF TypeText, server, query
  <2>2. Shaped(lev, draft') /\ Shaped(Loose, draft')
    BY <1>1, <1>a, <1>2, <2>1
  <2>3. DialogFits(Loose, dialog, draft')
    BY <1>1, <2>1, NoneFits, Zenon
  <2>4. left' \in Lefts
    BY <1>1, <2>1, SpentFits, Zenon
  <2>5. Quiet
    BY <2>1, OtherKinds
  <2>6. PageInv'
    BY <1>1, <2>1, <2>2, <2>3, <2>4 DEF PageInv, PageAt
  <2> QED BY <2>2, <2>5, <2>6, Zenon DEF Passed, Landed
<1>4. CASE ResetToDefault
  <2>1. dialog.kind = "none" /\ UNCHANGED dialog /\ Mutate(Default)
    BY <1>4, Zenon DEF ResetToDefault
  <2> QED BY <1>2, <2>1, MutatedAlone, Zenon
<1>5. CASE Poll
  <2>1. UNCHANGED << stored, draft, save, dialog, left >>
    BY <1>5, Zenon DEF Poll, server
  <2>2. PageInv'
    BY <1>1, <2>1, Zenon DEF PageInv, PageAt
  <2> QED BY <2>1, <2>2, Unedited, Zenon
<1>6. CASE FetchReturns
  <2> DEFINE b == dialog.kind # "none" /\ (dialog.stale \/ stored # draft)
             d == [dialog EXCEPT !.stale = b]
             doubt == save.doubt /\ cache' = cache
  <2>1. /\ UNCHANGED << stored, left >> /\ save' = [save EXCEPT !.doubt = doubt]
        /\ \/ UNCHANGED << draft, dialog >>
           \/ draft' = stored /\ dialog' = d
    BY <1>6, Zenon DEF FetchReturns, server
  <2>2. DialogFits(Loose, d, stored)
    <3> DEFINE k == dialog.kind
               i == dialog.at
               t == dialog.taken
               f == dialog.form
               p == dialog.plan
               l == dialog.stale
    <3>1. dialog = [kind |-> k, at |-> i, taken |-> t, form |-> f, plan |-> p, stale |-> l]
      BY <1>1, Zenon DEF DialogFits
    <3>2. /\ k = "outbound" => FormFits(f)
          /\ k = "rule" => RuleFits(Loose, f)
          /\ k = "balancer" => Named(f)
          /\ k = "outbound deletion" /\ ~l => i \in DOMAIN draft.outbounds /\ p = PlanOutboundDeletion(draft, i)
          /\ k = "balancer deletion" /\ ~l => i \in DOMAIN draft.balancers /\ p = PlanBalancerDeletion(draft, i)
      BY <1>1, Zenon DEF DialogFits
    <3>3. b = (k # "none" /\ (l \/ stored # draft))
      OBVIOUS
    <3> HIDE DEF k, i, t, f, p, l, b
    <3>4. d = [kind |-> k, at |-> i, taken |-> t, form |-> f, plan |-> p, stale |-> b]
      BY <3>1
    <3> HIDE DEF d
    <3>5. /\ d.kind = k /\ d.at = i /\ d.form = f /\ d.plan = p /\ d.stale = b
          /\ d = [kind |-> d.kind, at |-> d.at, taken |-> d.taken, form |-> d.form,
                  plan |-> d.plan, stale |-> d.stale]
      BY <3>4
    <3>6. k \in {"outbound deletion", "balancer deletion"} /\ ~b => ~l /\ stored = draft
      BY <3>3
    <3>7. /\ k = "outbound deletion" /\ ~b =>
                i \in DOMAIN stored.outbounds /\ p = PlanOutboundDeletion(stored, i)
          /\ k = "balancer deletion" /\ ~b =>
                i \in DOMAIN stored.balancers /\ p = PlanBalancerDeletion(stored, i)
      BY <3>2, <3>6
    <3> QED BY <3>2, <3>5, <3>7, Zenon DEF DialogFits
  <2> HIDE DEF d, doubt
  <2>3. Shaped(Loose, draft') /\ DialogFits(Loose, dialog', draft')
    BY <1>1, <2>1, <2>2
  <2>4. /\ save' = [phase |-> save'.phase, config |-> save'.config, doubt |-> save'.doubt]
        /\ save'.config = save.config
    BY <1>1, <2>1
  <2>5. PageInv'
    BY <1>1, <2>1, <2>3, <2>4 DEF PageInv, PageAt
  <2> QED BY <2>1, <2>5, Unedited, Zenon
<1>7. CASE RefreshXrayData
  <2>1. /\ UNCHANGED << stored, draft, save, dialog >>
        /\ left.refreshes > 0 /\ left' = [left EXCEPT !.refreshes = @ - 1]
    BY <1>7, Zenon DEF RefreshXrayData
  <2>2. left' \in Lefts /\ left'.edits = left.edits
    BY <1>1, <2>1, SpentFits, Zenon
  <2>3. PageInv'
    BY <1>1, <2>1, <2>2, Zenon DEF PageInv, PageAt
  <2> QED BY <2>2, <2>3, Unedited, Zenon
<1>8. CASE OnSaveAll
  <2> DEFINE m == EnsureMissingBalancerLoopbacks(draft)
             c == CleanupOrphanedBalancerLoopbacks(m)
  <2>1. /\ UNCHANGED << stored, dialog >> /\ dialog.kind = "none"
        /\ draft' = c /\ save' = [save EXCEPT !.phase = "sent", !.config = c]
        /\ left.saves > 0 /\ left' = [left EXCEPT !.saves = @ - 1]
    BY <1>8, Zenon DEF OnSaveAll, server
  <2>2. Shaped(Loose, m)
    BY <1>1, MissingShaped, Zenon
  <2> HIDE DEF m
  <2>3. Shaped(Loose, c)
    BY <2>2, OrphansShaped, Zenon
  <2> HIDE DEF c
  <2>4. left' \in Lefts /\ left'.edits = left.edits
    BY <1>1, <2>1, SpentFits, Zenon
  <2>5. save' = [phase |-> save'.phase, config |-> save'.config, doubt |-> save'.doubt] /\ save'.config = c
    BY <1>1, <2>1
  <2>6. DialogFits(Loose, dialog', draft') /\ Shaped(Loose, draft') /\ Shaped(Loose, save'.config)
    <3>1. DialogFits(Loose, dialog, c)
      BY <1>1, <2>1, NoneFits, Zenon
    <3> QED BY <2>1, <2>3, <2>5, <3>1
  <2>7. PageInv'
    BY <1>1, <2>1, <2>4, <2>5, <2>6 DEF PageInv, PageAt
  <2> QED BY <2>4, <2>7, Unedited, Zenon
<1>9. CASE ServerSaves
  <2> DEFINE c == save.config
  <2>1. /\ UNCHANGED << draft, dialog, left >>
        /\ stored' = c \/ stored' = stored
        /\ \/ save' = [save EXCEPT !.phase = "saved"]
           \/ save' = [save EXCEPT !.phase = "refused", !.doubt = TRUE]
           \/ save' = [save EXCEPT !.phase = "refused"]
    BY <1>9, Zenon DEF ServerSaves
  <2>2. save' = [phase |-> save'.phase, config |-> save'.config, doubt |-> save'.doubt] /\ save'.config = c
    BY <1>1, <2>1
  <2>3. Shaped(Loose, stored') /\ Shaped(Loose, save'.config)
    BY <1>1, <2>1, <2>2
  <2>4. PageInv'
    BY <1>1, <2>1, <2>2, <2>3 DEF PageInv, PageAt
  <2> QED BY <2>1, <2>4, Unedited, Zenon
<1>10. CASE SaveReturns
  <2> DEFINE doubt == save.doubt /\ save.phase = "refused"
  <2>1. UNCHANGED << stored, draft, dialog, left >> /\ save' = [Idle EXCEPT !.doubt = doubt]
    BY <1>10, Zenon DEF SaveReturns, server
  <2> HIDE DEF doubt
  <2>2. save' = [phase |-> save'.phase, config |-> save'.config, doubt |-> save'.doubt] /\ save'.config = Default
    BY <2>1 DEF Idle
  <2>3. Shaped(Loose, save'.config)
    BY <1>2, <2>2
  <2>4. PageInv'
    BY <1>1, <2>1, <2>2, <2>3 DEF PageInv, PageAt
  <2> QED BY <2>1, <2>4, Unedited, Zenon
<1>11. CASE Cancel
  <2>1. UNCHANGED << stored, draft, save, left >> /\ dialog' = Closed
    BY <1>11, Zenon DEF Cancel, server, query
  <2>2. DialogFits(Loose, dialog', draft)
    BY <2>1, ClosedFits
  <2>3. PageInv'
    BY <1>1, <2>1, <2>2 DEF PageInv, PageAt
  <2> QED BY <2>1, <2>3, Unedited, Zenon
<1> QED BY <1>3, <1>4, <1>5, <1>6, <1>7, <1>8, <1>9, <1>10, <1>11, Zenon DEF SaveAndSync

\* The invariant holds at the start, every step keeps it, and every step is a
\* quiet one or a deletion that does what was announced.
LEMMA InitPage == Init => PageInv
<1> SUFFICES ASSUME Init PROVE PageInv
  OBVIOUS
<1>1. \A c \in Stored \cup {Default} : Shaped(Loose, c)
  BY EditorAssumption, RecordsFit, Zenon DEF NamesOfTheirOwn
<1>2. stored \in Stored /\ draft = stored /\ save = Idle /\ dialog = Closed /\ left \in Budgets
  BY Zenon DEF Init
<1>3. Shaped(Loose, draft) /\ Shaped(Loose, stored)
  BY <1>1, <1>2, Zenon
<1>4. save = [phase |-> save.phase, config |-> save.config, doubt |-> save.doubt] /\ save.config = Default
  BY <1>2 DEF Idle
<1>5. Shaped(Loose, save.config)
  BY <1>1, <1>4
<1>6. DialogFits(Loose, dialog, draft)
  BY <1>2, ClosedFits
<1>7. left \in Lefts
  BY <1>2, EditorAssumption, Zenon DEF Lefts
<1> QED BY <1>3, <1>4, <1>5, <1>6, <1>7, Zenon DEF PageInv, PageAt

LEMMA StepPage ==
  ASSUME NEW lev, PageAt(lev), Next
  PROVE  \/ Passed(lev)
         \/ DeletedAs(lev, {}) /\ dialog.kind = "outbound deletion"
         \/ /\ Landed(lev) /\ (lev = Led => DeletedAs(lev, { draft.balancers[dialog.at].tag }))
            /\ dialog.kind = "balancer deletion"
<1>1. EditOutbounds => Passed(lev) \/ ConfirmOutboundDeletion
  BY OutboundsPass
<1>2. EditBalancers => Passed(lev) \/ ConfirmBalancerDeletion
  BY BalancersPass
<1>3. EditOutboundForm \/ EditRules \/ EditProviders \/ SaveAndSync => Passed(lev)
  BY OutboundFormPasses, RulesPass, ProvidersPass, SaveAndSyncPasses, Zenon
<1>4. ConfirmOutboundDeletion => DeletedAs(lev, {}) /\ dialog.kind = "outbound deletion"
  BY OutboundDeleted
<1>5. ConfirmBalancerDeletion =>
         /\ Landed(lev) /\ (lev = Led => DeletedAs(lev, { draft.balancers[dialog.at].tag }))
         /\ dialog.kind = "balancer deletion"
  BY BalancerDeleted, Zenon
<1> QED BY <1>1, <1>2, <1>3, <1>4, <1>5, Zenon DEF Next

\* What the page announces.
Announced ==
    Edited /\ InTime /\ dialog.kind \in {"outbound deletion", "balancer deletion"}
      /\ (dialog.kind = "balancer deletion" => LoopbacksLead(draft)) =>
      AsAnnounced(draft, dialog.plan,
                  IF dialog.kind = "balancer deletion" THEN {draft.balancers[dialog.at].tag} ELSE {}, draft')

\* A step of the page leaves the invariant, and at the upper level what it
\* starts from.
LEMMA StepLands == ASSUME NEW lev, PageAt(lev), Next PROVE Landed(lev)
BY StepPage, Zenon DEF Passed, DeletedAs

LEMMA StepAnnounced == PageInv /\ [Next]_vars => PageInv' /\ (Announced \/ UNCHANGED vars)
<1> SUFFICES ASSUME PageInv, [Next]_vars PROVE PageInv' /\ (Announced \/ UNCHANGED vars)
  OBVIOUS
<1>1. CASE UNCHANGED vars
  <2>1. UNCHANGED << stored, draft, save, dialog, left >>
    BY <1>1 DEF vars
  <2> QED BY <1>1, <2>1, Zenon DEF PageInv, PageAt
<1>2. ASSUME Quiet PROVE Announced
  <2>1. ~(left'.edits = left.edits /\ Edited)
    <3>1. left.edits \in Nat
      BY Zenon DEF PageInv, PageAt, Lefts
    <3> QED BY <3>1 DEF Edited
  <2> QED BY <1>2, <2>1, Zenon DEF Announced, Quiet
<1>3. ASSUME DeletedAs(Loose, {}), dialog.kind = "outbound deletion" PROVE Announced
  <2>1. (IF dialog.kind = "balancer deletion" THEN {draft.balancers[dialog.at].tag} ELSE {}) = {}
    BY <1>3
  <2> QED BY <1>3, <2>1 DEF DeletedAs, Announced
<1>4. ASSUME Next, dialog.kind = "balancer deletion" PROVE Announced
  <2> SUFFICES ASSUME LoopbacksLead(draft) PROVE Announced
    BY <1>4, Zenon DEF Announced
  <2>1. PageAt(Led)
    BY <1>4, Rises
  <2>2. Passed(Led) \/ DeletedAs(Led, { draft.balancers[dialog.at].tag })
    BY <1>4, <2>1, StepPage
  <2>3. CASE Passed(Led)
    BY <1>2, <2>3, Zenon DEF Passed
  <2>4. CASE DeletedAs(Led, { draft.balancers[dialog.at].tag })
    BY <1>4, <2>4, Zenon DEF DeletedAs, Announced
  <2> QED BY <2>2, <2>3, <2>4
<1>5. ASSUME Next PROVE PageInv' /\ Announced
  <2>1. PageAt(Loose)
    BY DEF PageInv
  <2>2. PageInv'
    BY <1>5, <2>1, StepLands, Zenon DEF Landed
  <2>3. Passed(Loose) \/ (DeletedAs(Loose, {}) /\ dialog.kind = "outbound deletion") \/ dialog.kind = "balancer deletion"
    BY <1>5, <2>1, StepPage, Zenon
  <2> QED BY <1>2, <1>3, <1>4, <1>5, <2>2, <2>3, Zenon DEF Passed
<1> QED BY <1>1, <1>5, Zenon

\* The page's invariant always holds.
LEMMA PageInvAlways == Spec => []PageInv
<1>1. PageInv /\ [Next]_vars => PageInv'
  BY StepAnnounced
<1> QED BY <1>1, InitPage, PTL DEF Spec

\* A deletion does what its confirmation announced, for every configuration:
\* the rules it called kept stay as they were and in their order, those it
\* called repaired lead somewhere and to nothing it removed, the others go, the
\* balancers it named go and no other, and the observer goes if it said so
\* (planOutboundDeletion, planBalancerDeletion, applyOutboundDeletion and
\* applyBalancerDeletion, reference-cleanup.ts:86-236).  The deletion of a
\* balancer does when the rules of the loopbacks lead where the page has made
\* them lead, whatever a wrong row has changed elsewhere.
THEOREM DeletionsAsAnnounced == Spec => PreviewAgrees
<1>1. ASSUME PageInv, [Next]_vars
      PROVE  [Edited /\ InTime /\ dialog.kind \in {"outbound deletion", "balancer deletion"}
                /\ (dialog.kind = "balancer deletion" => LoopbacksLead(draft)) =>
                LET fates == dialog.plan.fates
                    stay  == { i \in DOMAIN fates : fates[i] # "removed" }
                    own   == IF dialog.kind = "balancer deletion" THEN {draft.balancers[dialog.at].tag} ELSE {}
                IN  /\ Len(draft'.rules) = Cardinality(stay)
                    /\ \A i \in stay :
                          LET old == draft.rules[i]
                              new == draft'.rules[Cardinality({ j \in stay : j <= i })]
                          IN  IF fates[i] = "kept" THEN new = old
                              ELSE /\ new.outbound # NoTag \/ new.balancer # ""
                                   /\ old.outbound \in {NoTag, new.outbound} \/ old.outbound \notin TagsOf(draft'.outbounds)
                                   /\ new.outbound.kind = "out" /\ new.outbound \in TagsOf(draft.outbounds)
                                         => new.outbound \in TagsOf(draft'.outbounds)
                                   /\ new.balancer \in TagsOf(draft.balancers) \ {""}
                                         => new.balancer \in TagsOf(draft'.balancers)
                    /\ TagsOf(draft'.balancers) = TagsOf(draft.balancers) \ (dialog.plan.cascaded \cup own)
                    /\ dialog.plan.observer <=> /\ draft.observer.kind # "none"
                                                /\ draft'.observer.kind # draft.observer.kind]_vars
  <2>1. Announced \/ UNCHANGED vars
    BY <1>1, StepAnnounced, Zenon
  <2> QED BY <2>1, Zenon DEF Announced, AsAnnounced
<1> QED BY <1>1, PageInvAlways, PTL DEF Spec, PreviewAgrees

-----------------------------------------------------------------------------
(* The observer.                                                           *)

Good(c) == IsConfig(c) /\ ObserverFits(c)

\* What the page holds, what the server holds and what is on its way to it.
ConfigInv == Good(draft) /\ Good(stored) /\ Good(save.config)

\* syncObservatories gives any configuration the observer it needs.
LEMMA SyncFits ==
  ASSUME NEW c, IsConfig(c)
  PROVE  Good(SyncObservatories(c))
<1> DEFINE pings    == { b \in Range(c.balancers) : b.strategy = "leastPing" }
           required == { b \in Range(c.balancers) : RequiresBurst(b) }
           observer == CASE required # {} -> [kind |-> "burst", subjects |-> Selectors(required \cup pings)]
                         [] required = {} /\ pings # {} -> [kind |-> "regular", subjects |-> Selectors(pings)]
                         [] OTHER -> NoObserver
           d == [c EXCEPT !.observer = observer]
<1>1. SyncObservatories(c) = d
  BY DEF SyncObservatories
<1>2. /\ required # {} => observer.kind = "burst"
      /\ required = {} /\ pings # {} => observer.kind = "regular"
      /\ required = {} /\ pings = {} => observer.kind = "none"
  <2> DEFINE s == Selectors(required \cup pings)
             t == Selectors(pings)
  <2> HIDE DEF s, t, required, pings
  <2> QED BY SMT DEF NoObserver, s, t
<1>3. \A b \in Range(c.balancers) :
        /\ b.strategy = "leastLoad" => b \in required
        /\ b.strategy = "leastPing" => b \in pings
        /\ b.strategy = "random" /\ b.fallback # NoTag => b \in required
  BY DEF RequiresBurst
<1>4. required # {} \/ pings # {} =>
        \E b \in Range(c.balancers) : b.strategy # "random" \/ b.fallback # NoTag
  BY DEF RequiresBurst
<1> HIDE DEF observer, required, pings
<1>5. IsConfig(d) /\ d.balancers = c.balancers /\ d.observer = observer
  BY DEF IsConfig
<1>6. ObserverFits(d)
  BY <1>2, <1>3, <1>4, <1>5, SMT DEF ObserverFits
<1> QED BY <1>1, <1>5, <1>6 DEF Good

\* A configuration with one field replaced.
LEMMA OneField ==
  ASSUME NEW c, IsConfig(c), NEW x
  PROVE  /\ IsConfig([c EXCEPT !.outbounds = x])
         /\ [c EXCEPT !.outbounds = x].balancers = c.balancers
         /\ [c EXCEPT !.outbounds = x].observer = c.observer
         /\ IsConfig([c EXCEPT !.rules = x])
         /\ [c EXCEPT !.rules = x].balancers = c.balancers
         /\ [c EXCEPT !.rules = x].observer = c.observer
         /\ IsConfig([c EXCEPT !.balancers = x])
         /\ [c EXCEPT !.balancers = x].balancers = x
         /\ [c EXCEPT !.balancers = x].observer = c.observer
BY SMT DEF IsConfig

\* The outbounds and the rules may be anything.
LEMMA OtherParts ==
  ASSUME NEW c, NEW os, NEW rs
  PROVE  /\ IsConfig(c) => /\ IsConfig([c EXCEPT !.outbounds = os])
                           /\ IsConfig([c EXCEPT !.rules = rs])
                           /\ IsConfig([c EXCEPT !.outbounds = os, !.rules = rs])
         /\ Good(c) => /\ Good([c EXCEPT !.outbounds = os])
                       /\ Good([c EXCEPT !.rules = rs])
                       /\ Good([c EXCEPT !.outbounds = os, !.rules = rs])
<1> DEFINE d1 == [c EXCEPT !.outbounds = os]
           d2 == [c EXCEPT !.rules = rs]
           d3 == [d1 EXCEPT !.rules = rs]
<1>1. IsConfig(c) =>
        /\ IsConfig(d1) /\ d1.balancers = c.balancers /\ d1.observer = c.observer
        /\ IsConfig(d2) /\ d2.balancers = c.balancers /\ d2.observer = c.observer
        /\ IsConfig(d3) /\ d3.balancers = c.balancers /\ d3.observer = c.observer
  <2> SUFFICES ASSUME IsConfig(c)
               PROVE  /\ IsConfig(d1) /\ d1.balancers = c.balancers /\ d1.observer = c.observer
                      /\ IsConfig(d2) /\ d2.balancers = c.balancers /\ d2.observer = c.observer
                      /\ IsConfig(d3) /\ d3.balancers = c.balancers /\ d3.observer = c.observer
    BY Zenon
  <2>1. IsConfig(d1) /\ d1.balancers = c.balancers /\ d1.observer = c.observer
    BY OneField, Zenon
  <2>2. IsConfig(d2) /\ d2.balancers = c.balancers /\ d2.observer = c.observer
    BY OneField, Zenon
  <2> HIDE DEF d1
  <2>3. IsConfig(d3) /\ d3.balancers = c.balancers /\ d3.observer = c.observer
    BY <2>1, OneField, Zenon
  <2> QED BY <2>1, <2>2, <2>3, Zenon
<1> HIDE DEF d1, d2, d3
<1>2. Good(c) => Good(d1) /\ Good(d2) /\ Good(d3)
  BY <1>1 DEF Good, ObserverFits
<1> QED BY <1>1, <1>2 DEF d1, d2, d3

\* A rename changes no balancer's strategy, and no fallback into none.
LEMMA RenameFits ==
  ASSUME NEW c, Good(c), NEW old, NEW new
  PROVE  Good(PropagateOutboundTagRename(c, old, new))
<1>1. CASE NoTag \in {old, new}
  BY <1>1 DEF PropagateOutboundTagRename
<1>2. CASE NoTag \notin {old, new}
  <2> DEFINE rs == [r \in DOMAIN c.rules |-> Redirected(c.rules[r], old, new)]
             bs == [b \in DOMAIN c.balancers |-> Retagged(c.balancers[b], old, new)]
             os == [o \in DOMAIN c.outbounds |-> Redialed(c.outbounds[o], old, new)]
             d1 == [c EXCEPT !.rules = rs]
             d2 == [d1 EXCEPT !.balancers = bs]
             d  == [d2 EXCEPT !.outbounds = os]
  <2>1. PropagateOutboundTagRename(c, old, new) = d
    BY <1>2, Zenon DEF PropagateOutboundTagRename
  <2>2. \A b : /\ Retagged(b, old, new).strategy = b.strategy
               /\ Retagged(b, old, new).fallback # NoTag <=> b.fallback # NoTag
    BY <1>2 DEF Retagged, Subst
  <2> HIDE DEF rs, os
  <2>3. IsConfig(d1) /\ d1.balancers = c.balancers /\ d1.observer = c.observer
    BY OneField, Zenon DEF Good
  <2> HIDE DEF d1
  <2>4. /\ \A b \in Range(c.balancers) : Retagged(b, old, new) \in Range(bs)
        /\ \A e \in Range(bs) : \E b \in Range(c.balancers) : e = Retagged(b, old, new)
    BY DEF Range
  <2> HIDE DEF bs
  <2>5. IsConfig(d2) /\ d2.balancers = bs /\ d2.observer = c.observer
    <3>1. IsConfig(d2) /\ d2.balancers = bs
      BY <2>3, OneField, Zenon
    <3>2. d2.observer = d1.observer
      BY <2>3, OneField, Zenon
    <3> HIDE DEF d2
    <3> QED BY <2>3, <3>1, <3>2
  <2> HIDE DEF d2
  <2>6. IsConfig(d) /\ d.balancers = bs /\ d.observer = c.observer
    BY <2>5, OneField, Zenon
  <2> HIDE DEF d
  <2>7. ObserverFits(d)
    BY <2>2, <2>4, <2>6 DEF Good, ObserverFits
  <2> QED BY <2>1, <2>6, <2>7 DEF Good
<1> QED BY <1>1, <1>2

LEMMA CleanupFits ==
  ASSUME NEW c, NEW ro, NEW rb
  PROVE  Good(ApplyCleanup(c, ro, rb))
<1> DEFINE os == RepairOutbounds(c.outbounds, ro)
           rs == RepairRules(c.rules, ro, rb)
           bs == RepairBalancers(c.balancers, ro, rb)
           d  == [outbounds |-> os, rules |-> rs, balancers |-> bs, observer |-> c.observer]
<1>1. IsConfig(d)
  <2> HIDE DEF os, rs, bs
  <2> QED BY DEF IsConfig
<1>2. ApplyCleanup(c, ro, rb) = SyncObservatories(d)
  BY DEF ApplyCleanup
<1> HIDE DEF d
<1> QED BY <1>1, <1>2, SyncFits

LEMMA ConfirmGood == ASSUME NEW c, Good(c), Confirm(c) PROVE Good(draft')
BY DEF Confirm, Mutate

LEMMA MutateGood == ASSUME NEW c, Good(c), Mutate(c) PROVE Good(draft')
BY DEF Mutate

LEMMA OutboundsGood == Good(draft) /\ EditOutbounds => Good(draft')
<1> SUFFICES ASSUME Good(draft) PROVE EditOutbounds => Good(draft')
  OBVIOUS
<1>1. ASSUME NEW i, OpenOutbound(i) \/ OpenOutboundDeletion(i) PROVE Good(draft')
  BY <1>1 DEF OpenOutbound, OpenOutboundDeletion, Open
<1>2. ASSUME NEW tag, NEW to, ConfirmOutbound(tag, to) PROVE Good(draft')
  <2> DEFINE os  == Put(draft.outbounds, dialog.at, ToWire(Confirmed(tag, to)))
             put == [draft EXCEPT !.outbounds = os]
             old == draft.outbounds[dialog.at].tag
  <2>1. Good(put)
    BY OtherParts, Zenon
  <2>2. Good(PropagateOutboundTagRename(put, old, tag))
    BY <2>1, RenameFits, Zenon
  <2>3. Confirm(put) \/ Confirm(PropagateOutboundTagRename(put, old, tag))
    BY <1>2, Zenon DEF ConfirmOutbound
  <2> QED BY <2>1, <2>2, <2>3, ConfirmGood, Zenon
<1>3. ConfirmOutboundDeletion => Good(draft')
  <2>1. Good(ApplyOutboundDeletion(draft, dialog.at))
    BY CleanupFits, Zenon DEF ApplyOutboundDeletion
  <2>2. Good(SyncObservatories(draft))
    BY SyncFits, Zenon DEF Good
  <2> QED BY <2>1, <2>2, ConfirmGood, Zenon DEF ConfirmOutboundDeletion
<1>4. ASSUME NEW i, MoveOutbound(i) PROVE Good(draft')
  <2>1. Good([draft EXCEPT !.outbounds = Swap(draft.outbounds, i)])
        /\ Good([draft EXCEPT !.outbounds = ToFront(draft.outbounds, i)])
    BY OtherParts, Zenon
  <2> QED BY <1>4, <2>1, MutateGood, Zenon DEF MoveOutbound
<1> QED BY <1>1, <1>2, <1>3, <1>4, Zenon DEF EditOutbounds, ConfirmOutbounds

LEMMA RulesGood == Good(draft) /\ EditRules => Good(draft')
<1> SUFFICES ASSUME Good(draft) PROVE EditRules => Good(draft')
  OBVIOUS
<1>1. ASSUME NEW i, NEW to, OpenRule(i, to) PROVE Good(draft')
  BY <1>1 DEF OpenRule, Open
<1>2. ASSUME NEW i, OpenRuleDeletion(i) PROVE Good(draft')
  BY <1>2 DEF OpenRuleDeletion, Open
<1>3. ConfirmRule \/ ConfirmRuleDeletion => Good(draft')
  <2>1. Good([draft EXCEPT !.rules = Put(draft.rules, dialog.at, dialog.form)])
        /\ Good([draft EXCEPT !.rules = Cut(draft.rules, dialog.at)])
    BY OtherParts, Zenon
  <2> QED BY <2>1, ConfirmGood, Zenon DEF ConfirmRule, ConfirmRuleDeletion
<1>4. ASSUME NEW i, MoveRule(i) PROVE Good(draft')
  <2>1. Good([draft EXCEPT !.rules = Swap(draft.rules, i)])
    BY OtherParts, Zenon
  <2> QED BY <1>4, <2>1, MutateGood, Zenon DEF MoveRule
<1>5. ASSUME NEW tag, NEW criterion, NEW some, SetBasicRule(tag, criterion, some) PROVE Good(draft')
  <2> DEFINE c == RuleSetter(draft, tag, criterion, some)
  <2>1. Good(c)
    <3> QED BY OtherParts, Zenon DEF RuleSetter
  <2> HIDE DEF c
  <2>2. Good(SyncOutbound(c, tag))
    <3> DEFINE at   == SelectInSeq(c.outbounds, LAMBDA o : o.tag = tag)
               used == \E i \in DOMAIN c.rules : c.rules[i].outbound = tag
               d1   == [c EXCEPT !.outbounds = RemoveAt(c.outbounds, at)]
               d2   == [c EXCEPT !.outbounds = Append(c.outbounds, OutboundOf(tag))]
    <3>1. Good(d1) /\ Good(d2)
      BY <2>1, OtherParts, Zenon
    <3>2. SyncOutbound(c, tag) = CASE ~used /\ at > 1 -> d1 [] used /\ at = 0 -> d2 [] OTHER -> c
      BY DEF SyncOutbound
    <3> HIDE DEF at, used, d1, d2
    <3> QED BY <2>1, <3>1, <3>2
  <2>3. Mutate(c) \/ Mutate(SyncOutbound(c, tag))
    BY <1>5, Zenon DEF SetBasicRule, c
  <2> QED BY <2>1, <2>2, <2>3, MutateGood, Zenon
<1>6. ASSUME NEW tag, SetDefaultOutbound(tag) PROVE Good(draft')
  <2> DEFINE at == SelectInSeq(draft.outbounds, LAMBDA o : o.tag = tag)
             s1 == << OutboundOf(tag) >> \o draft.outbounds
             s2 == ToFront(draft.outbounds, at)
             d1 == [draft EXCEPT !.outbounds = s1]
             d2 == [draft EXCEPT !.outbounds = s2]
  <2>1. Good(d1) /\ Good(d2)
    BY OtherParts, Zenon
  <2>2. SetDefaultOutboundTag(draft, tag)
          = CASE at = 0 /\ tag.name \in {"direct", "blocked"} -> d1 [] at > 1 -> d2 [] OTHER -> draft
    BY DEF SetDefaultOutboundTag
  <2> HIDE DEF at, d1, d2
  <2>3. Good(SetDefaultOutboundTag(draft, tag))
    BY <2>1, <2>2
  <2> QED BY <1>6, <2>3, MutateGood, Zenon DEF SetDefaultOutbound
<1> QED BY <1>1, <1>2, <1>3, <1>4, <1>5, <1>6, Zenon DEF EditRules

\* The loopbacks are outbounds and rules.
LEMMA LoopbackConfig ==
  ASSUME NEW c, IsConfig(c), NEW b
  PROVE  /\ IsConfig(EnsureBalancerLoopback(c, b))
         /\ IsConfig(RemoveBalancerLoopback(c, b))
         /\ IsConfig(RemoveBalancerLoopbackIfOrphaned(c, b))
<1>1. IsConfig(EnsureBalancerLoopback(c, b))
  BY OtherParts, Zenon DEF EnsureBalancerLoopback
<1>2. IsConfig(RemoveBalancerLoopback(c, b))
  BY OtherParts, Zenon DEF RemoveBalancerLoopback
<1> QED BY <1>1, <1>2, Zenon DEF RemoveBalancerLoopbackIfOrphaned

LEMMA RenamedConfig ==
  ASSUME NEW c, IsConfig(c), NEW old, NEW new
  PROVE  IsConfig(RenamedBalancer(c, old, new))
<1>1. ASSUME NEW d, NEW rs, NEW bs, NEW os, IsConfig(d)
      PROVE  IsConfig([d EXCEPT !.rules = rs, !.balancers = bs, !.outbounds = os])
  <2> DEFINE d1 == [d EXCEPT !.rules = rs]
             d2 == [d1 EXCEPT !.balancers = bs]
  <2>1. IsConfig(d1)
    BY <1>1, OneField
  <2> HIDE DEF d1
  <2>2. IsConfig(d2)
    BY <2>1, OneField
  <2> HIDE DEF d2
  <2>3. IsConfig([d2 EXCEPT !.outbounds = os])
    BY <2>2, OneField
  <2> QED BY <2>3 DEF d2, d1
<1>2. ASSUME NEW d, IsConfig(d) PROVE IsConfig(PropagateBalancerTagRename(d, old, new))
  BY <1>1, <1>2, Zenon DEF PropagateBalancerTagRename
<1> QED BY <1>2, OtherParts, Zenon DEF RenamedBalancer, Rerouted

LEMMA BalancersGood == Good(draft) /\ EditBalancers => Good(draft')
<1> SUFFICES ASSUME Good(draft) PROVE EditBalancers => Good(draft')
  OBVIOUS
<1>1. ASSUME NEW i, NEW form, OpenBalancer(i, form) PROVE Good(draft')
  BY <1>1 DEF OpenBalancer, Open
<1>2. ASSUME NEW i, OpenBalancerDeletion(i) PROVE Good(draft')
  BY <1>2 DEF OpenBalancerDeletion, Open
<1>3. ConfirmBalancer => Good(draft')
  <2> DEFINE form       == dialog.form
             toBalancer == form.fallback \in OtherTags(dialog.at)
             wire       == Wire(form, toBalancer)
             edit       == dialog.at \in DOMAIN draft.balancers
             before     == draft.balancers[dialog.at]
             put        == [draft EXCEPT !.balancers = Put(@, dialog.at, wire)]
             renamed    == IF edit THEN RenamedBalancer(put, before.tag, wire.tag) ELSE put
             trimmed    == IF edit /\ IsLoopback(before.fallback) /\ before.fallback.name # form.fallback
                           THEN RemoveBalancerLoopbackIfOrphaned(renamed, before.fallback.name) ELSE renamed
             ensured    == IF toBalancer THEN EnsureBalancerLoopback(trimmed, form.fallback) ELSE trimmed
  <2>1. ConfirmBalancer => Confirm(SyncObservatories(ensured))
    BY Zenon DEF ConfirmBalancer
  <2>2. IsConfig(put)
    <3>1. \A bs : IsConfig([draft EXCEPT !.balancers = bs])
      BY SMT DEF Good, IsConfig
    <3> QED BY <3>1, Zenon
  <2> HIDE DEF put
  <2>3. IsConfig(renamed)
    BY <2>2, RenamedConfig, Zenon
  <2> HIDE DEF renamed
  <2>4. IsConfig(trimmed)
    BY <2>3, LoopbackConfig, Zenon
  <2> HIDE DEF trimmed
  <2>5. IsConfig(ensured)
    BY <2>4, LoopbackConfig, Zenon
  <2> HIDE DEF ensured
  <2> QED BY <2>1, <2>5, SyncFits, ConfirmGood, Zenon
<1>4. ConfirmBalancerDeletion => Good(draft')
  <2>1. \A c, i : Good(ApplyBalancerDeletion(c, i))
    BY CleanupFits, Zenon DEF ApplyBalancerDeletion
  <2>2. Good(SyncObservatories(draft))
    BY SyncFits, Zenon DEF Good
  <2> QED BY <2>1, <2>2, ConfirmGood, Zenon DEF ConfirmBalancerDeletion
<1> QED BY <1>1, <1>2, <1>3, <1>4, Zenon DEF EditBalancers

LEMMA ProvidersGood == Good(draft) /\ EditProviders => Good(draft')
<1> SUFFICES ASSUME Good(draft) PROVE EditProviders => Good(draft')
  OBVIOUS
<1>1. ASSUME NEW k, OpenProvider(k) PROVE Good(draft')
  BY <1>1 DEF OpenProvider, Open
<1>2. ASSUME NEW tag, PutProvider(tag) PROVE Good(draft')
  <2> DEFINE at  == IndexOf(IF tag = Warp THEN {Warp} ELSE Nord)
             put == [draft EXCEPT !.outbounds = Put(draft.outbounds, at, ProviderOf(tag))]
             old == draft.outbounds[at].tag
  <2>1. Good(put)
    BY OtherParts, Zenon
  <2>2. Good(PropagateOutboundTagRename(put, old, tag))
    BY <2>1, RenameFits, Zenon
  <2>3. Confirm(put) \/ Confirm(PropagateOutboundTagRename(put, old, tag))
    BY <1>2, Zenon DEF PutProvider
  <2> QED BY <2>1, <2>2, <2>3, ConfirmGood, Zenon
<1>3. RemoveWarp => Good(draft')
  BY OtherParts, ConfirmGood, Zenon DEF RemoveWarp
<1>4. RemoveNord => Good(draft')
  BY OtherParts, ConfirmGood, Zenon DEF RemoveNord
<1>5. LogOut => Good(draft')
  BY DEF LogOut
<1> QED BY <1>1, <1>2, <1>3, <1>4, <1>5, Zenon DEF EditProviders

LEMMA FormGood == Good(draft) /\ EditOutboundForm => Good(draft')
<1>1. ASSUME NEW form, EditForm(form) PROVE UNCHANGED draft
  BY <1>1 DEF EditForm
<1>2. ASSUME NEW control, NEW v, UseControl(control, v) PROVE UNCHANGED draft
  BY <1>1, <1>2, Zenon DEF UseControl
<1>3. UseControls => UNCHANGED draft
  BY <1>2, Zenon DEF UseControls
<1>4. OpenJson \/ TypeJson \/ OpenBasic \/ RefuseText => UNCHANGED draft
  BY <1>1, Zenon DEF OpenJson, TypeJson, OpenBasic, RefuseText
<1>5. ASSUME NEW link, NEW endpoint, ImportLink(link, endpoint) PROVE UNCHANGED draft
  BY <1>1, <1>5, Zenon DEF ImportLink
<1>6. ImportLinks => UNCHANGED draft
  BY <1>5, Zenon DEF ImportLinks
<1> QED BY <1>3, <1>4, <1>6, Zenon DEF EditOutboundForm

LEMMA EditGood ==
  Good(draft) /\ (EditOutbounds \/ EditOutboundForm \/ EditRules \/ EditBalancers \/ EditProviders)
    => Good(draft')
BY OutboundsGood, FormGood, RulesGood, BalancersGood, ProvidersGood, Zenon

\* What is saved has the balancers of the draft.
LEMMA SavedGood ==
  ASSUME Shaped(Loose, draft), Good(draft)
  PROVE  Good(CleanupOrphanedBalancerLoopbacks(EnsureMissingBalancerLoopbacks(draft)))
<1> DEFINE m == Len(draft.balancers)
<1>0. Len(draft.balancers) \in Nat
  BY Lists, Zenon
<1>1. PICK f : /\ EnsureMissingBalancerLoopbacks(draft) = f[m]
               /\ m \in Nat /\ f[0] = draft
               /\ \A k \in 1..m : f[k] = Completed(draft, f[k - 1], k)
  BY <1>0, Completion, Zenon
<1> HIDE DEF m
<1>2. ASSUME NEW x, Good(x), NEW n PROVE Good(Completed(draft, x, n))
  <2>1. \A b : Good(EnsureBalancerLoopback(x, b))
    BY <1>2, OtherParts, Zenon DEF EnsureBalancerLoopback
  <2> QED BY <1>2, <2>1, Zenon DEF Completed
<1> DEFINE T == { k \in 0..m : Good(f[k]) }
<1>3. 0 \in T
  BY <1>1
<1>4. ASSUME NEW k \in 1..m, k - 1 \in T PROVE k \in T
  <2>1. Good(f[k])
    BY <1>1, <1>2, <1>4
  <2> QED BY <2>1
<1>5. m \in T
  <2> HIDE DEF T
  <2> QED BY <1>1, <1>3, <1>4, CountedUp, Zenon
<1>6. ASSUME NEW c, Good(c) PROVE Good(CleanupOrphanedBalancerLoopbacks(c))
  BY <1>6, OtherParts, Zenon DEF CleanupOrphanedBalancerLoopbacks
<1>7. Good(f[m])
  BY <1>5
<1> QED BY <1>1, <1>6, <1>7

LEMMA StoredGood == \A c \in Stored \cup {Default} : Good(c)
BY EditorAssumption, RecordsFit, Zenon DEF Good, Shaped, NamesOfTheirOwn

LEMMA InitConfig == Init => ConfigInv
<1>1. Good(Default) /\ \A c \in Stored : Good(c)
  BY StoredGood, Zenon
<1> QED BY <1>1 DEF Init, ConfigInv, Idle

LEMMA StepConfig == SaveInv /\ PageInv /\ ConfigInv /\ [Next]_vars => ConfigInv'
<1> SUFFICES ASSUME SaveInv, PageInv, ConfigInv, [Next]_vars PROVE ConfigInv'
  OBVIOUS
<1>0. Good(Default) /\ \A c \in Stored : Good(c)
  BY StoredGood, Zenon
<1>a. save = [phase |-> save.phase, config |-> save.config, doubt |-> save.doubt]
  BY DEF SaveInv
<1>1. CASE UNCHANGED vars
  BY <1>1 DEF vars, ConfigInv
<1>2. CASE EditOutbounds \/ EditOutboundForm \/ EditRules \/ EditBalancers \/ EditProviders
  <2>1. Kept
    BY <1>2, OutboundsKeep, OutboundFormKeeps, RulesKeep, BalancersKeep, ProvidersKeep, Zenon
  <2>2. Good(draft')
    BY <1>2, EditGood, Zenon DEF ConfigInv
  <2> QED BY <2>1, <2>2 DEF ConfigInv, Kept, server, query
<1>3. CASE TypeText \/ ResetToDefault \/ Cancel
  <2>1. Kept
    BY <1>3, MutateKeeps, Zenon DEF TypeText, ResetToDefault, Cancel, Kept
  <2>2. Good(draft')
    BY <1>0, <1>3 DEF TypeText, ResetToDefault, Cancel, Mutate, ConfigInv
  <2> QED BY <2>1, <2>2 DEF ConfigInv, Kept, server, query
<1>4. CASE Poll \/ RefreshXrayData
  BY <1>4 DEF Poll, RefreshXrayData, server, ConfigInv
<1>5. CASE FetchReturns
  <2>1. UNCHANGED stored /\ (draft' = stored \/ draft' = draft)
    BY <1>5, Zenon DEF FetchReturns, server
  <2>2. save' = [save EXCEPT !.doubt = @ /\ cache' = cache]
    BY <1>5, Zenon DEF FetchReturns
  <2>3. save'.config = save.config
    BY <1>a, <2>2
  <2> QED BY <2>1, <2>3 DEF ConfigInv
<1>6. CASE OnSaveAll
  <2> DEFINE clone == CleanupOrphanedBalancerLoopbacks(EnsureMissingBalancerLoopbacks(draft))
  <2>1. Good(clone)
    BY SavedGood, Zenon DEF ConfigInv, PageInv, PageAt
  <2>2. draft' = clone /\ save' = [save EXCEPT !.phase = "sent", !.config = clone] /\ UNCHANGED stored
    BY <1>6, Zenon DEF OnSaveAll, server
  <2> HIDE DEF clone
  <2>3. save'.config = clone
    BY <1>a, <2>2
  <2> QED BY <2>1, <2>2, <2>3 DEF ConfigInv
<1>7. CASE ServerSaves
  <2>1. /\ UNCHANGED draft
        /\ \/ stored' = save.config /\ save' = [save EXCEPT !.phase = "saved"]
           \/ stored' = save.config /\ save' = [save EXCEPT !.phase = "refused", !.doubt = TRUE]
           \/ UNCHANGED stored /\ save' = [save EXCEPT !.phase = "refused"]
    BY <1>7, Zenon DEF ServerSaves
  <2>2. save'.config = save.config
    BY <1>a, <2>1
  <2> QED BY <2>1, <2>2 DEF ConfigInv
<1>8. CASE SaveReturns
  BY <1>0, <1>8 DEF SaveReturns, server, Idle, ConfigInv
<1> QED BY <1>1, <1>2, <1>3, <1>4, <1>5, <1>6, <1>7, <1>8, Zenon DEF Next, SaveAndSync

\* Whatever the page edits, types, saves and fetches, the draft has the
\* observer its balancers need and no other, for all configurations that have
\* it at the start (reference-cleanup.ts, balancer-helpers.ts:59-80).
THEOREM ObserverFollows == Spec => []ObserverWhereNeeded
<1>1. ConfigInv => ObserverWhereNeeded
  BY DEF ConfigInv, Good, ObserverWhereNeeded
<1> QED BY <1>1, InitConfig, StepConfig, SaveInvAlways, PageInvAlways, PTL DEF Spec

-----------------------------------------------------------------------------
(* The elements of a list, and what the edits leave of them.                  *)

\* All elements but the one at a position.
AllBut(s, i) == { s[j] : j \in DOMAIN s \ {i} }

\* The elements of a list are those at its positions.
LEMMA RangeIs ==
  ASSUME NEW f, NEW S, \A i \in DOMAIN f : f[i] \in S, \A y \in S : \E i \in DOMAIN f : y = f[i]
  PROVE  Range(f) = S
<1>1. ASSUME NEW y \in Range(f) PROVE y \in S
  <2>1. \E i \in DOMAIN f : y = f[i]
    BY Zenon DEF Range
  <2> QED BY <2>1, Zenon
<1>2. ASSUME NEW y \in S PROVE y \in Range(f)
  BY Zenon DEF Range
<1> QED BY <1>1, <1>2, Zenon

LEMMA Joined ==
  ASSUME NEW X, NEW s \in Seq(X), NEW t \in Seq(X)
  PROVE  Range(s \o t) = Range(s) \cup Range(t)
<1> DEFINE u == s \o t
           m == Len(s)
           n == Len(t)
<1>1. /\ DOMAIN u = 1..(m + n) /\ m \in Nat /\ n \in Nat /\ DOMAIN s = 1..m /\ DOMAIN t = 1..n
      /\ \A i \in 1..(m + n) : u[i] = IF i <= m THEN s[i] ELSE t[i - m]
  OBVIOUS
<1>2. /\ \A i \in 1..m : i \in 1..(m + n) /\ i <= m
      /\ \A i \in 1..n : i + m \in 1..(m + n) /\ ~(i + m <= m) /\ (i + m) - m = i
      /\ \A i \in 1..(m + n) : IF i <= m THEN i \in 1..m ELSE i - m \in 1..n
  BY <1>1, SMT
<1> HIDE DEF u, m, n
<1>3. ASSUME NEW i \in 1..m PROVE i \in DOMAIN u /\ u[i] = s[i]
  BY <1>1, <1>2, Zenon
<1>4. ASSUME NEW i \in 1..n PROVE i + m \in DOMAIN u /\ u[i + m] = t[i]
  BY <1>1, <1>2, Zenon
<1>5. ASSUME NEW i \in DOMAIN u PROVE u[i] \in Range(s) \cup Range(t)
  <2>1. CASE i <= m
    <3>1. i \in DOMAIN s /\ u[i] = s[i]
      BY <1>1, <1>2, <2>1, Zenon
    <3> QED BY <3>1, Zenon DEF Range
  <2>2. CASE ~(i <= m)
    <3>1. i - m \in DOMAIN t /\ u[i] = t[i - m]
      BY <1>1, <1>2, <2>2, Zenon
    <3> QED BY <3>1, Zenon DEF Range
  <2> QED BY <2>1, <2>2
<1>6. Range(u) = Range(s) \cup Range(t)
  <2>1. ASSUME NEW y \in Range(s) PROVE y \in Range(u)
    BY <1>1, <1>3, Zenon DEF Range
  <2>2. ASSUME NEW y \in Range(t) PROVE y \in Range(u)
    BY <1>1, <1>4, Zenon DEF Range
  <2>3. ASSUME NEW y \in Range(u) PROVE y \in Range(s) \cup Range(t)
    BY <1>5, Zenon DEF Range
  <2> QED BY <2>1, <2>2, <2>3
<1> QED BY <1>6 DEF u

LEMMA Appended ==
  ASSUME NEW X, NEW s \in Seq(X), NEW x
  PROVE  Range(Append(s, x)) = Range(s) \cup {x}
<1>1. Len(s) \in Nat /\ DOMAIN s = 1..Len(s)
  OBVIOUS
<1>2. Range(Append(s, x)) = Range(s) \cup {x}
  <2> DEFINE t == Append(s, x)
  <2>1. /\ DOMAIN t = 1..(Len(s) + 1) /\ t[Len(s) + 1] = x
        /\ \A i \in 1..Len(s) : t[i] = s[i]
    OBVIOUS
  <2>2. \A i : i \in 1..(Len(s) + 1) <=> i \in 1..Len(s) \/ i = Len(s) + 1
    BY <1>1, SMT
  <2> HIDE DEF t
  <2>3. \A i \in DOMAIN t : t[i] \in Range(s) \cup {x}
    BY <1>1, <2>1, <2>2, Zenon DEF Range
  <2>4. \A y \in Range(s) \cup {x} : \E i \in DOMAIN t : y = t[i]
    BY <1>1, <2>1, <2>2, Zenon DEF Range
  <2>5. Range(t) = Range(s) \cup {x}
    BY <2>3, <2>4, RangeIs, Zenon
  <2> QED BY <2>5 DEF t
<1> QED BY <1>2

LEMMA Prefixed ==
  ASSUME NEW Y, NEW t \in Seq(Y), NEW y
  PROVE  Range(<< y >> \o t) = Range(t) \cup {y}
<1>3. Range(<< y >> \o t) = Range(t) \cup {y}
  <2> DEFINE Z == Y \cup {y}
             u == << y >>
  <2>1. u \in Seq(Z) /\ t \in Seq(Z) /\ DOMAIN u = {1} /\ u[1] = y
    OBVIOUS
  <2>2. Range(u \o t) = Range(u) \cup Range(t)
    <3> HIDE DEF Z, u
    <3>1. u \in Seq(Z) /\ t \in Seq(Z)
      BY <2>1
    <3> QED BY <3>1, Joined, SMT
  <2>3. Range(u) = {y}
    <3> HIDE DEF u
    <3> QED BY <2>1, Zenon DEF Range
  <2> QED BY <2>2, <2>3, Zenon
<1> QED BY <1>3

LEMMA Assigned ==
  ASSUME NEW s, NEW i \in DOMAIN s, NEW x
  PROVE  Range([s EXCEPT ![i] = x]) = AllBut(s, i) \cup {x}
<1>4. Range([s EXCEPT ![i] = x]) = AllBut(s, i) \cup {x}
  <2> DEFINE t == [s EXCEPT ![i] = x]
  <2>1. DOMAIN t = DOMAIN s /\ t[i] = x /\ \A j \in DOMAIN s \ {i} : t[j] = s[j]
    OBVIOUS
  <2> HIDE DEF t
  <2> QED BY <2>1, Zenon DEF Range, AllBut
<1> QED BY <1>4

LEMMA Removed ==
  ASSUME NEW X, NEW s \in Seq(X), NEW i \in DOMAIN s
  PROVE  RemoveAt(s, i) \in Seq(X) /\ Range(RemoveAt(s, i)) = AllBut(s, i)
<1>1. Len(s) \in Nat /\ DOMAIN s = 1..Len(s)
  OBVIOUS
<1>5. RemoveAt(s, i) \in Seq(X) /\ Range(RemoveAt(s, i)) = AllBut(s, i)
  <2> DEFINE n == Len(s)
             a == SubSeq(s, 1, i - 1)
             b == SubSeq(s, i + 1, n)
  <2>1. /\ a \in Seq(X) /\ DOMAIN a = 1..(i - 1) /\ \A j \in 1..(i - 1) : a[j] = s[j]
        /\ b \in Seq(X) /\ DOMAIN b = 1..(n - i) /\ \A j \in 1..(n - i) : b[j] = s[j + i]
    <3>1. i \in Nat /\ n \in Nat /\ 1 <= i /\ i <= n /\ \A j \in 1..n : s[j] \in X
      BY <1>1
    <3>2. a \in Seq(X) /\ Len(a) = i - 1
      BY <3>1, SMT
    <3>3. b \in Seq(X) /\ Len(b) = n - i
      BY <3>1, SMT
    <3>4. \A j \in 1..(i - 1) : a[j] = s[j]
      BY <3>1, SMT
    <3>5. \A j \in 1..(n - i) : b[j] = s[(i + 1) + j - 1] /\ (i + 1) + j - 1 = j + i
      BY <3>1, SMT
    <3>6. DOMAIN a = 1..Len(a) /\ DOMAIN b = 1..Len(b)
      BY <3>2, <3>3
    <3> QED BY <3>2, <3>3, <3>4, <3>5, <3>6, Zenon
  <2>2. /\ \A j \in 1..(i - 1) : j \in DOMAIN s \ {i}
        /\ \A j \in 1..(n - i) : j + i \in DOMAIN s \ {i}
        /\ \A j \in DOMAIN s \ {i} : j \in 1..(i - 1) \/ (j - i \in 1..(n - i) /\ (j - i) + i = j)
    BY <1>1, SMT
  <2>3. RemoveAt(s, i) = a \o b
    BY Zenon DEF RemoveAt
  <2> HIDE DEF n, a, b
  <2>4. Range(a \o b) = Range(a) \cup Range(b)
    BY <2>1, Joined, Zenon
  <2>5. ASSUME NEW y \in AllBut(s, i) PROVE y \in Range(a) \cup Range(b)
    <3>1. PICK j \in DOMAIN s \ {i} : y = s[j]
      BY Zenon DEF AllBut
    <3>2. CASE j \in 1..(i - 1)
      <4>1. j \in DOMAIN a /\ y = a[j]
        BY <2>1, <3>1, <3>2, Zenon
      <4> QED BY <4>1, Zenon DEF Range
    <3>3. CASE j \notin 1..(i - 1)
      <4>1. j - i \in 1..(n - i) /\ (j - i) + i = j
        BY <2>2, <3>3, Zenon
      <4>2. j - i \in DOMAIN b /\ y = b[j - i]
        BY <2>1, <3>1, <4>1, Zenon
      <4> QED BY <4>2, Zenon DEF Range
    <3> QED BY <3>2, <3>3
  <2>6. ASSUME NEW y \in Range(a) PROVE y \in AllBut(s, i)
    <3>1. PICK j \in 1..(i - 1) : y = a[j]
      BY <2>1, Zenon DEF Range
    <3>2. y = s[j] /\ j \in DOMAIN s \ {i}
      BY <2>1, <2>2, <3>1, Zenon
    <3> QED BY <3>2, Zenon DEF AllBut
  <2>7. ASSUME NEW y \in Range(b) PROVE y \in AllBut(s, i)
    <3>1. PICK j \in 1..(n - i) : y = b[j]
      BY <2>1, Zenon DEF Range
    <3>2. y = s[j + i] /\ j + i \in DOMAIN s \ {i}
      BY <2>1, <2>2, <3>1, Zenon
    <3> QED BY <3>2, Zenon DEF AllBut
  <2>8. a \o b \in Seq(X)
    BY <2>1
  <2> QED BY <2>3, <2>4, <2>5, <2>6, <2>7, <2>8, Zenon
<1> QED BY <1>5

LEMMA AllButNone ==
  ASSUME NEW s, NEW i, i \notin DOMAIN s
  PROVE  AllBut(s, i) = Range(s)
BY Zenon DEF AllBut, Range

LEMMA PutRange ==
  ASSUME NEW X, NEW s \in Seq(X), NEW i, NEW x
  PROVE  Range(Put(s, i, x)) = AllBut(s, i) \cup {x}
<1>1. CASE i \in DOMAIN s
  <2>1. Put(s, i, x) = [s EXCEPT ![i] = x]
    BY <1>1, Zenon DEF Put
  <2>2. Range([s EXCEPT ![i] = x]) = AllBut(s, i) \cup {x}
    BY <1>1, Assigned
  <2> QED BY <2>1, <2>2
<1>2. CASE i \notin DOMAIN s
  <2>1. Range(Append(s, x)) = Range(s) \cup {x} /\ AllBut(s, i) = Range(s)
    BY <1>2, Appended, AllButNone, Zenon
  <2>2. Put(s, i, x) = Append(s, x)
    BY <1>2, Zenon DEF Put
  <2> QED BY <2>1, <2>2
<1> QED BY <1>1, <1>2

LEMMA CutRange ==
  ASSUME NEW X, NEW s \in Seq(X), NEW i
  PROVE  Range(Cut(s, i)) = AllBut(s, i)
BY Removed, AllButNone, Zenon DEF Cut

LEMMA Fronted ==
  ASSUME NEW X, NEW s \in Seq(X), NEW i \in DOMAIN s
  PROVE  Range(ToFront(s, i)) = Range(s)
<1>9. Range(s) = AllBut(s, i) \cup {s[i]}
  BY Zenon DEF AllBut, Range
<1>10. Range(ToFront(s, i)) = Range(s)
  <2> DEFINE t == RemoveAt(s, i)
             y == s[i]
  <2>1. ToFront(s, i) = << y >> \o t
    BY Zenon DEF ToFront
  <2>2. t \in Seq(X) /\ Range(t) = AllBut(s, i) /\ Range(s) = AllBut(s, i) \cup {y}
    BY Removed, <1>9, Zenon
  <2> HIDE DEF t, y
  <2>3. Range(<< y >> \o t) = Range(t) \cup {y}
    BY Prefixed, <2>2, Zenon
  <2> QED BY <2>1, <2>2, <2>3, Zenon
<1> QED BY <1>10

LEMMA Swapped ==
  ASSUME NEW X, NEW s \in Seq(X), NEW i \in DOMAIN s, i < Len(s)
  PROVE  Range(Swap(s, i)) = Range(s)
<1>1. Len(s) \in Nat /\ DOMAIN s = 1..Len(s)
  OBVIOUS
<1>11. Range(Swap(s, i)) = Range(s)
  <2> DEFINE t == Swap(s, i)
             k == i + 1
  <2>1. k \in DOMAIN s /\ k # i
    BY <1>1, SMT
  <2>2. t = [[s EXCEPT ![i] = s[k]] EXCEPT ![k] = s[i]]
    BY DEF Swap
  <2> HIDE DEF k
  <2>3. DOMAIN t = DOMAIN s /\ t[k] = s[i] /\ t[i] = s[k] /\ \A j \in DOMAIN s \ {i, k} : t[j] = s[j]
    BY <2>1, <2>2
  <2> HIDE DEF t
  <2>4. ASSUME NEW j \in DOMAIN s PROVE \E m \in DOMAIN s : t[m] = s[j]
    BY <2>1, <2>3
  <2>5. ASSUME NEW j \in DOMAIN s PROVE \E m \in DOMAIN s : s[m] = t[j]
    BY <2>1, <2>3
  <2>6. \A j \in DOMAIN t : t[j] \in Range(s)
    BY <2>3, <2>5, Zenon DEF Range
  <2>7. \A y \in Range(s) : \E j \in DOMAIN t : y = t[j]
    BY <2>3, <2>4, Zenon DEF Range
  <2>8. Range(t) = Range(s)
    BY <2>6, <2>7, RangeIs, Zenon
  <2> QED BY <2>8 DEF t
<1> QED BY <1>11

\* The elements at some positions.
LEMMA Picked ==
  ASSUME NEW X, NEW s \in Seq(X), NEW I \in SUBSET DOMAIN s
  PROVE  Range(Select(s, I)) = { s[i] : i \in I }
<1>1. /\ DOMAIN Select(s, I) = 1..Cardinality(I)
      /\ \A n \in 1..Cardinality(I) : Nth(I, n) \in I /\ Select(s, I)[n] = s[Nth(I, n)]
      /\ \A i \in I : Rank(I, i) \in 1..Cardinality(I) /\ Select(s, I)[Rank(I, i)] = s[i]
  BY Selected, Zenon
<1> DEFINE t == Select(s, I)
           S == { s[i] : i \in I }
<1> HIDE DEF t
<1>2. \A n \in DOMAIN t : t[n] \in S
  BY <1>1, Zenon DEF t
<1>3. \A y \in S : \E i \in I : y = s[i]
  OBVIOUS
<1>4. ASSUME NEW y \in S PROVE \E n \in DOMAIN t : y = t[n]
  <2>1. PICK i \in I : y = s[i]
    BY <1>3
  <2>2. Rank(I, i) \in DOMAIN t /\ t[Rank(I, i)] = y
    BY <1>1, <2>1, Zenon DEF t
  <2> QED BY <2>2, Zenon
<1> HIDE DEF S
<1>5. Range(t) = S
  BY <1>2, <1>4, RangeIs, Zenon
<1> QED BY <1>5 DEF t, S

-----------------------------------------------------------------------------
(* References: the outbounds that rules name, and the loopbacks through which *)
(* a balancer falls back to another.                                          *)

\* The balancers' names are distinct, and their loopbacks named after balancers.
Wired(c) ==
    /\ \A i \in DOMAIN c.balancers : IsLoopback(c.balancers[i].fallback) =>
          c.balancers[i].fallback = Lb(c.balancers[i].fallback.name)
    /\ \A i, j \in DOMAIN c.balancers : c.balancers[i].tag = c.balancers[j].tag => i = j

\* The loopback of balancer n leads to it.
Leads(c, n) ==
    /\ Lb(n) \in TagsOf(c.outbounds) /\ n \in TagsOf(c.balancers)
    /\ \E r \in Range(c.rules) : r.inbound = Lb(n)

AllLead(c) == \A b \in Range(c.balancers) : \A n : b.fallback = Lb(n) => Leads(c, n)

\* What an edit may leave dangling.
Excepted == {Warp, Out("blocked")}

\* What an edit keeps: of the fallbacks, only from rules of loopbacks that lead.
Mends(lev, c, d) ==
    /\ Dangling(d) \subseteq Dangling(c) \cup Excepted
    /\ lev = Led /\ AllLead(c) => AllLead(d)

LEMMA TagsAre ==
  ASSUME NEW s
  PROVE  /\ \A t : t \in TagsOf(s) <=> \E x \in Range(s) : x.tag = t
         /\ \A i \in DOMAIN s : s[i] \in Range(s)
         /\ \A x \in Range(s) : \E i \in DOMAIN s : s[i] = x
<1>1. ASSUME NEW x \in Range(s) PROVE \E i \in DOMAIN s : s[i] = x
  BY Zenon DEF Range
<1>2. \A i \in DOMAIN s : s[i] \in Range(s)
  BY Zenon DEF Range
<1>3. ASSUME NEW t PROVE t \in TagsOf(s) <=> \E i \in DOMAIN s : s[i].tag = t
  BY Zenon DEF TagsOf
<1> QED BY <1>1, <1>2, <1>3, Zenon

\* A loopback's kind.
LEMMA LoopKind ==
  /\ \A n : IsLoopback(Lb(n)) /\ Lb(n).name = n /\ Lb(n).kind # "out"
  /\ ~IsLoopback(NoTag) /\ NoTag.kind # "out"
  /\ \A n : ~IsLoopback(Out(n)) /\ Out(n).kind = "out" /\ Out(n) # NoTag
<1>1. \A n : IsLoopback(Lb(n)) /\ Lb(n).name = n /\ Lb(n).kind # "out"
  BY SMT DEF Lb, IsLoopback
<1>2. ~IsLoopback(NoTag) /\ NoTag.kind # "out"
  BY SMT DEF NoTag, IsLoopback
<1>3. \A n : ~IsLoopback(Out(n)) /\ Out(n).kind = "out"
  BY SMT DEF Out, IsLoopback
<1> QED BY <1>1, <1>2, <1>3, Zenon

\* The rules of loopbacks, and the fallbacks of balancers, by their elements.
LEMMA LoopRules ==
  ASSUME NEW lev, NEW c, Shaped(lev, c)
  PROVE  /\ lev = Led => \A r \in Range(c.rules) : \A n :
               r.inbound = Lb(n) => r.outbound = NoTag /\ r.balancer = n
         /\ \A b \in Range(c.balancers) : Named(b)
<1>1. /\ \A i \in DOMAIN c.rules : RuleFits(lev, c.rules[i])
      /\ \A i \in DOMAIN c.balancers : BalancerFits(c.balancers[i])
  BY Lists, ElementsFit, Zenon
<1>2. \A r \in Range(c.rules) : RuleFits(lev, r)
  BY <1>1, TagsAre, Zenon
<1>3. \A b \in Range(c.balancers) : BalancerFits(b)
  BY <1>1, TagsAre, Zenon
<1>4. \A r \in Range(c.rules) : \A n : lev = Led /\ r.inbound = Lb(n) => r.outbound = NoTag /\ r.balancer = n
  BY <1>2, LoopKind, LoopbackNames, Zenon DEF RuleFits, LeadsOnly
<1> QED BY <1>3, <1>4, Zenon DEF BalancerFits

LEMMA Positions == \A m \in Nat : 0 \notin 1..m /\ 1..m \in SUBSET Nat
BY SMT

\* The first rule that matches.
LEMMA TargetIs ==
  ASSUME NEW c, Shaped(Led, c), NEW n, n # ""
  PROVE  FindLoopbackTarget(c, Lb(n)) = n <=> \E r \in Range(c.rules) : r.inbound = Lb(n)
<1> DEFINE e   == ""
           s   == c.rules
           I   == { i \in 1..Len(s) : s[i].inbound = Lb(n) /\ s[i].balancer # e }
           hit == IF I # {} THEN Min(I) ELSE 0
           t   == FindLoopbackTarget(c, Lb(n))
<1>1. t = IF hit = 0 THEN e ELSE s[hit].balancer
  BY DEF FindLoopbackTarget, SelectInSeq
<1>2. Len(s) \in Nat /\ DOMAIN s = 1..Len(s) /\ I \in SUBSET (1..Len(s))
  BY Lists, Zenon
<1>3. \A i : i \in I <=> i \in DOMAIN s /\ s[i].inbound = Lb(n) /\ s[i].balancer # e
  BY <1>2
<1>4. \A r \in Range(s) : r.inbound = Lb(n) => r.balancer = n
  BY LoopRules, Zenon
<1>5. /\ \A i \in DOMAIN s : s[i] \in Range(s)
      /\ \A r \in Range(s) : \E i \in DOMAIN s : s[i] = r
  BY TagsAre, Zenon
<1>6. hit = IF I # {} THEN Min(I) ELSE 0
  OBVIOUS
<1>a. n # e
  OBVIOUS
<1> HIDE DEF e, I, hit, s, t
<1>7. (I = {} => hit = 0) /\ (I # {} => hit \in I /\ hit # 0)
  <2>1. I \in SUBSET Nat /\ 0 \notin I
    BY <1>2, Positions, Zenon
  <2>2. I # {} => hit = Min(I) /\ Min(I) \in I
    BY <1>6, <2>1, MinIsLeast, Zenon
  <2> QED BY <1>6, <2>1, <2>2, Zenon
<1>8. ASSUME NEW r \in Range(s), r.inbound = Lb(n) PROVE I # {}
  <2>1. PICK i \in DOMAIN s : s[i] = r
    BY <1>5, Zenon
  <2>2. s[i].balancer # e /\ s[i].inbound = Lb(n)
    BY <1>4, <1>8, <1>a, <2>1, Zenon
  <2> QED BY <1>3, <2>2, Zenon
<1>9. hit \in I => s[hit].balancer = n /\ \E r \in Range(s) : r.inbound = Lb(n)
  BY <1>3, <1>4, <1>5, Zenon
<1>10. t = n <=> \E r \in Range(s) : r.inbound = Lb(n)
  BY <1>1, <1>7, <1>8, <1>9, <1>a, Zenon
<1> QED BY <1>10 DEF s, t

\* What the property says of the fallbacks, without the order of the rules.
LEMMA LeadsAgree ==
  ASSUME NEW c, Shaped(Led, c), Wired(c)
  PROVE  FallbacksLead(c) <=> AllLead(c)
<1>1. ASSUME NEW b \in Range(c.balancers), NEW n, b.fallback = Lb(n)
      PROVE  /\ IsLoopback(b.fallback) /\ b.fallback.name = n
             /\ /\ b.fallback \in TagsOf(c.outbounds)
                /\ FindLoopbackTarget(c, b.fallback) = b.fallback.name
                /\ b.fallback.name \in TagsOf(c.balancers)
                <=> Leads(c, n)
  <2>1. IsLoopback(b.fallback) /\ b.fallback.name = n
    BY <1>1, LoopKind
  <2>2. n \in TagsOf(c.balancers) => n # ""
    <3>1. n \in TagsOf(c.balancers) => \E x \in Range(c.balancers) : x.tag = n
      BY TagsAre, Zenon
    <3>2. \A x \in Range(c.balancers) : Named(x)
      BY LoopRules, Zenon
    <3> QED BY <3>1, <3>2, Zenon DEF Named
  <2>3. n # "" => (FindLoopbackTarget(c, Lb(n)) = n <=> \E r \in Range(c.rules) : r.inbound = Lb(n))
    BY TargetIs, Zenon
  <2>4. /\ Lb(n) \in TagsOf(c.outbounds)
        /\ FindLoopbackTarget(c, Lb(n)) = n
        /\ n \in TagsOf(c.balancers)
        <=> Leads(c, n)
    BY <2>2, <2>3, Zenon DEF Leads
  <2> QED BY <1>1, <2>1, <2>4
<1>2. ASSUME NEW b \in Range(c.balancers), IsLoopback(b.fallback)
      PROVE  b.fallback = Lb(b.fallback.name)
  <2>1. PICK i \in DOMAIN c.balancers : c.balancers[i] = b
    BY TagsAre, Zenon
  <2> QED BY <1>2, <2>1, Zenon DEF Wired
<1>3. ASSUME FallbacksLead(c) PROVE AllLead(c)
  BY <1>1, <1>3, Zenon DEF FallbacksLead, AllLead
<1>4. ASSUME AllLead(c) PROVE FallbacksLead(c)
  <2>1. ASSUME NEW b \in Range(c.balancers), IsLoopback(b.fallback) PROVE Leads(c, b.fallback.name)
    BY <1>2, <1>4, <2>1, Zenon DEF AllLead
  <2> QED BY <1>1, <1>2, <2>1, Zenon DEF FallbacksLead
<1> QED BY <1>3, <1>4

\* What keeps the rules' outbounds.
KeepsRoutes(c, d) ==
    /\ \A t \in TagsOf(c.outbounds) : t.kind = "out" =>
          t \in TagsOf(d.outbounds) \cup Excepted \/ \A r \in Range(d.rules) : r.outbound # t
    /\ \A r \in Range(d.rules) : r.outbound.kind = "out" =>
          \/ \E q \in Range(c.rules) : q.outbound = r.outbound
          \/ r.outbound \in TagsOf(d.outbounds) \cup Excepted

\* What keeps the loopbacks.
KeepsLoops(c, d) ==
    /\ \A n : Lb(n) \in TagsOf(c.outbounds) => Lb(n) \in TagsOf(d.outbounds)
    /\ \A r \in Range(c.rules) : \A n : r.inbound = Lb(n) => \E q \in Range(d.rules) : q.inbound = Lb(n)
    /\ \A n \in TagsOf(c.balancers) : n \in TagsOf(d.balancers)
    /\ \A b \in Range(d.balancers) : \A n : b.fallback = Lb(n) => \E x \in Range(c.balancers) : x.fallback = Lb(n)

LEMMA RoutesKept ==
  ASSUME NEW c, NEW d, KeepsRoutes(c, d)
  PROVE  Dangling(d) \subseteq Dangling(c) \cup Excepted
<1> SUFFICES ASSUME NEW t \in Dangling(d), t \notin Excepted PROVE t \in Dangling(c)
  OBVIOUS
<1>1. \A x : \A t_1 : t_1 \in Dangling(x) <=> /\ \E r \in Range(x.rules) : r.outbound = t_1
                                             /\ t_1.kind = "out" /\ t_1 \notin TagsOf(x.outbounds)
  BY Zenon DEF Dangling
<1>2. PICK r \in Range(d.rules) : r.outbound = t /\ t.kind = "out" /\ t \notin TagsOf(d.outbounds)
  BY <1>1, Zenon
<1>3. t \notin TagsOf(c.outbounds)
  BY <1>2, Zenon DEF KeepsRoutes
<1>4. \E q \in Range(c.rules) : q.outbound = t
  BY <1>2, Zenon DEF KeepsRoutes
<1> QED BY <1>1, <1>2, <1>3, <1>4, Zenon

LEMMA LoopsKept ==
  ASSUME NEW c, NEW d, KeepsLoops(c, d), AllLead(c)
  PROVE  AllLead(d)
<1> SUFFICES ASSUME NEW b \in Range(d.balancers), NEW n, b.fallback = Lb(n) PROVE Leads(d, n)
  BY Zenon DEF AllLead
<1>1. PICK x \in Range(c.balancers) : x.fallback = Lb(n)
  BY Zenon DEF KeepsLoops
<1>2. Leads(c, n)
  BY <1>1, Zenon DEF AllLead
<1> QED BY <1>2, Zenon DEF KeepsLoops, Leads

LEMMA Mended ==
  ASSUME NEW lev, NEW c, NEW d, KeepsRoutes(c, d), lev = Led => KeepsLoops(c, d)
  PROVE  Mends(lev, c, d)
BY RoutesKept, LoopsKept, Zenon DEF Mends

\* The parts of a configuration after an edit of some.
LEMMA OutboundsPut ==
  ASSUME NEW lev, NEW c, Shaped(lev, c), NEW os
  PROVE  LET d == [c EXCEPT !.outbounds = os]
         IN  d.outbounds = os /\ d.rules = c.rules /\ d.balancers = c.balancers
<1>1. IsConfig(c)
  BY Zenon DEF Shaped
<1> QED BY <1>1 DEF IsConfig

LEMMA RulesPut ==
  ASSUME NEW lev, NEW c, Shaped(lev, c), NEW rs
  PROVE  LET d == [c EXCEPT !.rules = rs]
         IN  d.outbounds = c.outbounds /\ d.rules = rs /\ d.balancers = c.balancers
<1>1. IsConfig(c)
  BY Zenon DEF Shaped
<1> QED BY <1>1 DEF IsConfig

LEMMA BalancersPut ==
  ASSUME NEW lev, NEW c, Shaped(lev, c), NEW bs
  PROVE  LET d == [c EXCEPT !.balancers = bs]
         IN  d.outbounds = c.outbounds /\ d.rules = c.rules /\ d.balancers = bs
<1>1. IsConfig(c)
  BY Zenon DEF Shaped
<1> QED BY <1>1 DEF IsConfig

LEMMA BothPut ==
  ASSUME NEW lev, NEW c, Shaped(lev, c), NEW os, NEW rs
  PROVE  LET d == [c EXCEPT !.outbounds = os, !.rules = rs]
         IN  d.outbounds = os /\ d.rules = rs /\ d.balancers = c.balancers
<1>1. IsConfig(c)
  BY Zenon DEF Shaped
<1> QED BY <1>1 DEF IsConfig

LEMMA AllPut ==
  ASSUME NEW lev, NEW c, Shaped(lev, c), NEW rs, NEW bs, NEW os
  PROVE  LET d == [c EXCEPT !.rules = rs, !.balancers = bs, !.outbounds = os]
         IN  d.outbounds = os /\ d.rules = rs /\ d.balancers = bs
<1>1. IsConfig(c)
  BY Zenon DEF Shaped
<1> QED BY <1>1 DEF IsConfig

\* The fields of a balancer after a renaming.
LEMMA RetaggedParts ==
  ASSUME NEW b, NEW old, NEW new
  PROVE  /\ Retagged(b, old, new).tag = b.tag
         /\ Retagged(b, old, new).fallback = Subst(b.fallback, old, new)
<1> DEFINE s == { Subst(x, old, new) : x \in b.selector }
           d == [tag |-> b.tag, strategy |-> b.strategy, selector |-> s, fallback |-> Subst(b.fallback, old, new)]
<1>1. Retagged(b, old, new) = d
  BY Zenon DEF Retagged
<1> HIDE DEF s
<1>2. d.tag = b.tag /\ d.fallback = Subst(b.fallback, old, new)
  OBVIOUS
<1> HIDE DEF d
<1> QED BY <1>1, <1>2

\* An outbound that an edit may take away.
Spare(c, t) ==
    /\ \A n : t # Lb(n)
    /\ t \in Excepted \/ t.kind # "out" \/ \A r \in Range(c.rules) : r.outbound # t

LEMMA OutboundsMended ==
  ASSUME NEW lev, NEW c, Shaped(lev, c), NEW os, \A x \in Range(c.outbounds) : x.tag \in TagsOf(os) \/ Spare(c, x.tag)
  PROVE  /\ Mends(lev, c, [c EXCEPT !.outbounds = os])
         /\ Wired(c) => Wired([c EXCEPT !.outbounds = os])
<1> DEFINE d == [c EXCEPT !.outbounds = os]
<1>1. d.outbounds = os /\ d.rules = c.rules /\ d.balancers = c.balancers
  BY OutboundsPut, Zenon
<1> HIDE DEF d
<1>2. \A t : t \in TagsOf(c.outbounds) => t \in TagsOf(d.outbounds) \/ Spare(c, t)
  BY <1>1, TagsAre
<1>3. KeepsRoutes(c, d)
  BY <1>1, <1>2, Zenon DEF KeepsRoutes, Spare
<1>4. KeepsLoops(c, d)
  BY <1>1, <1>2, Zenon DEF KeepsLoops, Spare
<1>5. Mends(lev, c, d) /\ (Wired(c) => Wired(d))
  BY <1>1, <1>3, <1>4, Mended, Zenon DEF Wired
<1> QED BY <1>5, Zenon DEF d

LEMMA RulesMended ==
  ASSUME NEW lev, NEW c, Shaped(lev, c), NEW rs,
         lev = Led => \A r \in Range(c.rules) : r \in Range(rs) \/ \A n : r.inbound # Lb(n),
         \A r \in Range(rs) : \/ \E q \in Range(c.rules) : q.outbound = r.outbound
                              \/ r.outbound.kind # "out"
                              \/ r.outbound \in TagsOf(c.outbounds) \cup Excepted
  PROVE  /\ Mends(lev, c, [c EXCEPT !.rules = rs])
         /\ Wired(c) => Wired([c EXCEPT !.rules = rs])
<1> DEFINE d == [c EXCEPT !.rules = rs]
<1>1. d.outbounds = c.outbounds /\ d.rules = rs /\ d.balancers = c.balancers
  BY RulesPut, Zenon
<1> HIDE DEF d
<1>3. KeepsRoutes(c, d)
  BY <1>1, Zenon DEF KeepsRoutes
<1>4. lev = Led => KeepsLoops(c, d)
  BY <1>1, Zenon DEF KeepsLoops
<1>5. Mends(lev, c, d) /\ (Wired(c) => Wired(d))
  BY <1>1, <1>3, <1>4, Mended, Zenon DEF Wired
<1> QED BY <1>5, Zenon DEF d

\* A renamed outbound is named by what named it before.
LEMMA RenameMended ==
  ASSUME NEW lev, NEW c, Shaped(lev, c), NEW put, Shaped(lev, put), put.rules = c.rules, put.balancers = c.balancers,
         NEW old, NEW new, lev = Led => ~IsLoopback(old), ~IsLoopback(new), new # NoTag,
         new \in TagsOf(put.outbounds),
         \A t \in TagsOf(c.outbounds) : t \in TagsOf(put.outbounds) \/ t = old
  PROVE  /\ Mends(lev, c, PropagateOutboundTagRename(put, old, new))
<1> DEFINE rs == [r \in DOMAIN put.rules |-> Redirected(put.rules[r], old, new)]
           bs == [b \in DOMAIN put.balancers |-> Retagged(put.balancers[b], old, new)]
           os == [o \in DOMAIN put.outbounds |-> Redialed(put.outbounds[o], old, new)]
           d  == PropagateOutboundTagRename(put, old, new)
<1>0. \A n : (lev = Led => Lb(n) # old) /\ Lb(n) # new
  BY LoopKind, Zenon
<1>1. CASE NoTag \in {old, new}
  <2>1. d = put /\ old = NoTag /\ old.kind # "out"
    BY <1>1, LoopKind, Zenon DEF PropagateOutboundTagRename
  <2> HIDE DEF d
  <2>2. KeepsRoutes(c, d)
    BY <2>1, Zenon DEF KeepsRoutes
  <2>3. lev = Led => KeepsLoops(c, d)
    BY <1>0, <2>1, Zenon DEF KeepsLoops
  <2>4. Mends(lev, c, d)
    BY <2>2, <2>3, Mended, Zenon
  <2> QED BY <2>4 DEF d
<1>2. CASE NoTag \notin {old, new}
  <2>1. d = [put EXCEPT !.rules = rs, !.balancers = bs, !.outbounds = os]
    BY <1>2, Zenon DEF PropagateOutboundTagRename
  <2>2. DOMAIN rs = DOMAIN c.rules /\ \A i \in DOMAIN c.rules : rs[i] = Redirected(c.rules[i], old, new)
    OBVIOUS
  <2>3. DOMAIN bs = DOMAIN c.balancers /\ \A i \in DOMAIN c.balancers : bs[i] = Retagged(c.balancers[i], old, new)
    OBVIOUS
  <2>4. DOMAIN os = DOMAIN put.outbounds /\ \A i \in DOMAIN put.outbounds : os[i] = Redialed(put.outbounds[i], old, new)
    OBVIOUS
  <2> HIDE DEF rs, bs, os, d
  <2>5. d.outbounds = os /\ d.rules = rs /\ d.balancers = bs
    <3> DEFINE e == [put EXCEPT !.rules = rs, !.balancers = bs, !.outbounds = os]
    <3>1. e.outbounds = os /\ e.rules = rs /\ e.balancers = bs
      BY AllPut
    <3>2. d = e
      BY <2>1, Zenon
    <3> HIDE DEF e
    <3> QED BY <3>1, <3>2
  <2>6. /\ \A i \in DOMAIN c.rules : RuleFits(lev, c.rules[i])
        /\ \A i \in DOMAIN put.outbounds : OutboundFits(put.outbounds[i])
    BY Lists, ElementsFit, Zenon
  <2>7. ASSUME NEW i \in DOMAIN c.rules
        PROVE  rs[i].inbound = c.rules[i].inbound /\ rs[i].outbound = Subst(c.rules[i].outbound, old, new)
    <3> DEFINE r == c.rules[i]
    <3>1. RuleFits(lev, r) /\ rs[i] = Redirected(r, old, new)
      BY <2>2, <2>6, Zenon
    <3> HIDE DEF r
    <3>2. rs[i].inbound = r.inbound /\ rs[i].outbound = Subst(r.outbound, old, new)
      BY <3>1, SMT DEF RuleFits, Redirected
    <3> QED BY <3>2 DEF r
  <2>8. ASSUME NEW i \in DOMAIN c.balancers
        PROVE  bs[i].tag = c.balancers[i].tag /\ bs[i].fallback = Subst(c.balancers[i].fallback, old, new)
    <3> DEFINE b == c.balancers[i]
    <3>1. bs[i] = Retagged(b, old, new)
      BY <2>3, Zenon
    <3>2. Retagged(b, old, new).tag = b.tag /\ Retagged(b, old, new).fallback = Subst(b.fallback, old, new)
      BY RetaggedParts
    <3> HIDE DEF b
    <3>3. bs[i].tag = b.tag /\ bs[i].fallback = Subst(b.fallback, old, new)
      BY <3>1, <3>2
    <3> QED BY <3>3 DEF b
  <2>9. ASSUME NEW i \in DOMAIN put.outbounds PROVE os[i].tag = put.outbounds[i].tag
    <3> DEFINE o == put.outbounds[i]
               x == Subst(o.dialer, old, new)
    <3>1. OutboundFits(o) /\ os[i] = [o EXCEPT !.dialer = x]
      BY <2>4, <2>6, Zenon DEF Redialed
    <3> HIDE DEF o, x
    <3>2. os[i].tag = o.tag
      BY <3>1, OutboundEdited, Zenon
    <3> QED BY <3>2 DEF o
  <2>10. TagsOf(d.outbounds) = TagsOf(put.outbounds) /\ TagsOf(d.balancers) = TagsOf(c.balancers)
    BY <2>3, <2>4, <2>5, <2>8, <2>9 DEF TagsOf
  <2>11. ASSUME NEW r \in Range(d.rules)
         PROVE  \E q \in Range(c.rules) : r.inbound = q.inbound /\ r.outbound = Subst(q.outbound, old, new)
    <3>1. PICK i \in DOMAIN c.rules : r = rs[i]
      BY <2>2, <2>5, TagsAre
    <3> QED BY <2>7, <3>1, TagsAre, Zenon
  <2>12. ASSUME NEW q \in Range(c.rules)
         PROVE  \E r \in Range(d.rules) : r.inbound = q.inbound
    <3>1. PICK i \in DOMAIN c.rules : q = c.rules[i]
      BY TagsAre, Zenon
    <3>2. rs[i] \in Range(d.rules)
      BY <2>2, <2>5, TagsAre, Zenon
    <3> QED BY <2>7, <3>1, <3>2, Zenon
  <2>13. ASSUME NEW b \in Range(d.balancers)
         PROVE  \E x \in Range(c.balancers) : b.fallback = Subst(x.fallback, old, new)
    <3>1. PICK i \in DOMAIN c.balancers : b = bs[i]
      BY <2>3, <2>5, TagsAre
    <3> QED BY <2>8, <3>1, TagsAre, Zenon
  <2>14. KeepsRoutes(c, d)
    <3>1. ASSUME NEW t \in TagsOf(c.outbounds)
          PROVE  t \in TagsOf(d.outbounds) \/ \A r \in Range(d.rules) : r.outbound # t
      <4>1. CASE t \in TagsOf(put.outbounds)
        BY <2>10, <4>1
      <4>2. CASE t \notin TagsOf(put.outbounds)
        <5>1. t = old /\ new # old
          BY <4>2, Zenon
        <5> QED BY <2>11, <5>1, Zenon DEF Subst
      <4> QED BY <4>1, <4>2
    <3>2. ASSUME NEW r \in Range(d.rules)
          PROVE  (\E q \in Range(c.rules) : q.outbound = r.outbound) \/ r.outbound \in TagsOf(d.outbounds)
      BY <2>10, <2>11, Zenon DEF Subst
    <3> QED BY <3>1, <3>2, Zenon DEF KeepsRoutes
  <2>15. lev = Led => KeepsLoops(c, d)
    BY <1>0, <2>10, <2>12, <2>13, Zenon DEF KeepsLoops, Subst
  <2>16. Mends(lev, c, d)
    BY <2>14, <2>15, Mended, Zenon
  <2> QED BY <2>16 DEF d
<1> QED BY <1>1, <1>2

\* Renaming an outbound leaves the names of the balancers and their loopbacks.
LEMMA RenameWired ==
  ASSUME NEW lev, NEW c, Shaped(lev, c), Wired(c), NEW old, NEW new, ~IsLoopback(new)
  PROVE  Wired(PropagateOutboundTagRename(c, old, new))
<1> DEFINE rs == [r \in DOMAIN c.rules |-> Redirected(c.rules[r], old, new)]
           bs == [b \in DOMAIN c.balancers |-> Retagged(c.balancers[b], old, new)]
           os == [o \in DOMAIN c.outbounds |-> Redialed(c.outbounds[o], old, new)]
           d  == PropagateOutboundTagRename(c, old, new)
<1>1. CASE NoTag \in {old, new}
  BY <1>1, Zenon DEF PropagateOutboundTagRename
<1>2. CASE NoTag \notin {old, new}
  <2>1. d = [c EXCEPT !.rules = rs, !.balancers = bs, !.outbounds = os]
    BY <1>2, Zenon DEF PropagateOutboundTagRename
  <2>2. DOMAIN bs = DOMAIN c.balancers /\ \A i \in DOMAIN c.balancers : bs[i] = Retagged(c.balancers[i], old, new)
    OBVIOUS
  <2> HIDE DEF rs, bs, os, d
  <2>3. d.balancers = bs
    <3> DEFINE e == [c EXCEPT !.rules = rs, !.balancers = bs, !.outbounds = os]
    <3>1. e.outbounds = os /\ e.rules = rs /\ e.balancers = bs
      BY AllPut
    <3>2. d = e
      BY <2>1, Zenon
    <3> HIDE DEF e
    <3> QED BY <3>1, <3>2
  <2>4. ASSUME NEW i \in DOMAIN c.balancers
        PROVE  bs[i].tag = c.balancers[i].tag /\ bs[i].fallback = Subst(c.balancers[i].fallback, old, new)
    <3> DEFINE b == c.balancers[i]
    <3>1. bs[i] = Retagged(b, old, new)
      BY <2>2, Zenon
    <3>2. Retagged(b, old, new).tag = b.tag /\ Retagged(b, old, new).fallback = Subst(b.fallback, old, new)
      BY RetaggedParts
    <3> HIDE DEF b
    <3>3. bs[i].tag = b.tag /\ bs[i].fallback = Subst(b.fallback, old, new)
      BY <3>1, <3>2
    <3> QED BY <3>3 DEF b
  <2>5. Wired(d)
    BY <2>2, <2>3, <2>4, Zenon DEF Wired, Subst
  <2> QED BY <2>5 DEF d
<1> QED BY <1>1, <1>2

\* The tag of an outbound through the form.
LEMMA TagsStay ==
  ASSUME NEW o, OutboundFits(o), NEW x
  PROVE  /\ [o EXCEPT !.protocol = x].tag = o.tag /\ [o EXCEPT !.server = x].tag = o.tag
         /\ [o EXCEPT !.flow = x].tag = o.tag /\ [o EXCEPT !.encryption = x].tag = o.tag
         /\ [o EXCEPT !.stream = x].tag = o.tag /\ [o EXCEPT !.mux = x].tag = o.tag
         /\ [o EXCEPT !.tag = x].tag = x
BY SMT DEF OutboundFits

LEMMA WireTags ==
  ASSUME NEW o, OutboundFits(o)
  PROVE  FromWire(o).tag = o.tag /\ ToWire(o).tag = o.tag
<1>1. FromWire(o).tag = o.tag
  <2> DEFINE x  == IF o.protocol = "vless" THEN o.flow ELSE ""
             d  == [o EXCEPT !.flow = x]
             y  == IF o.protocol = "vless" THEN o.encryption ELSE "none"
             e1 == [o EXCEPT !.protocol = "vless"]
             e2 == [e1 EXCEPT !.server = NoServer]
             e3 == [e2 EXCEPT !.flow = ""]
  <2>1. d.encryption = o.encryption
    <3> HIDE DEF x
    <3> QED BY DEF OutboundFits
  <2>2. FromWire(o) = [d EXCEPT !.encryption = y] \/ FromWire(o) = [e3 EXCEPT !.encryption = "none"]
    BY <2>1, Zenon DEF FromWire
  <2> HIDE DEF x, y
  <2>3. OutboundFits(d) /\ OutboundFits(e1) /\ d.tag = o.tag /\ e1.tag = o.tag
    BY OutboundField, TagsStay, Zenon
  <2> HIDE DEF d, e1
  <2>4. OutboundFits(e2) /\ e2.tag = e1.tag
    BY <2>3, OutboundField, TagsStay, Zenon
  <2> HIDE DEF e2
  <2>5. OutboundFits(e3) /\ e3.tag = e2.tag
    BY <2>4, OutboundField, TagsStay, Zenon
  <2> HIDE DEF e3
  <2>6. [d EXCEPT !.encryption = y].tag = d.tag /\ [e3 EXCEPT !.encryption = "none"].tag = e3.tag
    BY <2>3, <2>5, TagsStay, Zenon
  <2> QED BY <2>2, <2>3, <2>4, <2>5, <2>6
<1>2. ToWire(o).tag = o.tag
  <2> DEFINE t == IF StreamWritten(o.protocol) THEN NormalizeStream(o.stream) ELSE NoStream
             d == [o EXCEPT !.stream = t]
             m == o.mux /\ MuxAllowed(o)
  <2>1. d.mux = o.mux
    <3> HIDE DEF t
    <3> QED BY DEF OutboundFits
  <2>2. ToWire(o) = [d EXCEPT !.mux = m]
    BY <2>1, Zenon DEF ToWire
  <2> HIDE DEF t, m
  <2>3. d = [tag |-> o.tag, protocol |-> o.protocol, dialer |-> o.dialer, server |-> o.server, flow |-> o.flow,
             encryption |-> o.encryption, stream |-> t, mux |-> o.mux]
    BY DEF OutboundFits
  <2> HIDE DEF d
  <2>4. [d EXCEPT !.mux = m].tag = o.tag
    BY <2>3
  <2> QED BY <2>2, <2>4
<1> QED BY <1>1, <1>2

LEMMA MadeTags ==
  /\ \A tag : OutboundOf(tag).tag = tag /\ ProviderOf(tag).tag = tag
  /\ \A b : LoopbackOf(b).tag = Lb(b)
<1>1. ASSUME NEW tag PROVE OutboundOf(tag).tag = tag
  BY Zenon DEF OutboundOf
<1>2. ASSUME NEW tag, NEW p PROVE [OutboundOf(tag) EXCEPT !.protocol = p].tag = tag
  <2> DEFINE o == OutboundOf(tag)
  <2>1. OutboundFits(o) /\ o.tag = tag
    BY <1>1, MadeOutbounds, Zenon
  <2> HIDE DEF o
  <2>2. [o EXCEPT !.protocol = p].tag = tag
    BY <2>1, TagsStay, Zenon
  <2> QED BY <2>2 DEF o
<1> QED BY <1>1, <1>2, Zenon DEF ProviderOf, LoopbackOf

\* Only the balancers' names and fallbacks matter.
LEMMA SameBalancers ==
  ASSUME NEW lev, NEW c, Wired(c), NEW d, d.balancers = c.balancers
  PROVE  Wired(d)
BY Zenon DEF Wired

\* The elements that an edit of a list leaves.
Listed(s) == \E lev : OutboundList(s) \/ RuleList(lev, s) \/ BalancerList(s)

LEMMA PutLeaves ==
  ASSUME NEW s, Listed(s), NEW i, NEW x
  PROVE  /\ \A y \in Range(s) : y \in Range(Put(s, i, x)) \/ (i \in DOMAIN s /\ y = s[i])
         /\ \A y \in Range(Put(s, i, x)) : y = x \/ y \in Range(s)
         /\ x \in Range(Put(s, i, x))
<1>1. s \in Seq(Range(s))
  BY ListsAre, Zenon DEF Listed
<1>2. Range(Put(s, i, x)) = AllBut(s, i) \cup {x}
  BY <1>1, PutRange
<1>3. \A y \in Range(s) : y \in AllBut(s, i) \/ (i \in DOMAIN s /\ y = s[i])
  BY Zenon DEF Range, AllBut
<1>4. \A y \in AllBut(s, i) : y \in Range(s)
  BY Zenon DEF Range, AllBut
<1> QED BY <1>2, <1>3, <1>4

LEMMA CutLeaves ==
  ASSUME NEW s, Listed(s), NEW i
  PROVE  /\ \A y \in Range(s) : y \in Range(Cut(s, i)) \/ (i \in DOMAIN s /\ y = s[i])
         /\ \A y \in Range(Cut(s, i)) : y \in Range(s)
         /\ i \in DOMAIN s => RemoveAt(s, i) = Cut(s, i)
<1>1. s \in Seq(Range(s))
  BY ListsAre, Zenon DEF Listed
<1>2. Range(Cut(s, i)) = AllBut(s, i)
  BY <1>1, CutRange, Zenon
<1>3. \A y \in Range(s) : y \in AllBut(s, i) \/ (i \in DOMAIN s /\ y = s[i])
  BY Zenon DEF Range, AllBut
<1>4. \A y \in AllBut(s, i) : y \in Range(s)
  BY Zenon DEF Range, AllBut
<1>5. i \in DOMAIN s => RemoveAt(s, i) = Cut(s, i)
  BY Zenon DEF Cut
<1> QED BY <1>2, <1>3, <1>4, <1>5

LEMMA MovesLeave ==
  ASSUME NEW s, Listed(s), NEW i \in DOMAIN s
  PROVE  Range(ToFront(s, i)) = Range(s) /\ (i < Len(s) => Range(Swap(s, i)) = Range(s))
<1>1. s \in Seq(Range(s))
  BY ListsAre, Zenon DEF Listed
<1> QED BY <1>1, Fronted, Swapped, Zenon

LEMMA Added ==
  ASSUME NEW s, Listed(s), NEW x
  PROVE  Range(Append(s, x)) = Range(s) \cup {x} /\ Range(<< x >> \o s) = Range(s) \cup {x}
<1>1. s \in Seq(Range(s))
  BY ListsAre, Zenon DEF Listed
<1> QED BY <1>1, Appended, Prefixed, Zenon

\* An outbound put in the place of another, and the renaming that follows.
LEMMA OutboundReplaced ==
  ASSUME NEW lev, NEW c, Shaped(lev, c), NEW i, NEW w, OutboundFits(w), ~IsLoopback(w.tag), w.tag # NoTag
  PROVE  LET put == [c EXCEPT !.outbounds = Put(c.outbounds, i, w)]
             old == c.outbounds[i].tag
             d   == PropagateOutboundTagRename(put, old, w.tag)
         IN  /\ Wired(c) => Wired(put) /\ Wired(d)
             /\ (i \in DOMAIN c.outbounds => old = w.tag) => Mends(lev, c, put)
             /\ i \in DOMAIN c.outbounds /\ (lev = Led => ~IsLoopback(old)) => Mends(lev, c, d)
<1> DEFINE os  == Put(c.outbounds, i, w)
           put == [c EXCEPT !.outbounds = os]
           old == c.outbounds[i].tag
           d   == PropagateOutboundTagRename(put, old, w.tag)
<1>1. OutboundList(c.outbounds) /\ OutboundList(os)
  BY Lists, OutboundEdits, Zenon
<1>2. /\ \A y \in Range(c.outbounds) : y \in Range(os) \/ (i \in DOMAIN c.outbounds /\ y.tag = old)
      /\ w \in Range(os)
  <2>1. Listed(c.outbounds)
    BY <1>1, Zenon DEF Listed
  <2>2. /\ \A y \in Range(c.outbounds) : y \in Range(os) \/ (i \in DOMAIN c.outbounds /\ y = c.outbounds[i])
        /\ w \in Range(os)
    BY <2>1, PutLeaves, Zenon
  <2> QED BY <2>2, Zenon
<1> HIDE DEF os, old
<1>3. /\ \A y \in Range(c.outbounds) : y.tag \in TagsOf(os) \/ (i \in DOMAIN c.outbounds /\ y.tag = old)
      /\ w.tag \in TagsOf(os)
  BY <1>2, TagsAre, Zenon
<1>4. Shaped(lev, put)
  BY <1>1, EditsShaped, Zenon
<1>5. put.outbounds = os /\ put.rules = c.rules /\ put.balancers = c.balancers
  BY OutboundsPut, Zenon
<1>6. (i \in DOMAIN c.outbounds => old = w.tag) => Mends(lev, c, put)
  <2> SUFFICES ASSUME i \in DOMAIN c.outbounds => old = w.tag PROVE Mends(lev, c, put)
    OBVIOUS
  <2>1. \A y \in Range(c.outbounds) : y.tag \in TagsOf(os)
    BY <1>3
  <2> QED BY <2>1, OutboundsMended, Zenon
<1> HIDE DEF put
<1>7. Wired(c) => Wired(put) /\ Wired(d)
  BY <1>4, <1>5, SameBalancers, RenameWired, Zenon
<1>8. i \in DOMAIN c.outbounds /\ (lev = Led => ~IsLoopback(old)) => Mends(lev, c, d)
  <2> SUFFICES ASSUME i \in DOMAIN c.outbounds, lev = Led => ~IsLoopback(old) PROVE Mends(lev, c, d)
    OBVIOUS
  <2>1. \A t \in TagsOf(c.outbounds) : t \in TagsOf(put.outbounds) \/ t = old
    BY <1>3, <1>5, TagsAre
  <2>2. w.tag \in TagsOf(put.outbounds)
    BY <1>3, <1>5
  <2> DEFINE t == w.tag
  <2>3. ~IsLoopback(t) /\ t # NoTag /\ t \in TagsOf(put.outbounds)
    BY <2>2, Zenon
  <2> HIDE DEF t
  <2>4. Mends(lev, c, PropagateOutboundTagRename(put, old, t))
    BY <1>4, <1>5, <2>1, <2>3, RenameMended, Zenon
  <2> QED BY <2>4 DEF t
<1> QED BY <1>6, <1>7, <1>8, Zenon DEF put, os, old

\* Moving an outbound, and making one the default.
LEMMA OutboundsMoved ==
  ASSUME NEW lev, NEW c, Shaped(lev, c), NEW i \in DOMAIN c.outbounds
  PROVE  /\ i < Len(c.outbounds) => Mends(lev, c, [c EXCEPT !.outbounds = Swap(c.outbounds, i)])
         /\ Mends(lev, c, [c EXCEPT !.outbounds = ToFront(c.outbounds, i)])
<1>1. Listed(c.outbounds)
  BY Lists, Zenon DEF Listed
<1>2. ASSUME NEW os, Range(os) = Range(c.outbounds) PROVE Mends(lev, c, [c EXCEPT !.outbounds = os])
  <2>1. \A x \in Range(c.outbounds) : x.tag \in TagsOf(os)
    BY <1>2, TagsAre
  <2> QED BY <2>1, OutboundsMended, Zenon
<1>3. /\ i < Len(c.outbounds) => Range(Swap(c.outbounds, i)) = Range(c.outbounds)
      /\ Range(ToFront(c.outbounds, i)) = Range(c.outbounds)
  BY <1>1, MovesLeave, Zenon
<1> QED BY <1>2, <1>3, Zenon

\* A rule put in the place of another, and a rule taken away.
LEMMA RulesReplaced ==
  ASSUME NEW lev, NEW c, Shaped(lev, c), NEW i,
         lev = Led /\ i \in DOMAIN c.rules => ~IsLoopback(c.rules[i].inbound),
         NEW f, f.outbound \in {NoTag} \cup TagsOf(c.outbounds) \cup { c.rules[j].outbound : j \in DOMAIN c.rules }
  PROVE  /\ Mends(lev, c, [c EXCEPT !.rules = Put(c.rules, i, f)])
         /\ Mends(lev, c, [c EXCEPT !.rules = Cut(c.rules, i)])
<1> DEFINE rs == c.rules
           ps == Put(rs, i, f)
           cs == Cut(rs, i)
<1>1. Listed(rs)
  BY Lists, Zenon DEF Listed
<1>2. lev = Led /\ i \in DOMAIN rs => \A n : rs[i].inbound # Lb(n)
  BY LoopKind, Zenon
<1>3. /\ \A y \in Range(rs) : y \in Range(ps) \/ (i \in DOMAIN rs /\ y = rs[i])
      /\ \A y \in Range(ps) : y = f \/ y \in Range(rs)
  BY <1>1, PutLeaves, Zenon
<1>4. /\ \A y \in Range(rs) : y \in Range(cs) \/ (i \in DOMAIN rs /\ y = rs[i])
      /\ \A y \in Range(cs) : y \in Range(rs)
  BY <1>1, CutLeaves, Zenon
<1>5. \/ f.outbound = NoTag \/ f.outbound \in TagsOf(c.outbounds)
      \/ \E q \in Range(rs) : q.outbound = f.outbound
  <2>1. \A j \in DOMAIN rs : rs[j] \in Range(rs)
    BY TagsAre, Zenon
  <2> QED BY <2>1, Zenon
<1> HIDE DEF ps, cs
<1>6. Mends(lev, c, [c EXCEPT !.rules = ps])
  <2>1. lev = Led => \A r \in Range(rs) : r \in Range(ps) \/ \A n : r.inbound # Lb(n)
    BY <1>2, <1>3, Zenon
  <2>2. \A r \in Range(ps) : \/ \E q \in Range(rs) : q.outbound = r.outbound
                             \/ r.outbound.kind # "out"
                             \/ r.outbound \in TagsOf(c.outbounds) \cup Excepted
    BY <1>3, <1>5, LoopKind
  <2> QED BY <2>1, <2>2, RulesMended
<1>7. Mends(lev, c, [c EXCEPT !.rules = cs])
  <2>1. lev = Led => \A r \in Range(rs) : r \in Range(cs) \/ \A n : r.inbound # Lb(n)
    BY <1>2, <1>4, Zenon
  <2>2. \A r \in Range(cs) : \/ \E q \in Range(rs) : q.outbound = r.outbound
                             \/ r.outbound.kind # "out"
                             \/ r.outbound \in TagsOf(c.outbounds) \cup Excepted
    BY <1>4, Zenon
  <2> QED BY <2>1, <2>2, RulesMended
<1> QED BY <1>6, <1>7, Zenon DEF ps, cs

LEMMA RulesMoved ==
  ASSUME NEW lev, NEW c, Shaped(lev, c), NEW i \in DOMAIN c.rules, i < Len(c.rules)
  PROVE  Mends(lev, c, [c EXCEPT !.rules = Swap(c.rules, i)])
<1> DEFINE rs == Swap(c.rules, i)
<1>1. Listed(c.rules)
  BY Lists, Zenon DEF Listed
<1>2. Range(rs) = Range(c.rules)
  BY <1>1, MovesLeave, Zenon
<1> HIDE DEF rs
<1>3. \A r \in Range(c.rules) : r \in Range(rs)
  BY <1>2
<1>4. \A r \in Range(rs) : \E q \in Range(c.rules) : q.outbound = r.outbound
  BY <1>2
<1>5. Mends(lev, c, [c EXCEPT !.rules = rs])
  BY <1>3, <1>4, RulesMended
<1> QED BY <1>5 DEF rs

\* Taking away an outbound that no rule needs, or one of those excepted.
LEMMA OutboundCut ==
  ASSUME NEW lev, NEW c, Shaped(lev, c), NEW i, i \in DOMAIN c.outbounds => Spare(c, c.outbounds[i].tag)
  PROVE  Mends(lev, c, [c EXCEPT !.outbounds = Cut(c.outbounds, i)])
<1> DEFINE os == Cut(c.outbounds, i)
<1>1. Listed(c.outbounds)
  BY Lists, Zenon DEF Listed
<1>2. \A y \in Range(c.outbounds) : y \in Range(os) \/ (i \in DOMAIN c.outbounds /\ y = c.outbounds[i])
  BY <1>1, CutLeaves, Zenon
<1> HIDE DEF os
<1>3. \A y \in Range(c.outbounds) : y.tag \in TagsOf(os) \/ Spare(c, y.tag)
  BY <1>2, TagsAre, Zenon
<1>4. Mends(lev, c, [c EXCEPT !.outbounds = os])
  BY <1>3, OutboundsMended, Zenon
<1> QED BY <1>4 DEF os

LEMMA OutboundAdded ==
  ASSUME NEW lev, NEW c, Shaped(lev, c), NEW o
  PROVE  LET a == [c EXCEPT !.outbounds = Append(c.outbounds, o)]
             b == [c EXCEPT !.outbounds = << o >> \o c.outbounds]
         IN  /\ Mends(lev, c, a) /\ a.rules = c.rules /\ \A x : x \in Range(a.outbounds) <=> x = o \/ x \in Range(c.outbounds)
             /\ Mends(lev, c, b)
<1> DEFINE s == Append(c.outbounds, o)
           t == << o >> \o c.outbounds
<1>1. Listed(c.outbounds)
  BY Lists, Zenon DEF Listed
<1>2. Range(s) = Range(c.outbounds) \cup {o} /\ Range(t) = Range(c.outbounds) \cup {o}
  BY <1>1, Added
<1> HIDE DEF s, t
<1>3. /\ \A y \in Range(c.outbounds) : y.tag \in TagsOf(s)
      /\ \A y \in Range(c.outbounds) : y.tag \in TagsOf(t)
  BY <1>2, TagsAre
<1>4. Mends(lev, c, [c EXCEPT !.outbounds = s]) /\ Mends(lev, c, [c EXCEPT !.outbounds = t])
  BY <1>3, OutboundsMended, Zenon
<1>5. [c EXCEPT !.outbounds = s].rules = c.rules /\ [c EXCEPT !.outbounds = s].outbounds = s
  BY OutboundsPut, Zenon
<1>6. \A x : x \in Range([c EXCEPT !.outbounds = s].outbounds) <=> x = o \/ x \in Range(c.outbounds)
  BY <1>2, <1>5
<1> QED BY <1>4, <1>5, <1>6 DEF s, t

\* The first position with one of some tags, 0 when there is none.
IsFirst(at, s, T) ==
    LET I == { i \in 1..Len(s) : s[i].tag \in T }
    IN  at = IF I # {} THEN Min(I) ELSE 0

LEMMA FirstTag ==
  ASSUME NEW lev, NEW c, Shaped(lev, c), NEW T, NEW at, IsFirst(at, c.outbounds, T)
  PROVE  /\ at \in DOMAIN c.outbounds <=> at # 0
         /\ at # 0 => at > 0 /\ c.outbounds[at].tag \in T
         /\ at = 0 => \A t \in TagsOf(c.outbounds) : t \notin T
<1> DEFINE s == c.outbounds
           I == { i \in 1..Len(s) : s[i].tag \in T }
<1>1. at = IF I # {} THEN Min(I) ELSE 0
  BY DEF IsFirst
<1>2. Len(s) \in Nat /\ DOMAIN s = 1..Len(s) /\ I \in SUBSET (1..Len(s))
  BY Lists, Zenon
<1>3. \A i : i \in I <=> i \in DOMAIN s /\ s[i].tag \in T
  BY <1>2
<1>4. /\ \A i \in DOMAIN s : s[i] \in Range(s)
      /\ \A r \in Range(s) : \E i \in DOMAIN s : s[i] = r
  BY TagsAre, Zenon
<1> HIDE DEF s, I
<1>5. (I = {} => at = 0) /\ (I # {} => at \in I /\ at # 0)
  <2>1. I \in SUBSET Nat /\ 0 \notin I
    BY <1>2, Positions, Zenon
  <2>2. I # {} => at = Min(I) /\ Min(I) \in I
    BY <1>1, <2>1, MinIsLeast, Zenon
  <2> QED BY <1>1, <2>1, <2>2, Zenon
<1>6. 0 \notin DOMAIN s /\ \A k \in DOMAIN s : k > 0
  BY <1>2
<1>7. at \in DOMAIN s <=> at # 0
  BY <1>3, <1>5, <1>6, Zenon
<1>8. at # 0 => at > 0 /\ s[at].tag \in T
  BY <1>3, <1>5, <1>6, <1>7, Zenon
<1>9. at = 0 => \A t \in TagsOf(s) : t \notin T
  <2>1. at = 0 => \A o \in Range(s) : o.tag \notin T
    BY <1>3, <1>4, <1>5, Zenon
  <2> QED BY <2>1, TagsAre, Zenon
<1> QED BY <1>7, <1>8, <1>9, Zenon DEF s

LEMMA Untouched == \A lev, c : Mends(lev, c, c)
BY Zenon DEF Mends

LEMMA DefaultMended ==
  ASSUME NEW lev, NEW c, Shaped(lev, c), NEW tag
  PROVE  /\ Mends(lev, c, SetDefaultOutboundTag(c, tag))
         /\ SetDefaultOutboundTag(c, tag).balancers = c.balancers
<1> DEFINE os == c.outbounds
           at == SelectInSeq(os, LAMBDA o : o.tag = tag)
           a  == [c EXCEPT !.outbounds = << OutboundOf(tag) >> \o os]
           b  == [c EXCEPT !.outbounds = ToFront(os, at)]
           d  == SetDefaultOutboundTag(c, tag)
<1> DEFINE p  == at = 0 /\ tag.name \in {"direct", "blocked"}
           q  == at > 1
<1>1. d = CASE p -> a [] q -> b [] OTHER -> c
  BY Zenon DEF SetDefaultOutboundTag
<1>2. ~(p /\ q) /\ (q => at # 0)
  OBVIOUS
<1>3. at \in DOMAIN os <=> at # 0
  <2>1. IsFirst(at, c.outbounds, {tag})
    BY DEF SelectInSeq, IsFirst
  <2> HIDE DEF at
  <2> QED BY <2>1, FirstTag, Zenon
<1>4. Mends(lev, c, a)
  BY OutboundAdded, Zenon
<1>5. q => Mends(lev, c, b)
  BY <1>2, <1>3, OutboundsMoved, Zenon
<1>6. a.balancers = c.balancers /\ b.balancers = c.balancers
  BY OutboundsPut, Zenon
<1>7. Mends(lev, c, c)
  BY Untouched, Zenon
<1> HIDE DEF p, q, a, b, d, at, os
<1>8. (p => d = a) /\ (q => d = b) /\ (~p /\ ~q => d = c)
  BY <1>1, <1>2
<1>9. Mends(lev, c, d) /\ d.balancers = c.balancers
  BY <1>4, <1>5, <1>6, <1>7, <1>8
<1> QED BY <1>9 DEF d

\* The basic page's rules, and the outbound that comes and goes with them.
LEMMA BasicRules ==
  ASSUME NEW lev, NEW c, Shaped(lev, c), NEW name, NEW criterion, NEW some
  PROVE  LET tag == Out(name)
             d   == RuleSetter(c, tag, criterion, some)
         IN  /\ d.outbounds = c.outbounds /\ d.balancers = c.balancers
             /\ \A r \in Range(d.rules) : r.outbound = tag \/ \E q \in Range(c.rules) : q.outbound = r.outbound
             /\ lev = Led => \A r \in Range(c.rules) : \A n : r.inbound = Lb(n) => r \in Range(d.rules)
<1> DEFINE tag  == Out(name)
           s    == c.rules
           old  == RuleGetter(c, tag, criterion)
           stay == IF some THEN { i \in old : \A j \in old : i <= j } ELSE {}
           kept == { i \in DOMAIN s : i \notin old \/ i \in stay }
           new  == [inbound |-> NoTag, criterion |-> criterion, outbound |-> tag, balancer |-> ""]
           as   == Append(s, new)
           ks   == Select(s, kept)
           a    == [c EXCEPT !.rules = as]
           b    == [c EXCEPT !.rules = ks]
           d    == RuleSetter(c, tag, criterion, some)
<1>1. (old = {} /\ d = a) \/ d = b
  BY Zenon DEF RuleSetter
<1>2. new.outbound = tag
  <2> DEFINE e == ""
             x == [inbound |-> NoTag, criterion |-> criterion, outbound |-> tag, balancer |-> e]
  <2>1. new = x
    OBVIOUS
  <2> HIDE DEF e, tag, new
  <2>2. x.outbound = tag
    OBVIOUS
  <2> QED BY <2>1, <2>2
<1>3. Listed(s) /\ s \in Seq(Range(s))
  BY Lists, ListsAre, Zenon DEF Listed
<1>4. \A i \in DOMAIN s : i \notin kept => s[i].outbound = tag
  BY Zenon DEF RuleGetter, Matches
<1>5. kept \in SUBSET DOMAIN s
  OBVIOUS
<1>6. lev = Led => \A r \in Range(s) : \A n : r.inbound = Lb(n) => r.outbound # tag
  <2> SUFFICES ASSUME lev = Led, NEW r \in Range(s), NEW n, r.inbound = Lb(n) PROVE r.outbound # tag
    OBVIOUS
  <2>1. r.outbound = NoTag
    BY LoopRules, Zenon
  <2> QED BY <2>1, LoopKind, Zenon
<1>7. /\ a.outbounds = c.outbounds /\ a.rules = as /\ a.balancers = c.balancers
      /\ b.outbounds = c.outbounds /\ b.rules = ks /\ b.balancers = c.balancers
  <2> HIDE DEF as, ks
  <2> QED BY RulesPut, Zenon
<1> HIDE DEF new, kept, tag, old
<1>8. Range(as) = Range(s) \cup {new}
  BY <1>3, Added
<1>9. Range(ks) = { s[i] : i \in kept }
  BY <1>3, <1>5, Picked
<1> HIDE DEF as, ks, a, b, d
<1>10. ASSUME NEW r \in Range(as) PROVE r.outbound = tag \/ \E q \in Range(s) : q.outbound = r.outbound
  BY <1>2, <1>8
<1>11. ASSUME NEW r \in Range(ks) PROVE \E q \in Range(s) : q.outbound = r.outbound
  <2>1. r \in Range(s)
    BY <1>5, <1>9, TagsAre
  <2> QED BY <2>1, Zenon
<1>12. ASSUME lev = Led, NEW r \in Range(s), NEW n, r.inbound = Lb(n) PROVE r \in Range(as) /\ r \in Range(ks)
  <2>1. PICK i \in DOMAIN s : s[i] = r
    BY TagsAre, Zenon
  <2>2. i \in kept
    BY <1>4, <1>6, <1>12, <2>1, Zenon
  <2> QED BY <1>8, <1>9, <2>1, <2>2
<1>13. \/ d.rules = as \/ d.rules = ks
  BY <1>1, <1>7
<1>14. d.outbounds = c.outbounds /\ d.balancers = c.balancers
  BY <1>1, <1>7
<1>15. \A r \in Range(d.rules) : r.outbound = tag \/ \E q \in Range(s) : q.outbound = r.outbound
  BY <1>10, <1>11, <1>13
<1>16. lev = Led => \A r \in Range(s) : \A n : r.inbound = Lb(n) => r \in Range(d.rules)
  BY <1>12, <1>13
<1> QED BY <1>14, <1>15, <1>16, Zenon DEF d, tag

LEMMA BasicMended ==
  ASSUME NEW lev, NEW c, Shaped(lev, c), NEW name, NEW criterion, NEW some
  PROVE  LET tag == Out(name)
             r   == RuleSetter(c, tag, criterion, some)
             d   == IF tag = Out("blocked") THEN r ELSE SyncOutbound(r, tag)
         IN  Mends(lev, c, d) /\ d.balancers = c.balancers
<1> DEFINE tag  == Out(name)
           r    == RuleSetter(c, tag, criterion, some)
           at   == SelectInSeq(r.outbounds, LAMBDA o : o.tag = tag)
           used == \E i \in DOMAIN r.rules : r.rules[i].outbound = tag
           a    == [r EXCEPT !.outbounds = RemoveAt(r.outbounds, at)]
           cut  == [r EXCEPT !.outbounds = Cut(r.outbounds, at)]
           b    == [r EXCEPT !.outbounds = Append(r.outbounds, OutboundOf(tag))]
           e    == SyncOutbound(r, tag)
<1>1. Shaped(lev, r)
  BY SetterShaped, Zenon
<1>2. /\ r.outbounds = c.outbounds /\ r.balancers = c.balancers
      /\ \A x \in Range(r.rules) : x.outbound = tag \/ \E q \in Range(c.rules) : q.outbound = x.outbound
      /\ lev = Led => \A x \in Range(c.rules) : \A n : x.inbound = Lb(n) => x \in Range(r.rules)
  BY BasicRules
<1>3. /\ at \in DOMAIN r.outbounds <=> at # 0
      /\ at # 0 => at > 0 /\ r.outbounds[at].tag = tag
      /\ at = 0 => tag \notin TagsOf(r.outbounds)
  <2>1. IsFirst(at, r.outbounds, {tag})
    BY DEF SelectInSeq, IsFirst
  <2> HIDE DEF r, tag, at
  <2>2. /\ at \in DOMAIN r.outbounds <=> at # 0
        /\ at # 0 => at > 0 /\ r.outbounds[at].tag \in {tag}
        /\ at = 0 => \A t \in TagsOf(r.outbounds) : t \notin {tag}
    BY <1>1, <2>1, FirstTag, Zenon
  <2> QED BY <2>2, Zenon
<1>4. used <=> \E x \in Range(r.rules) : x.outbound = tag
  <2> DEFINE rs == r.rules
  <2>1. (\A i \in DOMAIN rs : rs[i] \in Range(rs)) /\ (\A x \in Range(rs) : \E i \in DOMAIN rs : rs[i] = x)
    BY TagsAre, Zenon
  <2> HIDE DEF rs
  <2>2. (\E i \in DOMAIN rs : rs[i].outbound = tag) <=> \E x \in Range(rs) : x.outbound = tag
    BY <2>1, Zenon
  <2> QED BY <2>2 DEF rs
<1> DEFINE p == ~used /\ at > 1
           q == used /\ at = 0
<1>5. e = CASE p -> a [] q -> b [] OTHER -> r
  BY Zenon DEF SyncOutbound
<1>6. OutboundOf(tag).tag = tag
  BY MadeTags, Zenon
<1>7. tag.kind = "out" /\ (\A n : tag # Lb(n)) /\ tag # NoTag
  BY LoopKind
<1>8. ~(p /\ q)
  OBVIOUS
<1>9. p => a = cut /\ at # 0
  <2>1. p => at # 0
    OBVIOUS
  <2>2. p => at \in DOMAIN r.outbounds
    BY <1>3, <2>1, Zenon
  <2> QED BY <2>1, <2>2, Zenon DEF Cut
<1>10. /\ cut.outbounds = Cut(r.outbounds, at) /\ cut.rules = r.rules /\ cut.balancers = r.balancers
       /\ b.outbounds = Append(r.outbounds, OutboundOf(tag)) /\ b.rules = r.rules /\ b.balancers = r.balancers
  <2> HIDE DEF r, at, tag
  <2> QED BY <1>1, OutboundsPut, Zenon
<1>11. Listed(r.outbounds)
  BY <1>1, Lists, Zenon DEF Listed
<1>12. \A y \in Range(r.outbounds) : y \in Range(Cut(r.outbounds, at)) \/ (at \in DOMAIN r.outbounds /\ y = r.outbounds[at])
  <2> HIDE DEF r, at
  <2> QED BY <1>11, CutLeaves, Zenon
<1>13. Range(Append(r.outbounds, OutboundOf(tag))) = Range(r.outbounds) \cup {OutboundOf(tag)}
  <2> HIDE DEF r, tag
  <2> QED BY <1>11, Added
<1>14. (p => ~used) /\ (q => used /\ at = 0) /\ (~p /\ ~q /\ used => at # 0)
  OBVIOUS
<1> HIDE DEF tag, r, p, q, e, a, b, used, at, cut
<1>15. (p => e = cut) /\ (q => e = b) /\ (~p /\ ~q => e = r)
  BY <1>5, <1>8, <1>9
<1>16. at # 0 => r.outbounds[at].tag = tag /\ tag \in TagsOf(r.outbounds)
  <2>1. at # 0 => r.outbounds[at] \in Range(r.outbounds)
    BY <1>3, TagsAre, Zenon
  <2> QED BY <1>3, <2>1, TagsAre, Zenon
<1>17. e.rules = r.rules /\ e.balancers = c.balancers
  BY <1>2, <1>10, <1>15
<1>18. ASSUME NEW y \in Range(c.outbounds) PROVE y.tag \in TagsOf(e.outbounds) \/ (y.tag = tag /\ ~used)
  <2>1. CASE p
    <3>1. y \in Range(e.outbounds) \/ (at \in DOMAIN r.outbounds /\ y = r.outbounds[at])
      BY <1>2, <1>10, <1>12, <1>15, <2>1
    <3> QED BY <1>3, <1>14, <1>16, <2>1, <3>1, TagsAre, Zenon
  <2>2. CASE q
    <3>1. y \in Range(e.outbounds)
      BY <1>2, <1>10, <1>13, <1>15, <2>2
    <3> QED BY <3>1, TagsAre, Zenon
  <2>3. CASE ~p /\ ~q
    <3>1. y \in Range(e.outbounds)
      BY <1>2, <1>15, <2>3
    <3> QED BY <3>1, TagsAre, Zenon
  <2> QED BY <2>1, <2>2, <2>3
<1>19. used => tag \in TagsOf(e.outbounds)
  <2>1. CASE q
    <3>1. OutboundOf(tag) \in Range(e.outbounds)
      BY <1>10, <1>13, <1>15, <2>1
    <3> QED BY <1>6, <3>1, TagsAre, Zenon
  <2>2. CASE ~p /\ ~q
    <3>1. e = r
      BY <1>15, <2>2
    <3> QED BY <1>14, <1>16, <2>2, <3>1
  <2> QED BY <1>14, <2>1, <2>2
<1> DEFINE d == IF tag = Out("blocked") THEN r ELSE e
<1>20. /\ d.rules = r.rules /\ d.balancers = c.balancers
       /\ \A y \in Range(c.outbounds) : y.tag \in TagsOf(d.outbounds) \/ (y.tag = tag /\ ~used)
       /\ used => tag \in TagsOf(d.outbounds) \cup Excepted
  <2>1. CASE tag = Out("blocked")
    <3>1. d = r /\ tag \in Excepted
      BY <2>1 DEF Excepted
    <3>2. \A y \in Range(r.outbounds) : y.tag \in TagsOf(r.outbounds)
      BY TagsAre, Zenon
    <3> HIDE DEF d
    <3> QED BY <1>2, <3>1, <3>2
  <2>2. CASE tag # Out("blocked")
    <3>1. d = e
      BY <2>2
    <3> HIDE DEF d
    <3> QED BY <1>17, <1>18, <1>19, <3>1
  <2> QED BY <2>1, <2>2
<1> HIDE DEF d
<1>a. \A t \in TagsOf(c.outbounds) : t \in TagsOf(d.outbounds) \/ (t = tag /\ ~used)
  <2>1. \A t \in TagsOf(c.outbounds) : \E y \in Range(c.outbounds) : y.tag = t
    BY TagsAre, Zenon
  <2> QED BY <1>20, <2>1
<1>21. KeepsRoutes(c, d)
  <2>1. \A t \in TagsOf(c.outbounds) : t \in TagsOf(d.outbounds) \/ (t = tag /\ ~used)
    BY <1>a
  <2>2. ASSUME NEW x \in Range(d.rules)
        PROVE  (\E y \in Range(c.rules) : y.outbound = x.outbound) \/ x.outbound \in TagsOf(d.outbounds) \cup Excepted
    <3>1. x \in Range(r.rules)
      BY <1>20
    <3>2. x.outbound = tag => used
      BY <1>4, <3>1
    <3> QED BY <1>2, <1>20, <3>1, <3>2
  <2>3. ~used => \A x \in Range(d.rules) : x.outbound # tag
    BY <1>4, <1>20
  <2>4. \A t \in TagsOf(c.outbounds) :
           t \in TagsOf(d.outbounds) \cup Excepted \/ \A x \in Range(d.rules) : x.outbound # t
    BY <2>1, <2>3
  <2> QED BY <2>2, <2>4, Zenon DEF KeepsRoutes
<1>22. lev = Led => KeepsLoops(c, d)
  <2> SUFFICES ASSUME lev = Led PROVE KeepsLoops(c, d)
    OBVIOUS
  <2>1. ASSUME NEW n, Lb(n) \in TagsOf(c.outbounds) PROVE Lb(n) \in TagsOf(d.outbounds)
    BY <1>7, <1>a, <2>1, Zenon
  <2>2. ASSUME NEW x \in Range(c.rules), NEW n, x.inbound = Lb(n) PROVE x \in Range(d.rules)
    BY <1>2, <1>20, <2>2
  <2>3. /\ \A n \in TagsOf(c.balancers) : n \in TagsOf(d.balancers)
        /\ \A x \in Range(d.balancers) : x \in Range(c.balancers)
    BY <1>20
  <2> QED BY <2>1, <2>2, <2>3, Zenon DEF KeepsLoops
<1>23. Mends(lev, c, d)
  BY <1>21, <1>22, Mended, Zenon
<1> QED BY <1>20, <1>23 DEF d, e, r, tag

\* The providers' outbounds (warp and NordVPN dialogs).
LEMMA ProviderTags ==
  ASSUME NEW tag \in {Warp} \cup Nord
  PROVE  /\ ~IsLoopback(tag) /\ tag # NoTag /\ \A n : tag # Lb(n)
         /\ OutboundFits(ProviderOf(tag)) /\ ProviderOf(tag).tag = tag
<1>1. tag = Out("warp") \/ tag = Out("nord-a") \/ tag = Out("nord-b")
  BY DEF Warp, Nord
<1>2. ~IsLoopback(tag) /\ tag # NoTag
  BY <1>1, LoopKind, Zenon
<1>3. \A n : tag # Lb(n)
  BY <1>2, LoopKind, Zenon
<1> QED BY <1>2, <1>3, MadeOutbounds, MadeTags, Zenon

LEMMA ProviderPut ==
  ASSUME NEW lev, NEW c, Shaped(lev, c), NEW tag \in {Warp} \cup Nord,
         NEW at, IsFirst(at, c.outbounds, IF tag = Warp THEN {Warp} ELSE Nord)
  PROVE  LET put == [c EXCEPT !.outbounds = Put(c.outbounds, at, ProviderOf(tag))]
             d   == IF tag \in Nord /\ at > 0 THEN PropagateOutboundTagRename(put, c.outbounds[at].tag, tag) ELSE put
         IN  Mends(lev, c, d) /\ (Wired(c) => Wired(d))
<1> DEFINE T   == IF tag = Warp THEN {Warp} ELSE Nord
           w   == ProviderOf(tag)
           put == [c EXCEPT !.outbounds = Put(c.outbounds, at, w)]
           old == c.outbounds[at].tag
           ren == PropagateOutboundTagRename(put, old, tag)
           d   == IF tag \in Nord /\ at > 0 THEN ren ELSE put
<1>1. /\ at \in DOMAIN c.outbounds <=> at # 0
      /\ at # 0 => at > 0 /\ old \in T
      /\ at = 0 => \A t \in TagsOf(c.outbounds) : t \notin T
  <2> HIDE DEF T
  <2>1. IsFirst(at, c.outbounds, T)
    BY DEF T
  <2> QED BY <2>1, FirstTag, Zenon
<1>2. OutboundFits(w) /\ w.tag = tag /\ ~IsLoopback(tag) /\ tag # NoTag
  BY ProviderTags, Zenon
<1>3. \A t \in T : t \in {Warp} \cup Nord
  OBVIOUS
<1>4. at # 0 => ~IsLoopback(old)
  BY <1>1, <1>3, ProviderTags, Zenon
<1>5. tag = Warp /\ at # 0 => old = tag
  BY <1>1
<1>6. tag \notin Nord => tag = Warp
  OBVIOUS
<1>7. /\ Wired(c) => Wired(put) /\ Wired(ren)
      /\ (at \in DOMAIN c.outbounds => old = tag) => Mends(lev, c, put)
      /\ at \in DOMAIN c.outbounds /\ ~IsLoopback(old) => Mends(lev, c, ren)
  <2> HIDE DEF w
  <2>1. OutboundFits(w) /\ ~IsLoopback(w.tag) /\ w.tag # NoTag
    BY <1>2
  <2> DEFINE p  == [c EXCEPT !.outbounds = Put(c.outbounds, at, w)]
             e  == PropagateOutboundTagRename(p, c.outbounds[at].tag, w.tag)
  <2>2. /\ Wired(c) => Wired(p) /\ Wired(e)
        /\ (at \in DOMAIN c.outbounds => c.outbounds[at].tag = w.tag) => Mends(lev, c, p)
        /\ at \in DOMAIN c.outbounds /\ (lev = Led => ~IsLoopback(c.outbounds[at].tag)) => Mends(lev, c, e)
    BY <2>1, OutboundReplaced, Zenon
  <2>3. e = ren
    BY <1>2, Zenon
  <2> HIDE DEF e, ren
  <2> QED BY <1>2, <2>2, <2>3
<1>8. at > 0 => at # 0
  OBVIOUS
<1> HIDE DEF T, w, put, old, ren
<1>9. Mends(lev, c, d)
  <2>1. CASE tag \in Nord /\ at > 0
    BY <1>1, <1>4, <1>7, <1>8, <2>1
  <2>2. CASE ~(tag \in Nord /\ at > 0)
    <3>1. at # 0 => old = tag
      BY <1>1, <1>5, <1>6, <2>2, Zenon
    <3>2. Mends(lev, c, put)
      BY <1>1, <1>7, <3>1, Zenon
    <3> QED BY <2>2, <3>2
  <2> QED BY <2>1, <2>2
<1>10. Wired(c) => Wired(d)
  BY <1>7
<1> QED BY <1>9, <1>10 DEF put, ren, w, old

LEMMA WarpRemoved ==
  ASSUME NEW lev, NEW c, Shaped(lev, c), NEW at, IsFirst(at, c.outbounds, {Warp})
  PROVE  LET d == [c EXCEPT !.outbounds = Cut(c.outbounds, at)]
         IN  Mends(lev, c, d) /\ (Wired(c) => Wired(d))
<1>1. at \in DOMAIN c.outbounds => c.outbounds[at].tag \in {Warp}
  BY FirstTag, Zenon
<1>2. at \in DOMAIN c.outbounds => Spare(c, c.outbounds[at].tag)
  BY <1>1, ProviderTags DEF Spare, Excepted
<1>3. Mends(lev, c, [c EXCEPT !.outbounds = Cut(c.outbounds, at)])
  BY <1>2, OutboundCut, Zenon
<1>4. [c EXCEPT !.outbounds = Cut(c.outbounds, at)].balancers = c.balancers
  BY OutboundsPut, Zenon
<1> QED BY <1>3, <1>4, SameBalancers, Zenon

\* NordVPN's outbound goes with the rules to any of its servers.
LEMMA NordRemoved ==
  ASSUME NEW lev, NEW c, Shaped(lev, c), NEW at, at \in DOMAIN c.outbounds => c.outbounds[at].tag \in Nord
  PROVE  LET d == [c EXCEPT !.outbounds = Cut(c.outbounds, at),
                            !.rules = Select(c.rules, { i \in DOMAIN c.rules : c.rules[i].outbound \notin Nord })]
         IN  Mends(lev, c, d)
<1> DEFINE I  == { i \in DOMAIN c.rules : c.rules[i].outbound \notin Nord }
           os == Cut(c.outbounds, at)
           rs == Select(c.rules, I)
           d  == [c EXCEPT !.outbounds = os, !.rules = rs]
<1>1. Listed(c.outbounds) /\ c.rules \in Seq(Range(c.rules))
  BY Lists, ListsAre, Zenon DEF Listed
<1>2. \A y \in Range(c.outbounds) : y \in Range(os) \/ y.tag \in Nord
  BY <1>1, CutLeaves, Zenon
<1>3. I \in SUBSET DOMAIN c.rules /\ \A i \in DOMAIN c.rules : c.rules[i].outbound \notin Nord => i \in I
  OBVIOUS
<1>4. \A i \in I : c.rules[i].outbound \notin Nord
  OBVIOUS
<1> HIDE DEF I
<1>5. Range(rs) = { c.rules[i] : i \in I }
  BY <1>1, <1>3, Picked
<1> HIDE DEF os, rs
<1>6. d.outbounds = os /\ d.rules = rs /\ d.balancers = c.balancers
  BY BothPut
<1> HIDE DEF d
<1>7. \A r \in Range(rs) : r \in Range(c.rules) /\ r.outbound \notin Nord
  BY <1>3, <1>4, <1>5, TagsAre
<1>8. ASSUME NEW r \in Range(c.rules), r.outbound \notin Nord PROVE r \in Range(rs)
  <2>1. PICK i \in DOMAIN c.rules : c.rules[i] = r
    BY TagsAre, Zenon
  <2>2. i \in I
    BY <1>3, <1>8, <2>1, Zenon
  <2> QED BY <1>5, <2>1, <2>2
<1>9. \A t \in Nord : \A n : t # Lb(n) /\ t # NoTag
  BY ProviderTags, Zenon
<1>10. ASSUME NEW t \in TagsOf(c.outbounds) PROVE t \in TagsOf(d.outbounds) \/ t \in Nord
  <2>1. PICK y \in Range(c.outbounds) : y.tag = t
    BY TagsAre, Zenon
  <2>2. y \in Range(d.outbounds) \/ t \in Nord
    BY <1>2, <1>6, <2>1
  <2> QED BY <2>1, <2>2, TagsAre, Zenon
<1>11. KeepsRoutes(c, d)
  <2>1. \A t \in TagsOf(c.outbounds) :
           t \in TagsOf(d.outbounds) \cup Excepted \/ \A r \in Range(d.rules) : r.outbound # t
    BY <1>6, <1>7, <1>10
  <2>2. \A r \in Range(d.rules) : \E q \in Range(c.rules) : q.outbound = r.outbound
    BY <1>6, <1>7
  <2> QED BY <2>1, <2>2, Zenon DEF KeepsRoutes
<1>12. lev = Led => KeepsLoops(c, d)
  <2> SUFFICES ASSUME lev = Led PROVE KeepsLoops(c, d)
    OBVIOUS
  <2>1. \A n : Lb(n) \in TagsOf(c.outbounds) => Lb(n) \in TagsOf(d.outbounds)
    BY <1>9, <1>10, Zenon
  <2>2. ASSUME NEW r \in Range(c.rules), NEW n, r.inbound = Lb(n) PROVE r \in Range(d.rules)
    <3>1. r.outbound = NoTag
      BY <2>2, LoopRules, Zenon
    <3> QED BY <1>6, <1>8, <1>9, <3>1
  <2>3. /\ \A n \in TagsOf(c.balancers) : n \in TagsOf(d.balancers)
        /\ \A x \in Range(d.balancers) : x \in Range(c.balancers)
    BY <1>6
  <2> QED BY <2>1, <2>2, <2>3, Zenon DEF KeepsLoops
<1>13. Mends(lev, c, d)
  BY <1>11, <1>12, Mended, Zenon
<1> QED BY <1>13 DEF d, os, rs, I

-----------------------------------------------------------------------------
(* What a cleanup leaves of the references (reference-cleanup.ts).            *)

\* A rule keeps the inbound it is for.
LEMMA RepairedInbound ==
  ASSUME NEW lev, NEW r, RuleFits(lev, r), NEW ro, NEW rb
  PROVE  Repaired(r, ro, rb).inbound = r.inbound
<1> DEFINE o == IF LosesOutbound(r, ro) THEN NoTag ELSE r.outbound
           b == IF LosesBalancer(r, rb) THEN "" ELSE r.balancer
           p == [r EXCEPT !.outbound = o]
<1>1. p = [inbound |-> r.inbound, criterion |-> r.criterion, outbound |-> o, balancer |-> r.balancer]
  <2> HIDE DEF o
  <2> QED BY DEF RuleFits
<1>2. Repaired(r, ro, rb) = [p EXCEPT !.balancer = b]
  BY <1>1, Zenon DEF Repaired
<1> HIDE DEF o, b, p
<1>3. [p EXCEPT !.balancer = b].inbound = r.inbound
  BY <1>1
<1> QED BY <1>2, <1>3

\* The rule of a loopback has one destination, its balancer.
LEMMA LoopbackStays ==
  ASSUME NEW r, RuleFits(Led, r), NEW n, r.inbound = Lb(n), NEW ro, NEW rb, n \notin rb
  PROVE  ClassifyRule(r, ro, rb) # "removed"
<1>1. ~LosesOutbound(r, ro) /\ ~LosesBalancer(r, rb)
  <2>1. r.outbound = NoTag /\ r.inbound = Lb(r.balancer)
    BY LoopKind, Zenon DEF RuleFits, LeadsOnly
  <2>2. r.balancer = n
    BY <2>1, LoopbackNames
  <2> QED BY <2>1, <2>2, Zenon DEF LosesOutbound, LosesBalancer
<1> DEFINE lo == LosesOutbound(r, ro)
           lb == LosesBalancer(r, rb)
           keeps == \/ r.outbound # NoTag /\ ~LosesOutbound(r, ro)
                    \/ r.balancer # "" /\ ~LosesBalancer(r, rb)
           k == ClassifyRule(r, ro, rb)
<1>2. k = CASE ~lo /\ ~lb -> "kept" [] (lo \/ lb) /\ keeps -> "modified" [] OTHER -> "removed"
  BY Zenon DEF ClassifyRule
<1>3. ~lo /\ ~lb
  BY <1>1
<1> HIDE DEF lo, lb, keeps, k
<1>4. k # "removed"
  BY <1>2, <1>3, SMT
<1> QED BY <1>4 DEF k

\* The rules that stay come from rules, with the outbound they had unless it goes.
RulesKept(lev, c, ro, rb, t) ==
    /\ \A r \in Range(t) : \E q \in Range(c.rules) :
          /\ r.inbound = q.inbound
          /\ r.outbound = NoTag \/ (r.outbound = q.outbound /\ r.outbound \notin ro)
    /\ lev = Led => \A q \in Range(c.rules) : \A n : q.inbound = Lb(n) /\ n \notin rb =>
          \E r \in Range(t) : r.inbound = Lb(n)

LEMMA RulesCleaned ==
  ASSUME NEW lev, NEW c, RuleList(lev, c.rules), NEW ro, NEW rb
  PROVE  RulesKept(lev, c, ro, rb, RepairRules(c.rules, ro, rb))
<1> DEFINE s    == c.rules
           stay == Stays(c, ro, rb)
           kept == Select(s, stay)
           t    == RepairRules(s, ro, rb)
<1>1. t = [n \in DOMAIN kept |-> Repaired(kept[n], ro, rb)]
  BY DEF RepairRules, Stays
<1>2. s \in Seq(Range(s)) /\ stay \in SUBSET DOMAIN s
  BY ListsAre, Zenon DEF Stays
<1>a. \A i \in DOMAIN s : i \in stay <=> ClassifyRule(s[i], ro, rb) # "removed"
  BY DEF Stays
<1>b. \A i \in DOMAIN s : RuleFits(lev, s[i])
  BY ElementsFit, Zenon
<1> HIDE DEF s, stay
<1>3. /\ DOMAIN kept = 1..Cardinality(stay)
      /\ \A n \in 1..Cardinality(stay) : Nth(stay, n) \in stay /\ kept[n] = s[Nth(stay, n)]
      /\ \A i \in stay : Rank(stay, i) \in 1..Cardinality(stay) /\ kept[Rank(stay, i)] = s[i]
  BY <1>2, Selected, Zenon
<1> HIDE DEF kept, t
<1>4. DOMAIN t = 1..Cardinality(stay) /\ \A n \in 1..Cardinality(stay) : t[n] = Repaired(kept[n], ro, rb)
  BY <1>1, <1>3
<1>5. ASSUME NEW i \in stay
      PROVE  LET r == Repaired(s[i], ro, rb)
             IN  /\ r.inbound = s[i].inbound
                 /\ r.outbound = NoTag \/ (r.outbound = s[i].outbound /\ r.outbound \notin ro)
  <2> DEFINE q == s[i]
             r == Repaired(q, ro, rb)
  <2>1. RuleFits(lev, q) /\ ClassifyRule(q, ro, rb) # "removed"
    BY <1>2, <1>a, <1>b, Zenon
  <2> HIDE DEF q
  <2>2. AsRepaired(lev, q, ro, rb, r) /\ r.inbound = q.inbound
    BY <2>1, RepairedRule, RepairedInbound, Zenon
  <2> HIDE DEF r
  <2>3. r.outbound = NoTag \/ (r.outbound = q.outbound /\ r.outbound \notin ro)
    BY <2>2, Zenon DEF AsRepaired, LosesOutbound
  <2> QED BY <2>2, <2>3 DEF q, r
<1>6. ASSUME NEW r \in Range(t)
      PROVE  \E q \in Range(s) : /\ r.inbound = q.inbound
                                 /\ r.outbound = NoTag \/ (r.outbound = q.outbound /\ r.outbound \notin ro)
  <2>1. PICK n \in 1..Cardinality(stay) : r = t[n]
    BY <1>4, Zenon DEF Range
  <2> DEFINE i == Nth(stay, n)
  <2>2. i \in stay /\ r = Repaired(s[i], ro, rb)
    BY <1>3, <1>4, <2>1, Zenon
  <2> HIDE DEF i
  <2>3. s[i] \in Range(s)
    BY <1>2, <2>2, Zenon DEF Range
  <2> QED BY <1>5, <2>2, <2>3
<1>7. ASSUME lev = Led, NEW q \in Range(s), NEW n, q.inbound = Lb(n), n \notin rb
      PROVE  \E r \in Range(t) : r.inbound = Lb(n)
  <2>1. PICK i \in DOMAIN s : s[i] = q
    BY Zenon DEF Range
  <2>2. i \in stay
    BY <1>7, <1>a, <1>b, <2>1, LoopbackStays, Zenon
  <2> DEFINE k == Rank(stay, i)
  <2>3. k \in 1..Cardinality(stay) /\ kept[k] = s[i]
    BY <1>3, <2>2, Zenon
  <2> HIDE DEF k
  <2>4. t[k] \in Range(t) /\ t[k] = Repaired(s[i], ro, rb)
    BY <1>4, <2>3, Zenon DEF Range
  <2>5. Repaired(s[i], ro, rb).inbound = s[i].inbound
    BY <1>5, <2>2, Zenon
  <2> QED BY <1>7, <2>1, <2>4, <2>5
<1>8. RulesKept(lev, c, ro, rb, t)
  BY <1>6, <1>7, Zenon DEF RulesKept, s
<1> QED BY <1>8 DEF t, s

\* The balancers of t come each from another one of s, and fall back as it does or to nothing.
CutDown(s, t) ==
    \E f : /\ \A n \in DOMAIN t : /\ f[n] \in DOMAIN s
                                  /\ t[n].tag = s[f[n]].tag
                                  /\ t[n].fallback = NoTag \/ t[n].fallback = s[f[n]].fallback
           /\ \A n, k \in DOMAIN t : f[n] = f[k] => n = k

LEMMA BalancersCleaned ==
  ASSUME NEW s, BalancerList(s), NEW ro, NEW rb
  PROVE  CutDown(s, RepairBalancers(s, ro, rb))
<1> DEFINE stay == { i \in DOMAIN s : s[i].tag \notin rb }
           kept == Select(s, stay)
           t    == RepairBalancers(s, ro, rb)
           m    == Cardinality(stay)
           f    == [n \in 1..m |-> Nth(stay, n)]
<1>1. t = [n \in DOMAIN kept |-> RepairBalancer(kept[n], ro)]
  BY DEF RepairBalancers
<1>2. s \in Seq(Range(s)) /\ stay \in SUBSET DOMAIN s /\ Len(s) \in Nat /\ DOMAIN s = 1..Len(s)
  BY ListsAre, Zenon
<1> HIDE DEF stay
<1>3. /\ DOMAIN kept = 1..m
      /\ \A n \in 1..m : Nth(stay, n) \in stay /\ kept[n] = s[Nth(stay, n)]
  BY <1>2, Selected, Zenon
<1>4. \A n \in 1..m : Rank(stay, Nth(stay, n)) = n
  BY <1>2, NthIs, Zenon
<1> HIDE DEF kept, t, m
<1>5. DOMAIN t = 1..m /\ \A n \in 1..m : t[n] = RepairBalancer(kept[n], ro)
  BY <1>1, <1>3
<1>6. DOMAIN f = 1..m /\ \A n \in 1..m : f[n] = Nth(stay, n)
  OBVIOUS
<1> HIDE DEF f
<1>7. ASSUME NEW n \in DOMAIN t
      PROVE  f[n] \in DOMAIN s /\ t[n].tag = s[f[n]].tag /\ (t[n].fallback = NoTag \/ t[n].fallback = s[f[n]].fallback)
  <2>1. f[n] \in DOMAIN s /\ kept[n] = s[f[n]]
    BY <1>2, <1>3, <1>5, <1>6, Zenon
  <2> DEFINE b == s[f[n]]
             x == b.selector \ ro
             y == IF b.fallback \in ro THEN NoTag ELSE b.fallback
             d == [b EXCEPT !.selector = x]
  <2>2. BalancerFits(b)
    BY <2>1, ElementsFit, Zenon
  <2>3. t[n] = [b EXCEPT !.selector = x, !.fallback = y]
    BY <1>5, <2>1, Zenon DEF RepairBalancer
  <2>4. y = NoTag \/ y = b.fallback
    OBVIOUS
  <2> HIDE DEF b, x, y
  <2>5. d = [tag |-> b.tag, strategy |-> b.strategy, selector |-> x, fallback |-> b.fallback]
    BY <2>2, SMT DEF BalancerFits
  <2> HIDE DEF d
  <2>6. [d EXCEPT !.fallback = y].tag = b.tag /\ [d EXCEPT !.fallback = y].fallback = y
    BY <2>5
  <2>7. t[n].tag = b.tag /\ (t[n].fallback = NoTag \/ t[n].fallback = b.fallback)
    BY <2>3, <2>4, <2>6 DEF d
  <2> QED BY <2>1, <2>7 DEF b
<1>8. ASSUME NEW n \in DOMAIN t, NEW k \in DOMAIN t, f[n] = f[k] PROVE n = k
  <2>1. Nth(stay, n) = Nth(stay, k)
    BY <1>5, <1>6, <1>8, Zenon
  <2> HIDE DEF Nth, Rank
  <2> QED BY <1>4, <1>5, <2>1, Zenon
<1> HIDE DEF t
<1>9. CutDown(s, t)
  BY <1>7, <1>8, Zenon DEF CutDown
<1> QED BY <1>9 DEF t

\* What a cleanup leaves of the references: the rules' and the balancers'.
CleanRefs(lev, c, ro, rb, d) ==
    /\ TagsOf(d.outbounds) = TagsOf(c.outbounds) \ ro
    /\ TagsOf(d.balancers) = TagsOf(c.balancers) \ rb
    /\ \A r \in Range(d.rules) : \E q \in Range(c.rules) :
          r.outbound = NoTag \/ (r.outbound = q.outbound /\ r.outbound \notin ro)
    /\ lev = Led => \A q \in Range(c.rules) : \A n : q.inbound = Lb(n) /\ n \notin rb =>
          \E r \in Range(d.rules) : r.inbound = Lb(n)
    /\ \A b \in Range(d.balancers) : \E x \in Range(c.balancers) :
          b.tag = x.tag /\ (b.fallback = NoTag \/ b.fallback = x.fallback)

LEMMA CleanupParts ==
  ASSUME NEW lev, NEW c, Shaped(lev, c), NEW ro, NEW rb
  PROVE  LET d == ApplyCleanup(c, ro, rb)
         IN  CleanRefs(lev, c, ro, rb, d) /\ (Wired(c) => Wired(d))
<1> DEFINE os == RepairOutbounds(c.outbounds, ro)
           rs == RepairRules(c.rules, ro, rb)
           bs == RepairBalancers(c.balancers, ro, rb)
           d  == ApplyCleanup(c, ro, rb)
           e  == [outbounds |-> os, rules |-> rs, balancers |-> bs, observer |-> c.observer]
<1>1. OutboundList(c.outbounds) /\ RuleList(lev, c.rules) /\ BalancerList(c.balancers)
  BY Zenon DEF Shaped
<1>2. TagsOf(os) = TagsOf(c.outbounds) \ ro
  BY <1>1, OutboundsRepaired, Zenon
<1>3. TagsOf(bs) = TagsOf(c.balancers) \ rb
  BY <1>1, BalancersRepaired, Zenon
<1>4. /\ \A r \in Range(rs) : \E q \in Range(c.rules) :
            /\ r.inbound = q.inbound
            /\ r.outbound = NoTag \/ (r.outbound = q.outbound /\ r.outbound \notin ro)
      /\ lev = Led => \A q \in Range(c.rules) : \A n : q.inbound = Lb(n) /\ n \notin rb =>
            \E r \in Range(rs) : r.inbound = Lb(n)
  <2> DEFINE t == RepairRules(c.rules, ro, rb)
  <2>1. RulesKept(lev, c, ro, rb, t)
    BY <1>1, RulesCleaned, Zenon
  <2> HIDE DEF t
  <2> QED BY <2>1, Zenon DEF RulesKept, t
<1> DEFINE s == c.balancers
<1>5. CutDown(s, bs)
  BY <1>1, BalancersCleaned, Zenon
<1>6. d = SyncObservatories(e)
  BY Zenon DEF ApplyCleanup
<1> HIDE DEF os, rs, bs, d
<1>7. d.outbounds = os /\ d.rules = rs /\ d.balancers = bs
  <2>a. IsConfig(e)
    BY DEF IsConfig
  <2>b. e.outbounds = os /\ e.rules = rs /\ e.balancers = bs
    OBVIOUS
  <2>1. IsConfig(e) /\ e.outbounds = os /\ e.rules = rs /\ e.balancers = bs
    BY <2>a, <2>b
  <2> HIDE DEF e
  <2>2. LET x == SyncObservatories(e)
        IN  IsConfig(x) /\ x.outbounds = e.outbounds /\ x.rules = e.rules /\ x.balancers = e.balancers
    BY <2>1, SyncParts, Zenon
  <2> QED BY <1>6, <2>1, <2>2
<1> HIDE DEF e
<1>8. ASSUME NEW b \in Range(d.balancers)
      PROVE  \E x \in Range(c.balancers) : b.tag = x.tag /\ (b.fallback = NoTag \/ b.fallback = x.fallback)
  <2>1. PICK n \in DOMAIN bs : b = bs[n]
    BY <1>7, Zenon DEF Range
  <2>2. PICK i \in DOMAIN s : bs[n].tag = s[i].tag /\ (bs[n].fallback = NoTag \/ bs[n].fallback = s[i].fallback)
    BY <1>5, Zenon DEF CutDown
  <2>3. s[i] \in Range(s)
    BY Zenon DEF Range
  <2> QED BY <2>1, <2>2, <2>3
<1>9. Wired(c) => Wired(d)
  <2> SUFFICES ASSUME Wired(c) PROVE Wired(d)
    OBVIOUS
  <2>1. /\ \A i \in DOMAIN s : IsLoopback(s[i].fallback) => s[i].fallback = Lb(s[i].fallback.name)
        /\ \A i, j \in DOMAIN s : s[i].tag = s[j].tag => i = j
    BY Zenon DEF Wired
  <2> HIDE DEF s
  <2>2. PICK f : /\ \A n \in DOMAIN bs : /\ f[n] \in DOMAIN s
                                         /\ bs[n].tag = s[f[n]].tag
                                         /\ bs[n].fallback = NoTag \/ bs[n].fallback = s[f[n]].fallback
                 /\ \A n, k \in DOMAIN bs : f[n] = f[k] => n = k
    BY <1>5, Zenon DEF CutDown
  <2>3. ASSUME NEW n \in DOMAIN bs, IsLoopback(bs[n].fallback) PROVE bs[n].fallback = Lb(bs[n].fallback.name)
    <3>1. bs[n].fallback # NoTag
      BY <2>3, LoopKind, Zenon
    <3>2. bs[n].fallback = s[f[n]].fallback /\ f[n] \in DOMAIN s
      BY <2>2, <3>1, Zenon
    <3> QED BY <2>1, <2>3, <3>2
  <2>4. ASSUME NEW n \in DOMAIN bs, NEW k \in DOMAIN bs, bs[n].tag = bs[k].tag PROVE n = k
    <3>1. f[n] \in DOMAIN s /\ f[k] \in DOMAIN s /\ s[f[n]].tag = s[f[k]].tag
      BY <2>2, <2>4, Zenon
    <3>2. f[n] = f[k]
      BY <2>1, <3>1, Zenon
    <3> QED BY <2>2, <3>2, Zenon
  <2> QED BY <1>7, <2>3, <2>4 DEF Wired
<1>10. /\ TagsOf(d.outbounds) = TagsOf(c.outbounds) \ ro
       /\ TagsOf(d.balancers) = TagsOf(c.balancers) \ rb
  BY <1>2, <1>3, <1>7
<1>11. /\ \A r \in Range(d.rules) : \E q \in Range(c.rules) :
             r.outbound = NoTag \/ (r.outbound = q.outbound /\ r.outbound \notin ro)
       /\ lev = Led => \A q \in Range(c.rules) : \A n : q.inbound = Lb(n) /\ n \notin rb =>
             \E r \in Range(d.rules) : r.inbound = Lb(n)
  BY <1>4, <1>7
<1>12. CleanRefs(lev, c, ro, rb, d)
  BY <1>8, <1>10, <1>11, Zenon DEF CleanRefs
<1> QED BY <1>9, <1>12, Zenon DEF d

\* A cleanup leaves no rule without the outbound it had, and cuts no fallback
\* from a balancer that stays to another that stays.
LEMMA CleanupMends ==
  ASSUME NEW lev, NEW c, Shaped(lev, c), NEW ro, NEW rb
  PROVE  LET d == ApplyCleanup(c, ro, rb)
         IN  /\ Dangling(d) \subseteq Dangling(c)
             /\ /\ lev = Led /\ \A n : Lb(n) \notin ro
                /\ \A b \in Range(c.balancers) : b.tag \notin rb => \A n : b.fallback = Lb(n) => n \notin rb /\ Leads(c, n)
                => AllLead(d)
<1> DEFINE d == ApplyCleanup(c, ro, rb)
<1>1. /\ TagsOf(d.outbounds) = TagsOf(c.outbounds) \ ro
      /\ TagsOf(d.balancers) = TagsOf(c.balancers) \ rb
      /\ \A r \in Range(d.rules) : \E q \in Range(c.rules) :
            r.outbound = NoTag \/ (r.outbound = q.outbound /\ r.outbound \notin ro)
      /\ lev = Led => \A q \in Range(c.rules) : \A n : q.inbound = Lb(n) /\ n \notin rb =>
            \E r \in Range(d.rules) : r.inbound = Lb(n)
      /\ \A b \in Range(d.balancers) : \E x \in Range(c.balancers) :
            b.tag = x.tag /\ (b.fallback = NoTag \/ b.fallback = x.fallback)
  <2>1. CleanRefs(lev, c, ro, rb, d)
    BY CleanupParts, Zenon
  <2> HIDE DEF d
  <2> QED BY <2>1, Zenon DEF CleanRefs
<1> HIDE DEF d
<1>2. \A x : \A t \in Dangling(x) : /\ \E r \in Range(x.rules) : r.outbound = t
                                   /\ t.kind = "out" /\ t \notin TagsOf(x.outbounds)
  BY Zenon DEF Dangling
<1>3. \A x : \A r \in Range(x.rules) : r.outbound.kind = "out" /\ r.outbound \notin TagsOf(x.outbounds) => r.outbound \in Dangling(x)
  BY Zenon DEF Dangling
<1>4. ASSUME NEW t \in Dangling(d) PROVE t \in Dangling(c)
  <2>1. PICK r \in Range(d.rules) : r.outbound = t /\ t.kind = "out" /\ t \notin TagsOf(d.outbounds)
    BY <1>2, Zenon
  <2>2. t # NoTag
    BY <2>1, LoopKind, Zenon
  <2>3. PICK q \in Range(c.rules) : t = q.outbound /\ t \notin ro
    BY <1>1, <2>1, <2>2, Zenon
  <2>4. t \notin TagsOf(c.outbounds)
    BY <1>1, <2>1, <2>3
  <2> QED BY <1>3, <2>1, <2>3, <2>4
<1>5. ASSUME lev = Led, \A n : Lb(n) \notin ro,
             \A b \in Range(c.balancers) : b.tag \notin rb => \A n : b.fallback = Lb(n) => n \notin rb /\ Leads(c, n)
      PROVE  AllLead(d)
  <2> SUFFICES ASSUME NEW b \in Range(d.balancers), NEW n, b.fallback = Lb(n) PROVE Leads(d, n)
    BY Zenon DEF AllLead
  <2>1. PICK x \in Range(c.balancers) : b.tag = x.tag /\ (b.fallback = NoTag \/ b.fallback = x.fallback)
    BY <1>1, Zenon
  <2>2. x.fallback = Lb(n)
    BY <2>1, NoTagLeads
  <2>3. b.tag \in TagsOf(d.balancers)
    BY TagsAre, Zenon
  <2>4. x.tag \notin rb
    BY <1>1, <2>1, <2>3
  <2>5. n \notin rb /\ Leads(c, n)
    BY <1>5, <2>2, <2>4, Zenon
  <2>6. Lb(n) \in TagsOf(c.outbounds) /\ n \in TagsOf(c.balancers) /\ \E r \in Range(c.rules) : r.inbound = Lb(n)
    BY <2>5, Zenon DEF Leads
  <2>7. Lb(n) \in TagsOf(d.outbounds) /\ n \in TagsOf(d.balancers)
    BY <1>1, <1>5, <2>5, <2>6
  <2>8. \E r \in Range(d.rules) : r.inbound = Lb(n)
    BY <1>1, <1>5, <2>5, <2>6, Zenon
  <2> QED BY <2>7, <2>8, Zenon DEF Leads
<1> QED BY <1>4, <1>5, Zenon DEF d

\* Deleting an outbound that no balancer depends on alone.
LEMMA OutboundDeletionMends ==
  ASSUME NEW lev, NEW c, Shaped(lev, c), NEW i \in DOMAIN c.outbounds,
         lev = Led => ~IsLoopback(c.outbounds[i].tag)
  PROVE  LET d == ApplyOutboundDeletion(c, i)
         IN  /\ Dangling(d) \subseteq Dangling(c) \cup Excepted
             /\ lev = Led /\ PlanOutboundDeletion(c, i).cascaded = {} /\ AllLead(c) => AllLead(d)
             /\ Wired(c) => Wired(d)
<1> DEFINE t  == c.outbounds[i].tag
           ro == {t}
           rb == BalancersEmptiedBy(c, ro)
           d  == ApplyCleanup(c, ro, rb)
<1>1. ApplyOutboundDeletion(c, i) = d
  BY Zenon DEF ApplyOutboundDeletion
<1>2. PlanOutboundDeletion(c, i).cascaded = rb
  <2> HIDE DEF rb
  <2>1. PlanDeletion(c, ro, rb, rb).cascaded = rb
    <3> DEFINE x == [r \in DOMAIN c.rules |-> ClassifyRule(c.rules[r], ro, rb)]
               y == c.observer.kind # "none" /\ ApplyCleanup(c, ro, rb).observer.kind # c.observer.kind
    <3>1. PlanDeletion(c, ro, rb, rb) = [fates |-> x, cascaded |-> rb, observer |-> y]
      BY Zenon DEF PlanDeletion
    <3> HIDE DEF x, y
    <3>2. [fates |-> x, cascaded |-> rb, observer |-> y].cascaded = rb
      OBVIOUS
    <3> QED BY <3>1, <3>2
  <2>2. PlanOutboundDeletion(c, i) = PlanDeletion(c, ro, rb, rb)
    BY Zenon DEF PlanOutboundDeletion, rb
  <2> QED BY <2>1, <2>2
<1>3. lev = Led => \A n : Lb(n) \notin ro
  BY LoopKind, Zenon
<1>4. Wired(c) => Wired(d)
  BY CleanupParts, Zenon
<1>5. Dangling(d) \subseteq Dangling(c)
  BY CleanupMends, Zenon
<1>6. lev = Led /\ rb = {} /\ AllLead(c) => AllLead(d)
  <2> HIDE DEF rb, ro
  <2>1. \A n : rb = {} => n \notin rb
    OBVIOUS
  <2>2. rb = {} /\ AllLead(c) => \A b \in Range(c.balancers) : \A n : b.fallback = Lb(n) => n \notin rb /\ Leads(c, n)
    BY <2>1, Zenon DEF AllLead
  <2>3. /\ lev = Led /\ \A n : Lb(n) \notin ro
        /\ \A b \in Range(c.balancers) : b.tag \notin rb => \A n : b.fallback = Lb(n) => n \notin rb /\ Leads(c, n)
        => AllLead(d)
    BY CleanupMends, Zenon
  <2> QED BY <1>3, <2>2, <2>3, Zenon
<1> HIDE DEF d, rb
<1> QED BY <1>1, <1>2, <1>4, <1>5, <1>6

\* Taking a balancer's loopback out (balancer-loopback.ts).
LEMMA LoopbackRemoved ==
  ASSUME NEW lev, NEW c, Shaped(lev, c), NEW b
  PROVE  LET e == RemoveBalancerLoopback(c, b)
         IN  /\ Shaped(lev, e) /\ e.balancers = c.balancers
             /\ Dangling(e) \subseteq Dangling(c)
             /\ \A n : n # b /\ Leads(c, n) => Leads(e, n)
<1> DEFINE e == RemoveBalancerLoopback(c, b)
           I == Others(c, b)
<1>1. /\ Shaped(lev, e) /\ e.balancers = c.balancers /\ e.rules = Select(c.rules, I)
      /\ TagsOf(e.outbounds) = TagsOf(c.outbounds) \ {Lb(b)}
  <2>1. Without(lev, c, b, e)
    BY Unlooped, Zenon
  <2> HIDE DEF e, I
  <2> QED BY <2>1, Zenon DEF Without, I
<1>2. c.rules \in Seq(Range(c.rules)) /\ I \in SUBSET DOMAIN c.rules
  BY Lists, ListsAre, Zenon DEF Others
<1>3. \A i \in DOMAIN c.rules : i \in I <=> c.rules[i].inbound # Lb(b)
  BY DEF Others
<1> HIDE DEF e, I
<1>4. Range(e.rules) = { c.rules[i] : i \in I }
  BY <1>1, <1>2, Picked
<1>5. \A r \in Range(e.rules) : r \in Range(c.rules)
  BY <1>2, <1>4, TagsAre
<1>6. ASSUME NEW n, n # b, Leads(c, n) PROVE Leads(e, n)
  <2>1. Lb(n) # Lb(b)
    BY <1>6, LoopbackNames
  <2>2. Lb(n) \in TagsOf(c.outbounds) /\ n \in TagsOf(c.balancers)
    BY <1>6, Zenon DEF Leads
  <2>3. PICK r \in Range(c.rules) : r.inbound = Lb(n)
    BY <1>6, Zenon DEF Leads
  <2>4. PICK i \in DOMAIN c.rules : c.rules[i] = r
    BY TagsAre, Zenon
  <2>5. i \in I
    BY <1>3, <2>1, <2>3, <2>4, Zenon
  <2>6. r \in Range(e.rules)
    BY <1>4, <2>4, <2>5
  <2>7. Lb(n) \in TagsOf(e.outbounds) /\ n \in TagsOf(e.balancers)
    BY <1>1, <2>1, <2>2
  <2> QED BY <2>3, <2>6, <2>7, Zenon DEF Leads
<1>7. ASSUME NEW t \in Dangling(e) PROVE t \in Dangling(c)
  <2>1. t \in { r.outbound : r \in Range(e.rules) } /\ t.kind = "out" /\ t \notin TagsOf(e.outbounds)
    BY Zenon DEF Dangling
  <2>2. t # Lb(b)
    BY <2>1, LoopKind
  <2>3. t \notin TagsOf(c.outbounds)
    BY <1>1, <2>1, <2>2
  <2>4. t \in { r.outbound : r \in Range(c.rules) }
    BY <1>5, <2>1
  <2> QED BY <2>1, <2>3, <2>4, Zenon DEF Dangling
<1> QED BY <1>1, <1>6, <1>7, Zenon DEF e

\* Deleting a balancer no other falls back to.
LEMMA BalancerDeletionMends ==
  ASSUME NEW lev, NEW c, Shaped(lev, c), NEW i \in DOMAIN c.balancers
  PROVE  LET name == c.balancers[i].tag
             d    == ApplyBalancerDeletion(RemoveBalancerLoopback(c, name), i)
         IN  /\ Dangling(d) \subseteq Dangling(c) \cup Excepted
             /\ /\ \A j \in DOMAIN c.balancers : c.balancers[j].tag # name => c.balancers[j].fallback # Lb(name)
                /\ lev = Led /\ AllLead(c)
                => AllLead(d)
             /\ Wired(c) => Wired(d)
<1> DEFINE name == c.balancers[i].tag
           e    == RemoveBalancerLoopback(c, name)
           rb   == {name}
           d    == ApplyCleanup(e, {}, rb)
<1>1. /\ Shaped(lev, e) /\ e.balancers = c.balancers
      /\ Dangling(e) \subseteq Dangling(c)
      /\ \A n : n # name /\ Leads(c, n) => Leads(e, n)
  BY LoopbackRemoved, Zenon
<1>2. ApplyBalancerDeletion(e, i) = d
  <2> HIDE DEF e, name
  <2>1. ApplyBalancerDeletion(e, i) = ApplyCleanup(e, {}, { e.balancers[i].tag })
    BY Zenon DEF ApplyBalancerDeletion
  <2>2. e.balancers[i].tag = name
    BY <1>1 DEF name
  <2> QED BY <2>1, <2>2
<1> HIDE DEF e, name
<1>3. Dangling(d) \subseteq Dangling(e)
  BY <1>1, CleanupMends, Zenon
<1>4. Wired(c) => Wired(d)
  <2>1. Wired(c) => Wired(e)
    BY <1>1, SameBalancers, Zenon
  <2>2. Wired(e) => Wired(d)
    BY <1>1, CleanupParts, Zenon
  <2> QED BY <2>1, <2>2
<1>5. ASSUME lev = Led, AllLead(c),
             \A j \in DOMAIN c.balancers : c.balancers[j].tag # name => c.balancers[j].fallback # Lb(name)
      PROVE  AllLead(d)
  <2>1. ASSUME NEW b \in Range(e.balancers), b.tag \notin rb, NEW n, b.fallback = Lb(n)
        PROVE  n \notin rb /\ Leads(e, n)
    <3>1. b \in Range(c.balancers) /\ b.tag # name
      BY <1>1, <2>1
    <3>2. b.fallback # Lb(name)
      <4>1. PICK j \in DOMAIN c.balancers : c.balancers[j] = b
        BY <3>1, TagsAre, Zenon
      <4> QED BY <1>5, <3>1, <4>1, Zenon
    <3>3. n # name
      BY <2>1, <3>2
    <3>4. Leads(c, n)
      BY <1>5, <2>1, <3>1, Zenon DEF AllLead
    <3> QED BY <1>1, <3>3, <3>4
  <2>2. \A n : Lb(n) \notin {}
    OBVIOUS
  <2> HIDE DEF rb
  <2>3. /\ lev = Led /\ \A n : Lb(n) \notin {}
        /\ \A b \in Range(e.balancers) : b.tag \notin rb => \A n : b.fallback = Lb(n) => n \notin rb /\ Leads(e, n)
        => AllLead(d)
    BY <1>1, CleanupMends, Zenon
  <2> QED BY <1>5, <2>1, <2>2, <2>3, Zenon
<1> HIDE DEF d
<1>6. Dangling(d) \subseteq Dangling(c) \cup Excepted
  BY <1>1, <1>3
<1>7. lev = Led /\ AllLead(c) /\ (\A j \in DOMAIN c.balancers : c.balancers[j].tag # name => c.balancers[j].fallback # Lb(name))
        => AllLead(d)
  BY <1>5
<1> QED BY <1>2, <1>4, <1>6, <1>7, Zenon DEF e, name

-----------------------------------------------------------------------------
(* The balancer form's submit, one step after another (BalancersTab.tsx).     *)

\* Every fallback leads to its balancer, except those to balancers in S.
LeadsBut(c, S) == \A b \in Range(c.balancers) : \A n : b.fallback = Lb(n) => n \in S \/ Leads(c, n)

\* The loopback of n is there, and n itself but for a new name.
RenamedLeads(c, old, n) ==
    /\ Lb(n) \in TagsOf(c.outbounds) /\ (n \in TagsOf(c.balancers) \/ n = old)
    /\ \E r \in Range(c.rules) : r.inbound = Lb(n)

\* The element k of t is x, the others are elements of s, but not of its place.
PutThere(s, at, x, t, k) ==
    t[k] = x /\ \A i \in DOMAIN t : i = k \/ (i \in DOMAIN s \ {at} /\ t[i] = s[i])

LEMMA PutAt ==
  ASSUME NEW s, Len(s) \in Nat, DOMAIN s = 1..Len(s), s \in Seq(Range(s)), NEW at, NEW x
  PROVE  \E k : PutThere(s, at, x, Put(s, at, x), k)
<1> DEFINE t == Put(s, at, x)
<1>1. CASE at \in DOMAIN s
  <2>1. t = [s EXCEPT ![at] = x]
    BY <1>1, Zenon DEF Put
  <2>2. t[at] = x /\ \A i \in DOMAIN t : i = at \/ (i \in DOMAIN s \ {at} /\ t[i] = s[i])
    BY <1>1, <2>1
  <2> QED BY <2>2, Zenon DEF PutThere
<1>2. CASE at \notin DOMAIN s
  <2>1. t = Append(s, x)
    BY <1>2, Zenon DEF Put
  <2> DEFINE n == Len(s) + 1
             u == Append(s, x)
  <2>2. u[n] = x /\ DOMAIN u = 1..n /\ \A i \in 1..Len(s) : u[i] = s[i]
    OBVIOUS
  <2>3. \A i \in 1..n : i = n \/ i \in 1..Len(s)
    BY SMT
  <2> HIDE DEF n, u, t
  <2>4. t[n] = x /\ \A i \in DOMAIN t : i = n \/ (i \in DOMAIN s \ {at} /\ t[i] = s[i])
    BY <1>2, <2>1, <2>2, <2>3 DEF u
  <2> QED BY <2>4, Zenon DEF t, PutThere
<1> QED BY <1>1, <1>2

\* What holds once a balancer w is put in its place and before its loopback follows.
PutUnder(c, at, w, S, put) ==
    /\ Wired(put) /\ put.outbounds = c.outbounds /\ put.rules = c.rules
    /\ w.tag \in TagsOf(put.balancers)
    /\ \A n \in S : n \in TagsOf(put.balancers) /\ (at \in DOMAIN c.balancers => n # c.balancers[at].tag)
    /\ AllLead(c) => \A b \in Range(put.balancers) : \A n : b.fallback = Lb(n) =>
          n \in S \/ (at \in DOMAIN c.balancers /\ RenamedLeads(put, c.balancers[at].tag, n)) \/ Leads(put, n)

\* The balancer put in its place under a name no other has, with a fallback to
\* one of the others or to none.
LEMMA BalancerPut ==
  ASSUME NEW lev, NEW c, Shaped(lev, c), Wired(c), NEW at, NEW w, NEW f, NEW S,
         NEW others, others = { c.balancers[j].tag : j \in DOMAIN c.balancers \ {at} },
         w.tag \notin others, \A n \in S : n \in others,
         IsLoopback(w.fallback) => w.fallback = Lb(f) /\ f \in S
  PROVE  PutUnder(c, at, w, S, [c EXCEPT !.balancers = Put(c.balancers, at, w)])
<1> DEFINE s   == c.balancers
           ps  == Put(s, at, w)
           put == [c EXCEPT !.balancers = ps]
           old == s[at].tag
<1>1. BalancerList(s) /\ Len(s) \in Nat /\ DOMAIN s = 1..Len(s) /\ s \in Seq(Range(s)) /\ Listed(s)
  BY Lists, ListsAre, Zenon DEF Listed
<1>2. put.outbounds = c.outbounds /\ put.rules = c.rules /\ put.balancers = ps
  <2>1. IsConfig(c)
    BY Zenon DEF Shaped
  <2> HIDE DEF s, ps
  <2> QED BY <2>1 DEF IsConfig
<1>3. PICK k : PutThere(s, at, w, ps, k)
  BY <1>1, PutAt, Zenon
<1>4. /\ \A y \in Range(s) : y \in Range(ps) \/ (at \in DOMAIN s /\ y = s[at])
      /\ \A y \in Range(ps) : y = w \/ y \in Range(s)
      /\ w \in Range(ps)
  BY <1>1, PutLeaves, Zenon
<1>5. /\ \A i \in DOMAIN s : IsLoopback(s[i].fallback) => s[i].fallback = Lb(s[i].fallback.name)
      /\ \A i, j \in DOMAIN s : s[i].tag = s[j].tag => i = j
  BY Zenon DEF Wired
<1>6. \A j \in DOMAIN s \ {at} : s[j].tag \in others
  OBVIOUS
<1>7. \A n \in others : \E j \in DOMAIN s \ {at} : n = s[j].tag
  OBVIOUS
<1>8. IsLoopback(w.fallback) => w.fallback = Lb(w.fallback.name)
  BY LoopKind
<1> HIDE DEF s, ps, put
<1>p. ps[k] = w /\ \A i \in DOMAIN ps : i = k \/ (i \in DOMAIN s \ {at} /\ ps[i] = s[i])
  BY <1>3, Zenon DEF PutThere
<1>9. Wired(put)
  <2>1. ASSUME NEW i \in DOMAIN ps, IsLoopback(ps[i].fallback) PROVE ps[i].fallback = Lb(ps[i].fallback.name)
    <3>1. CASE i = k
      BY <1>p, <1>8, <2>1, <3>1
    <3>2. CASE i # k
      BY <1>p, <1>5, <2>1, <3>2
    <3> QED BY <3>1, <3>2
  <2>2. ASSUME NEW i \in DOMAIN ps, NEW j \in DOMAIN ps, ps[i].tag = ps[j].tag PROVE i = j
    <3>1. CASE i # k /\ j # k
      BY <1>p, <1>5, <2>2, <3>1
    <3>2. CASE i = k /\ j # k
      BY <1>p, <1>6, <2>2, <3>2
    <3>3. CASE i # k /\ j = k
      BY <1>p, <1>6, <2>2, <3>3
    <3> QED BY <3>1, <3>2, <3>3
  <2> QED BY <1>2, <2>1, <2>2 DEF Wired
<1>10. ASSUME NEW n \in S PROVE n \in TagsOf(put.balancers) /\ (at \in DOMAIN s => n # old)
  <2>1. PICK j \in DOMAIN s \ {at} : n = s[j].tag
    BY <1>7, Zenon
  <2>2. at \in DOMAIN s => n # old
    BY <1>5, <2>1
  <2>3. s[j] \in Range(ps)
    <3>1. s[j] \in Range(s)
      BY <2>1, TagsAre, Zenon
    <3> QED BY <1>4, <2>1, <2>2, <3>1, Zenon
  <2>4. n \in TagsOf(ps)
    BY <2>1, <2>3, TagsAre, Zenon
  <2> QED BY <1>2, <2>2, <2>4
<1>11. w.tag \in TagsOf(put.balancers)
  BY <1>2, <1>4, TagsAre
<1>12. ASSUME AllLead(c), NEW b \in Range(put.balancers), NEW n, b.fallback = Lb(n)
       PROVE  n \in S \/ (at \in DOMAIN s /\ RenamedLeads(put, old, n)) \/ Leads(put, n)
  <2>1. CASE b = w
    <3>1. IsLoopback(w.fallback) /\ w.fallback = Lb(n)
      BY <1>12, <2>1, LoopKind
    <3>2. Lb(n) = Lb(f) /\ f \in S
      BY <3>1
    <3> QED BY <3>2, LoopbackNames
  <2>2. CASE b # w
    <3>1. b \in Range(c.balancers)
      BY <1>2, <1>4, <2>2 DEF s
    <3>2. Leads(c, n)
      BY <1>12, <3>1, Zenon DEF AllLead
    <3>3. Lb(n) \in TagsOf(put.outbounds) /\ n \in TagsOf(s) /\ \E r \in Range(put.rules) : r.inbound = Lb(n)
      BY <1>2, <3>2 DEF Leads, s
    <3>4. PICK y \in Range(s) : y.tag = n
      BY <3>3, TagsAre, Zenon
    <3>5. y \in Range(ps) \/ (at \in DOMAIN s /\ n = old)
      BY <1>4, <3>4, Zenon
    <3>6. n \in TagsOf(put.balancers) \/ (at \in DOMAIN s /\ n = old)
      BY <1>2, <3>4, <3>5, TagsAre
    <3> QED BY <3>3, <3>6, Zenon DEF Leads, RenamedLeads
  <2> QED BY <2>1, <2>2
<1>13. PutUnder(c, at, w, S, put)
  BY <1>2, <1>9, <1>10, <1>11, <1>12, Zenon DEF PutUnder, s
<1> QED BY <1>13, Zenon DEF put, ps, s

\* What a balancer's rename makes of the parts: loopbacks named after it follow.
LoopsRenamed(c, old, new, d) ==
    /\ DOMAIN d.rules = DOMAIN c.rules
    /\ \A i \in DOMAIN c.rules : /\ d.rules[i].inbound = Subst(c.rules[i].inbound, Lb(old), Lb(new))
                                 /\ d.rules[i].outbound = c.rules[i].outbound
    /\ DOMAIN d.balancers = DOMAIN c.balancers
    /\ \A i \in DOMAIN c.balancers : /\ d.balancers[i].tag = c.balancers[i].tag
                                     /\ d.balancers[i].fallback = Subst(c.balancers[i].fallback, Lb(old), Lb(new))
    /\ DOMAIN d.outbounds = DOMAIN c.outbounds
    /\ \A i \in DOMAIN c.outbounds : d.outbounds[i].tag = Subst(c.outbounds[i].tag, Lb(old), Lb(new))

LEMMA RenamedParts ==
  ASSUME NEW lev, NEW c, Shaped(lev, c), NEW old, NEW new
  PROVE  LoopsRenamed(c, old, new, RenamedBalancer(c, old, new))
<1>1. CASE old = new
  BY <1>1, Zenon DEF RenamedBalancer, LoopsRenamed, Subst
<1>2. CASE old # new
  <2> DEFINE r1 == [r \in DOMAIN c.rules |-> RoutedTo(c.rules[r], Subst(c.rules[r].balancer, old, new))]
             d  == [c EXCEPT !.rules = r1]
             rs == [r \in DOMAIN d.rules |-> RuleRenamed(d.rules[r], old, new)]
             bs == [b \in DOMAIN d.balancers |-> FallbackRenamed(d.balancers[b], old, new)]
             os == [o \in DOMAIN d.outbounds |-> LoopbackRenamed(d.outbounds[o], old, new)]
             e  == RenamedBalancer(c, old, new)
  <2>1. IsConfig(c)
    BY Zenon DEF Shaped
  <2>2. d = [outbounds |-> c.outbounds, rules |-> r1, balancers |-> c.balancers, observer |-> c.observer]
    BY <2>1, Parts, Zenon
  <2>3. e = [d EXCEPT !.rules = rs, !.balancers = bs, !.outbounds = os]
    BY <1>2, Zenon DEF RenamedBalancer, Rerouted, PropagateBalancerTagRename
  <2> HIDE DEF d
  <2>4. IsConfig(d) /\ d.outbounds = c.outbounds /\ d.rules = r1 /\ d.balancers = c.balancers
    BY <2>2 DEF IsConfig
  <2>5. /\ \A i \in DOMAIN c.rules : RuleFits(lev, c.rules[i])
        /\ \A i \in DOMAIN c.outbounds : OutboundFits(c.outbounds[i])
        /\ \A i \in DOMAIN c.balancers : BalancerFits(c.balancers[i])
    BY Lists, ElementsFit, Zenon
  <2>6. DOMAIN r1 = DOMAIN c.rules /\ \A i \in DOMAIN c.rules : r1[i] = RoutedTo(c.rules[i], Subst(c.rules[i].balancer, old, new))
    OBVIOUS
  <2>7. /\ DOMAIN rs = DOMAIN c.rules /\ \A i \in DOMAIN c.rules : rs[i] = RuleRenamed(r1[i], old, new)
        /\ DOMAIN bs = DOMAIN c.balancers /\ \A i \in DOMAIN c.balancers : bs[i] = FallbackRenamed(c.balancers[i], old, new)
        /\ DOMAIN os = DOMAIN c.outbounds /\ \A i \in DOMAIN c.outbounds : os[i] = LoopbackRenamed(c.outbounds[i], old, new)
    BY <2>4, <2>6
  <2>8. e.outbounds = os /\ e.rules = rs /\ e.balancers = bs
    <3> HIDE DEF rs, bs, os, e
    <3> QED BY <2>3, <2>4 DEF IsConfig
  <2> HIDE DEF rs, bs, os, r1, e
  <2>9. ASSUME NEW i \in DOMAIN c.rules
        PROVE  rs[i].inbound = Subst(c.rules[i].inbound, Lb(old), Lb(new)) /\ rs[i].outbound = c.rules[i].outbound
    <3> DEFINE r == c.rules[i]
               p == RoutedTo(r, Subst(r.balancer, old, new))
    <3>1. RuleFits(lev, r) /\ rs[i] = RuleRenamed(p, old, new)
      BY <2>5, <2>6, <2>7, Zenon
    <3> HIDE DEF r
    <3>2. /\ p = [inbound |-> p.inbound, criterion |-> p.criterion, outbound |-> p.outbound,
                  balancer |-> p.balancer]
          /\ p.inbound = r.inbound /\ p.outbound = r.outbound
      BY <3>1, SMT DEF RuleFits, RoutedTo
    <3> HIDE DEF p
    <3>3. rs[i].inbound = Subst(p.inbound, Lb(old), Lb(new)) /\ rs[i].outbound = p.outbound
      BY <3>1, <3>2, SMT DEF RuleRenamed
    <3>4. rs[i].inbound = Subst(r.inbound, Lb(old), Lb(new)) /\ rs[i].outbound = r.outbound
      BY <3>2, <3>3
    <3> QED BY <3>4 DEF r
  <2>10. ASSUME NEW i \in DOMAIN c.balancers
         PROVE  bs[i].tag = c.balancers[i].tag /\ bs[i].fallback = Subst(c.balancers[i].fallback, Lb(old), Lb(new))
    <3> DEFINE b == c.balancers[i]
               x == Subst(b.fallback, Lb(old), Lb(new))
    <3>1. BalancerFits(b) /\ bs[i] = [b EXCEPT !.fallback = x]
      BY <2>5, <2>7, Zenon DEF FallbackRenamed
    <3> HIDE DEF b, x
    <3>2. bs[i].tag = b.tag /\ bs[i].fallback = x
      BY <3>1, SMT DEF BalancerFits
    <3> QED BY <3>2 DEF b, x
  <2>11. ASSUME NEW i \in DOMAIN c.outbounds PROVE os[i].tag = Subst(c.outbounds[i].tag, Lb(old), Lb(new))
    <3> DEFINE o == c.outbounds[i]
               x == Subst(o.tag, Lb(old), Lb(new))
    <3>1. OutboundFits(o) /\ os[i] = [o EXCEPT !.tag = x]
      BY <2>5, <2>7, Zenon DEF LoopbackRenamed
    <3> HIDE DEF o, x
    <3>2. os[i].tag = x
      BY <3>1, SMT DEF OutboundFits
    <3> QED BY <3>2 DEF o, x
  <2>12. LoopsRenamed(c, old, new, e)
    BY <2>7, <2>8, <2>9, <2>10, <2>11 DEF LoopsRenamed
  <2> QED BY <2>12 DEF e
<1> QED BY <1>1, <1>2

\* A rename keeps the rules' outbounds and moves the fallbacks to the new name.
LEMMA RenamedMends ==
  ASSUME NEW lev, NEW p, Shaped(lev, p), Wired(p), NEW old, NEW new, new \in TagsOf(p.balancers), NEW S, old \notin S,
         NEW some, some => \A b \in Range(p.balancers) : \A n : b.fallback = Lb(n) => n \in S \/ RenamedLeads(p, old, n)
  PROVE  LET d == RenamedBalancer(p, old, new)
         IN  /\ Wired(d) /\ TagsOf(d.balancers) = TagsOf(p.balancers)
             /\ Dangling(d) \subseteq Dangling(p)
             /\ some => LeadsBut(d, S)
<1> DEFINE d == RenamedBalancer(p, old, new)
<1>1. LoopsRenamed(p, old, new, d)
  BY RenamedParts, Zenon
<1> HIDE DEF d
<1>2. /\ DOMAIN d.rules = DOMAIN p.rules
      /\ \A i \in DOMAIN p.rules : /\ d.rules[i].inbound = Subst(p.rules[i].inbound, Lb(old), Lb(new))
                                   /\ d.rules[i].outbound = p.rules[i].outbound
      /\ DOMAIN d.balancers = DOMAIN p.balancers
      /\ \A i \in DOMAIN p.balancers : /\ d.balancers[i].tag = p.balancers[i].tag
                                       /\ d.balancers[i].fallback = Subst(p.balancers[i].fallback, Lb(old), Lb(new))
      /\ DOMAIN d.outbounds = DOMAIN p.outbounds
      /\ \A i \in DOMAIN p.outbounds : d.outbounds[i].tag = Subst(p.outbounds[i].tag, Lb(old), Lb(new))
  BY <1>1, Zenon DEF LoopsRenamed
<1>3. TagsOf(d.balancers) = TagsOf(p.balancers)
  BY <1>2 DEF TagsOf
<1>4. ASSUME NEW r \in Range(p.rules)
      PROVE  \E q \in Range(d.rules) : q.inbound = Subst(r.inbound, Lb(old), Lb(new))
  <2>1. PICK i \in DOMAIN p.rules : p.rules[i] = r
    BY TagsAre, Zenon
  <2>2. d.rules[i] \in Range(d.rules)
    BY <1>2, TagsAre, Zenon
  <2> QED BY <1>2, <2>1, <2>2, Zenon
<1>5. ASSUME NEW r \in Range(d.rules) PROVE \E q \in Range(p.rules) : q.outbound = r.outbound
  <2>1. PICK i \in DOMAIN d.rules : d.rules[i] = r
    BY TagsAre, Zenon
  <2>2. i \in DOMAIN p.rules /\ p.rules[i] \in Range(p.rules)
    BY <1>2, <2>1, TagsAre
  <2> QED BY <1>2, <2>1, <2>2
<1>6. ASSUME NEW t \in TagsOf(p.outbounds) PROVE Subst(t, Lb(old), Lb(new)) \in TagsOf(d.outbounds)
  <2>1. PICK i \in DOMAIN p.outbounds : p.outbounds[i].tag = t
    BY Zenon DEF TagsOf
  <2> QED BY <1>2, <2>1, Zenon DEF TagsOf
<1>7. ASSUME NEW b \in Range(d.balancers)
      PROVE  \E x \in Range(p.balancers) : b.fallback = Subst(x.fallback, Lb(old), Lb(new))
  <2>1. PICK i \in DOMAIN d.balancers : d.balancers[i] = b
    BY TagsAre, Zenon
  <2>2. i \in DOMAIN p.balancers /\ p.balancers[i] \in Range(p.balancers)
    BY <1>2, <2>1, TagsAre
  <2> QED BY <1>2, <2>1, <2>2
<1>8. \A n, m : Lb(n) = Lb(m) => n = m
  BY LoopbackNames, Zenon
<1>9. Dangling(d) \subseteq Dangling(p)
  <2> SUFFICES ASSUME NEW t \in Dangling(d) PROVE t \in Dangling(p)
    OBVIOUS
  <2>1. \A x : \A t_1 : t_1 \in Dangling(x) <=> /\ \E r \in Range(x.rules) : r.outbound = t_1
                                               /\ t_1.kind = "out" /\ t_1 \notin TagsOf(x.outbounds)
    BY Zenon DEF Dangling
  <2>2. PICK r \in Range(d.rules) : r.outbound = t /\ t.kind = "out" /\ t \notin TagsOf(d.outbounds)
    BY <2>1, Zenon
  <2>3. t # Lb(old)
    BY <2>2, LoopKind, Zenon
  <2>4. t \notin TagsOf(p.outbounds)
    BY <1>6, <2>2, <2>3, Zenon DEF Subst
  <2> QED BY <1>5, <2>1, <2>2, <2>4, Zenon
<1>10. Wired(d)
  <2>1. /\ \A i \in DOMAIN p.balancers : IsLoopback(p.balancers[i].fallback) =>
              p.balancers[i].fallback = Lb(p.balancers[i].fallback.name)
        /\ \A i, j \in DOMAIN p.balancers : p.balancers[i].tag = p.balancers[j].tag => i = j
    BY Zenon DEF Wired
  <2>2. ASSUME NEW i \in DOMAIN d.balancers, IsLoopback(d.balancers[i].fallback)
        PROVE  d.balancers[i].fallback = Lb(d.balancers[i].fallback.name)
    <3>1. d.balancers[i].fallback = Lb(new) \/ d.balancers[i].fallback = p.balancers[i].fallback
      BY <1>2, Zenon DEF Subst
    <3>2. Lb(new) = Lb(Lb(new).name)
      BY LoopKind, Zenon
    <3> QED BY <1>2, <2>1, <2>2, <3>1, <3>2
  <2>3. \A i, j \in DOMAIN d.balancers : d.balancers[i].tag = d.balancers[j].tag => i = j
    BY <1>2, <2>1, Zenon
  <2> QED BY <2>2, <2>3, Zenon DEF Wired
<1>11. ASSUME some PROVE LeadsBut(d, S)
  <2> SUFFICES ASSUME NEW b \in Range(d.balancers), NEW n, b.fallback = Lb(n) PROVE n \in S \/ Leads(d, n)
    BY Zenon DEF LeadsBut
  <2>1. PICK x \in Range(p.balancers) : b.fallback = Subst(x.fallback, Lb(old), Lb(new))
    BY <1>7, Zenon
  <2>2. CASE x.fallback = Lb(old)
    <3>1. n = new
      BY <1>8, <2>1, <2>2, Zenon DEF Subst
    <3>2. RenamedLeads(p, old, old)
      BY <1>11, <2>2, Zenon
    <3>3. Lb(old) \in TagsOf(p.outbounds) /\ \E r \in Range(p.rules) : r.inbound = Lb(old)
      BY <3>2, Zenon DEF RenamedLeads
    <3>4. Lb(new) \in TagsOf(d.outbounds) /\ \E r \in Range(d.rules) : r.inbound = Lb(new)
      BY <1>4, <1>6, <3>3, Zenon DEF Subst
    <3>5. new \in TagsOf(d.balancers)
      BY <1>3
    <3> QED BY <3>1, <3>4, <3>5, Zenon DEF Leads
  <2>3. CASE x.fallback # Lb(old)
    <3>1. x.fallback = Lb(n) /\ n # old
      BY <2>1, <2>3, Zenon DEF Subst
    <3>2. n \in S \/ RenamedLeads(p, old, n)
      BY <1>11, <3>1, Zenon
    <3>3. ASSUME RenamedLeads(p, old, n) PROVE Leads(d, n)
      <4>1. Lb(n) \in TagsOf(p.outbounds) /\ n \in TagsOf(p.balancers) /\ \E r \in Range(p.rules) : r.inbound = Lb(n)
        BY <3>1, <3>3, Zenon DEF RenamedLeads
      <4>2. Lb(n) # Lb(old)
        BY <1>8, <3>1, Zenon
      <4>3. Lb(n) \in TagsOf(d.outbounds) /\ \E r \in Range(d.rules) : r.inbound = Lb(n)
        BY <1>4, <1>6, <4>1, <4>2, Zenon DEF Subst
      <4>4. n \in TagsOf(d.balancers)
        BY <1>3, <4>1
      <4> QED BY <4>3, <4>4, Zenon DEF Leads
    <3> QED BY <3>2, <3>3
  <2> QED BY <2>2, <2>3
<1> QED BY <1>3, <1>9, <1>10, <1>11, Zenon DEF d

\* A loopback that no balancer falls back to is taken out.
LEMMA LoopbackTrimmed ==
  ASSUME NEW lev, NEW c, Shaped(lev, c), NEW m, NEW S
  PROVE  LET d == RemoveBalancerLoopbackIfOrphaned(c, m)
         IN  /\ d.balancers = c.balancers /\ Dangling(d) \subseteq Dangling(c)
             /\ LeadsBut(c, S) => LeadsBut(d, S)
<1> DEFINE d == RemoveBalancerLoopbackIfOrphaned(c, m)
           e == RemoveBalancerLoopback(c, m)
           I == { i \in DOMAIN c.balancers : c.balancers[i].fallback = Lb(m) }
<1>1. CASE Cardinality(I) > 0
  <2>1. d = c
    BY <1>1, Zenon DEF RemoveBalancerLoopbackIfOrphaned, CountLoopbackRefs
  <2> QED BY <2>1
<1>2. CASE ~(Cardinality(I) > 0)
  <2>1. d = e
    BY <1>2, Zenon DEF RemoveBalancerLoopbackIfOrphaned, CountLoopbackRefs
  <2>2. I = {}
    <3>1. Len(c.balancers) \in Nat /\ DOMAIN c.balancers = 1..Len(c.balancers)
      BY Lists, Zenon
    <3>2. I \in SUBSET (1..Len(c.balancers))
      BY <3>1
    <3> DEFINE n == Len(c.balancers)
    <3> HIDE DEF I
    <3>3. IsFiniteSet(I) /\ Cardinality(I) \in 0..n
      BY <3>1, <3>2, Counted, Zenon
    <3>4. Cardinality(I) = 0
      BY <1>2, <3>1, <3>3, SMT
    <3> QED BY <3>3, <3>4, FS_EmptySet, Zenon
  <2>3. e.balancers = c.balancers /\ Dangling(e) \subseteq Dangling(c) /\ \A n : n # m /\ Leads(c, n) => Leads(e, n)
    BY LoopbackRemoved, Zenon
  <2> HIDE DEF d, e
  <2>4. ASSUME LeadsBut(c, S), NEW b \in Range(e.balancers), NEW n, b.fallback = Lb(n)
        PROVE  n \in S \/ Leads(e, n)
    <3>1. b \in Range(c.balancers)
      BY <2>3, <2>4
    <3>2. PICK i \in DOMAIN c.balancers : c.balancers[i] = b
      BY <3>1, TagsAre, Zenon
    <3>3. b.fallback # Lb(m)
      BY <2>2, <3>2
    <3>4. n # m
      BY <2>4, <3>3
    <3>5. n \in S \/ Leads(c, n)
      BY <2>4, <3>1, Zenon DEF LeadsBut
    <3> QED BY <2>3, <3>4, <3>5
  <2>5. LeadsBut(c, S) => LeadsBut(e, S)
    BY <2>4, Zenon DEF LeadsBut
  <2>6. /\ d.balancers = c.balancers /\ Dangling(d) \subseteq Dangling(c)
        /\ LeadsBut(c, S) => LeadsBut(d, S)
    BY <2>1, <2>3, <2>5
  <2> QED BY <2>6 DEF d
<1> QED BY <1>1, <1>2

\* What a configuration has in which the loopback of b was made.
HasLoopback(c, b, d) ==
    /\ d.balancers = c.balancers
    /\ Lb(b) \in TagsOf(d.outbounds) /\ TagsOf(c.outbounds) \subseteq TagsOf(d.outbounds)
    /\ \E r \in Range(d.rules) : r.inbound = Lb(b)
    /\ \A r \in Range(c.rules) : \E q \in Range(d.rules) : q.inbound = r.inbound
    /\ \A r \in Range(d.rules) : r.outbound = NoTag \/ \E q \in Range(c.rules) : q.outbound = r.outbound

LEMMA LoopbackEnsured ==
  ASSUME NEW lev, NEW c, Shaped(lev, c), NEW b
  PROVE  HasLoopback(c, b, EnsureBalancerLoopback(c, b))
<1> DEFINE oi == { i \in 1..Len(c.outbounds) : c.outbounds[i].tag = Lb(b) }
           ri == { i \in 1..Len(c.rules) : c.rules[i].inbound = Lb(b) }
           o  == IF oi # {} THEN Min(oi) ELSE 0
           r  == IF ri # {} THEN Min(ri) ELSE 0
           x  == LoopbackOf(b)
           y  == [LoopbackRule(b) EXCEPT !.balancer = b]
           os == IF o > 0 THEN [c.outbounds EXCEPT ![o] = x] ELSE Append(c.outbounds, x)
           rs == IF r > 0 THEN [c.rules EXCEPT ![r] = [c.rules[r] EXCEPT !.balancer = b]]
                 ELSE Append(c.rules, y)
           d  == EnsureBalancerLoopback(c, b)
<1>1. d = [c EXCEPT !.outbounds = os, !.rules = rs]
  BY DEF EnsureBalancerLoopback, SelectInSeq
<1>2. Listed(c.outbounds) /\ Listed(c.rules)
  BY Lists, Zenon DEF Listed
<1>3. x.tag = Lb(b)
  BY MadeTags
<1>4. Lb(b) \in TagsOf(os) /\ TagsOf(c.outbounds) \subseteq TagsOf(os)
  <2> DEFINE s == c.outbounds
  <2>1. Len(s) \in Nat /\ DOMAIN s = 1..Len(s)
    BY Lists, Zenon
  <2>2. oi \in SUBSET (1..Len(s)) /\ \A i \in oi : s[i].tag = Lb(b)
    OBVIOUS
  <2>3. o = IF oi # {} THEN Min(oi) ELSE 0
    OBVIOUS
  <2> HIDE DEF oi, o, s, x
  <2>4. o > 0 => o \in oi /\ o \in DOMAIN s
    BY <2>1, <2>2, <2>3, FirstOf, Zenon
  <2>5. CASE o > 0
    <3> DEFINE t == [s EXCEPT ![o] = x]
    <3>1. os = t
      BY <2>5 DEF s
    <3>2. DOMAIN t = DOMAIN s /\ t[o] = x /\ \A i \in DOMAIN s \ {o} : t[i] = s[i]
      BY <2>4, <2>5
    <3> HIDE DEF t
    <3>3. \A i \in DOMAIN s : t[i].tag = s[i].tag
      BY <1>3, <2>2, <2>4, <2>5, <3>2
    <3>4. TagsOf(t) = TagsOf(s) /\ Lb(b) \in TagsOf(t)
      BY <1>3, <2>4, <2>5, <3>2, <3>3 DEF TagsOf
    <3> HIDE DEF os
    <3> QED BY <3>1, <3>4 DEF s
  <2>6. CASE ~(o > 0)
    <3> DEFINE t == Append(s, x)
    <3>1. os = t
      BY <2>6 DEF s
    <3>2. Range(t) = Range(s) \cup {x}
      BY <1>2, Added, Zenon DEF s
    <3> HIDE DEF t
    <3>3. \A z \in Range(s) : z \in Range(t)
      BY <3>2
    <3>4. x \in Range(t)
      BY <3>2
    <3>5. Lb(b) \in TagsOf(t) /\ \A z \in TagsOf(s) : z \in TagsOf(t)
      BY <1>3, <3>3, <3>4, TagsAre, Zenon
    <3> HIDE DEF os
    <3> QED BY <3>1, <3>5 DEF s
  <2> QED BY <2>5, <2>6
<1>5. /\ \E q \in Range(rs) : q.inbound = Lb(b)
      /\ \A q \in Range(c.rules) : \E v \in Range(rs) : v.inbound = q.inbound
      /\ \A q \in Range(rs) : q.outbound = NoTag \/ \E v \in Range(c.rules) : v.outbound = q.outbound
  <2> DEFINE s == c.rules
  <2>1. Len(s) \in Nat /\ DOMAIN s = 1..Len(s)
    BY Lists, Zenon
  <2>2. ri \in SUBSET (1..Len(s)) /\ \A i \in ri : s[i].inbound = Lb(b)
    OBVIOUS
  <2>3. r = IF ri # {} THEN Min(ri) ELSE 0
    OBVIOUS
  <2>a. \A i \in DOMAIN s : RuleFits(lev, s[i])
    BY Lists, ElementsFit, Zenon
  <2>b. Listed(s)
    BY <1>2
  <2>c. y.inbound = Lb(b) /\ y.outbound = NoTag
    BY DEF LoopbackRule
  <2> HIDE DEF ri, r, s, y
  <2>4. r > 0 => r \in ri /\ r \in DOMAIN s
    BY <2>1, <2>2, <2>3, FirstOf, Zenon
  <2>5. CASE r > 0
    <3> DEFINE q == s[r]
               p == [q EXCEPT !.balancer = b]
               t == [s EXCEPT ![r] = p]
    <3>1. rs = t
      BY <2>5 DEF s
    <3>2. RuleFits(lev, q) /\ q.inbound = Lb(b)
      BY <2>2, <2>4, <2>5, <2>a, Zenon
    <3>3. p.inbound = q.inbound /\ p.outbound = q.outbound
      <4> HIDE DEF q
      <4> QED BY <3>2 DEF RuleFits
    <3>4. DOMAIN t = DOMAIN s /\ t[r] = p /\ \A i \in DOMAIN s \ {r} : t[i] = s[i]
      BY <2>4, <2>5
    <3> HIDE DEF t, p
    <3>5. \A i \in DOMAIN s : t[i].inbound = s[i].inbound /\ t[i].outbound = s[i].outbound
      BY <3>3, <3>4
    <3> HIDE DEF q
    <3>6. t[r] \in Range(t) /\ t[r].inbound = Lb(b)
      BY <2>4, <2>5, <3>2, <3>3, <3>4, TagsAre, Zenon
    <3>7. \A z \in Range(s) : \E v \in Range(t) : v.inbound = z.inbound
      BY <3>4, <3>5, TagsAre
    <3>8. \A z \in Range(t) : \E v \in Range(s) : v.outbound = z.outbound
      BY <3>4, <3>5, TagsAre
    <3> HIDE DEF rs
    <3>9. /\ \E z \in Range(t) : z.inbound = Lb(b)
          /\ \A z \in Range(s) : \E v \in Range(t) : v.inbound = z.inbound
          /\ \A z \in Range(t) : z.outbound = NoTag \/ \E v \in Range(s) : v.outbound = z.outbound
      BY <3>6, <3>7, <3>8, Zenon
    <3> QED BY <3>1, <3>9 DEF s
  <2>6. CASE ~(r > 0)
    <3> DEFINE t == Append(s, y)
    <3>1. rs = t
      BY <2>6 DEF s
    <3>2. Range(t) = Range(s) \cup {y}
      BY <2>b, Added, Zenon
    <3> HIDE DEF t, rs
    <3>3. /\ \E z \in Range(t) : z.inbound = Lb(b)
          /\ \A z \in Range(s) : \E v \in Range(t) : v.inbound = z.inbound
          /\ \A z \in Range(t) : z.outbound = NoTag \/ \E v \in Range(s) : v.outbound = z.outbound
      BY <2>c, <3>2
    <3> QED BY <3>1, <3>3 DEF s
  <2> QED BY <2>5, <2>6
<1> HIDE DEF os, rs, d
<1>6. d.outbounds = os /\ d.rules = rs /\ d.balancers = c.balancers
  <2> DEFINE e == [c EXCEPT !.outbounds = os, !.rules = rs]
  <2>1. e.outbounds = os /\ e.rules = rs /\ e.balancers = c.balancers
    BY BothPut
  <2> HIDE DEF e
  <2>2. d = e
    BY <1>1 DEF e
  <2> QED BY <2>1, <2>2
<1>7. HasLoopback(c, b, d)
  BY <1>4, <1>5, <1>6 DEF HasLoopback
<1> QED BY <1>7 DEF d

LEMMA EnsuredMends ==
  ASSUME NEW c, NEW b, NEW d, HasLoopback(c, b, d), b \in TagsOf(c.balancers)
  PROVE  /\ Dangling(d) \subseteq Dangling(c)
         /\ LeadsBut(c, {b}) => AllLead(d)
<1>1. Dangling(d) \subseteq Dangling(c)
  <2> SUFFICES ASSUME NEW t \in Dangling(d) PROVE t \in Dangling(c)
    OBVIOUS
  <2>1. \A x : \A t_1 : t_1 \in Dangling(x) <=> /\ \E r \in Range(x.rules) : r.outbound = t_1
                                               /\ t_1.kind = "out" /\ t_1 \notin TagsOf(x.outbounds)
    BY Zenon DEF Dangling
  <2>2. PICK r \in Range(d.rules) : r.outbound = t /\ t.kind = "out" /\ t \notin TagsOf(d.outbounds)
    BY <2>1, Zenon
  <2>3. r.outbound # NoTag
    BY <2>2, LoopKind, Zenon
  <2>4. (\E q \in Range(c.rules) : q.outbound = t) /\ t \notin TagsOf(c.outbounds)
    BY <2>2, <2>3 DEF HasLoopback
  <2> QED BY <2>1, <2>2, <2>4, Zenon
<1>2. ASSUME LeadsBut(c, {b}), NEW x \in Range(d.balancers), NEW n, x.fallback = Lb(n) PROVE Leads(d, n)
  <2>1. x \in Range(c.balancers)
    BY <1>2 DEF HasLoopback
  <2>2. n \in {b} \/ Leads(c, n)
    BY <1>2, <2>1, Zenon DEF LeadsBut
  <2>3. CASE n = b
    BY <2>3 DEF HasLoopback, Leads
  <2>4. CASE Leads(c, n)
    <3>1. PICK r \in Range(c.rules) : r.inbound = Lb(n)
      BY <2>4, Zenon DEF Leads
    <3>2. \E q \in Range(d.rules) : q.inbound = Lb(n)
      BY <3>1, Zenon DEF HasLoopback
    <3>3. Lb(n) \in TagsOf(d.outbounds) /\ n \in TagsOf(d.balancers)
      BY <2>4 DEF Leads, HasLoopback
    <3> QED BY <3>2, <3>3, Zenon DEF Leads
  <2> QED BY <2>2, <2>3, <2>4
<1> QED BY <1>1, <1>2, Zenon DEF AllLead

\* What an edit keeps of the references, with nothing excepted.
Repairs(c, d) == Wired(d) /\ Dangling(d) \subseteq Dangling(c) /\ (AllLead(c) => AllLead(d))

\* What the form's balancer is stored as.
StoredAs(form, toBalancer, w) ==
    /\ w.tag = form.tag /\ (IsLoopback(w.fallback) => w.fallback = Lb(form.fallback) /\ toBalancer)
    /\ w = [tag |-> w.tag, strategy |-> w.strategy, selector |-> w.selector, fallback |-> w.fallback]

LEMMA WireParts ==
  ASSUME NEW form, NEW toBalancer \in BOOLEAN
  PROVE  StoredAs(form, toBalancer, Wire(form, toBalancer))
<1> DEFINE e == ""
           x == CASE toBalancer -> Lb(form.fallback)
                  [] ~toBalancer /\ form.fallback = e -> NoTag
                  [] OTHER -> Out(form.fallback)
           w == [tag |-> form.tag, strategy |-> form.strategy, selector |-> form.selector, fallback |-> x]
<1>1. Wire(form, toBalancer) = w
  BY Zenon DEF Wire
<1>2. (x = Lb(form.fallback) /\ toBalancer) \/ x = NoTag \/ x = Out(form.fallback)
  <2> HIDE DEF e
  <2> QED OBVIOUS
<1> HIDE DEF x, e
<1>3. IsLoopback(x) => x = Lb(form.fallback) /\ toBalancer
  BY <1>2, LoopKind
<1>4. /\ w = [tag |-> w.tag, strategy |-> w.strategy, selector |-> w.selector, fallback |-> w.fallback]
      /\ w.tag = form.tag /\ w.fallback = x
  OBVIOUS
<1> HIDE DEF w
<1> QED BY <1>1, <1>3, <1>4 DEF StoredAs

LEMMA BalancerMends ==
  ASSUME NEW lev, PageAt(lev), Wired(draft), ConfirmBalancer
  PROVE  Repairs(draft, draft')
<1> DEFINE form       == dialog.form
           others     == OtherTags(dialog.at)
           toBalancer == form.fallback \in others
           wire       == Wire(form, toBalancer)
           edit       == dialog.at \in DOMAIN draft.balancers
           before     == draft.balancers[dialog.at]
           old        == before.tag
           bs         == Put(draft.balancers, dialog.at, wire)
           put        == [draft EXCEPT !.balancers = bs]
           renamed    == IF edit THEN RenamedBalancer(put, old, wire.tag) ELSE put
           gone       == before.fallback.name
           trims      == edit /\ IsLoopback(before.fallback) /\ gone # form.fallback
           trimmed    == IF trims THEN RemoveBalancerLoopbackIfOrphaned(renamed, gone) ELSE renamed
           ensured    == IF toBalancer THEN EnsureBalancerLoopback(trimmed, form.fallback) ELSE trimmed
           c          == SyncObservatories(ensured)
           f          == form.fallback
           S          == IF toBalancer THEN {f} ELSE {}
<1>1. draft' = c /\ form.tag \notin others /\ dialog.kind = "balancer"
  BY Zenon DEF ConfirmBalancer, Confirm, Mutate, Submits
<1>2. Shaped(lev, draft) /\ BalancerList(draft.balancers) /\ Named(form)
  BY <1>1, Zenon DEF PageAt, DialogFits, Shaped
<1>3. others = { draft.balancers[j].tag : j \in DOMAIN draft.balancers \ {dialog.at} }
  BY DEF OtherTags
<1>s. StoredAs(form, toBalancer, wire)
  <2>1. toBalancer \in BOOLEAN
    OBVIOUS
  <2> HIDE DEF toBalancer
  <2> QED BY <2>1, WireParts, Zenon
<1>t. (toBalancer => S = {f} /\ f \in others) /\ (~toBalancer => S = {})
  OBVIOUS
<1> HIDE DEF toBalancer, S, wire, others, form
<1>4. /\ wire.tag = form.tag /\ (IsLoopback(wire.fallback) => wire.fallback = Lb(f) /\ toBalancer)
      /\ wire = [tag |-> wire.tag, strategy |-> wire.strategy, selector |-> wire.selector, fallback |-> wire.fallback]
  BY <1>s, Zenon DEF StoredAs, f
<1>5. BalancerFits(wire)
  BY <1>2, <1>4, Zenon DEF BalancerFits, Named
<1>6. Shaped(lev, put)
  <2>1. BalancerList(bs)
    BY <1>2, <1>5, BalancerEdits, Zenon
  <2> HIDE DEF bs
  <2> QED BY <1>2, <2>1, EditsShaped, Zenon
<1>7. /\ wire.tag \notin others /\ \A n \in S : n \in others
      /\ IsLoopback(wire.fallback) => wire.fallback = Lb(f) /\ f \in S
  BY <1>1, <1>4, <1>t
<1> HIDE DEF f
<1>8. /\ Wired(put) /\ put.outbounds = draft.outbounds /\ put.rules = draft.rules
      /\ wire.tag \in TagsOf(put.balancers)
      /\ \A n \in S : n \in TagsOf(put.balancers) /\ (edit => n # old)
      /\ AllLead(draft) => \A b \in Range(put.balancers) : \A n : b.fallback = Lb(n) =>
                              n \in S \/ (edit /\ RenamedLeads(put, old, n)) \/ Leads(put, n)
  <2>1. PutUnder(draft, dialog.at, wire, S, put)
    BY <1>2, <1>3, <1>7, BalancerPut, Zenon
  <2> HIDE DEF put
  <2> QED BY <2>1, Zenon DEF PutUnder
<1> HIDE DEF put, bs, edit, old, gone
<1>9. Dangling(put) \subseteq Dangling(draft)
  BY <1>8 DEF Dangling
<1>10. /\ Wired(renamed) /\ TagsOf(renamed.balancers) = TagsOf(put.balancers)
       /\ Dangling(renamed) \subseteq Dangling(put)
       /\ AllLead(draft) => LeadsBut(renamed, S)
       /\ Shaped(lev, renamed)
  <2>1. CASE edit
    <3>1. old \notin S
      BY <1>8, <2>1
    <3>2. ASSUME AllLead(draft), NEW b \in Range(put.balancers), NEW n, b.fallback = Lb(n)
          PROVE  n \in S \/ RenamedLeads(put, old, n)
      <4>1. n \in S \/ RenamedLeads(put, old, n) \/ Leads(put, n)
        BY <1>8, <3>2, Zenon
      <4> QED BY <4>1, Zenon DEF Leads, RenamedLeads
    <3> DEFINE d == RenamedBalancer(put, old, wire.tag)
    <3>3. /\ Wired(d) /\ TagsOf(d.balancers) = TagsOf(put.balancers)
          /\ Dangling(d) \subseteq Dangling(put)
          /\ AllLead(draft) => LeadsBut(d, S)
      BY <1>6, <1>8, <3>1, <3>2, RenamedMends, Zenon
    <3>4. Shaped(lev, d)
      BY <1>6, RenamedShaped, Zenon
    <3>5. renamed = d
      BY <2>1
    <3> HIDE DEF d, renamed
    <3> QED BY <3>3, <3>4, <3>5
  <2>2. CASE ~edit
    <3>1. renamed = put
      BY <2>2
    <3>2. AllLead(draft) => LeadsBut(put, S)
      BY <1>8, <2>2, Zenon DEF LeadsBut
    <3> HIDE DEF renamed
    <3> QED BY <1>6, <1>8, <3>1, <3>2
  <2> QED BY <2>1, <2>2
<1> HIDE DEF renamed, trims
<1>11. /\ trimmed.balancers = renamed.balancers /\ Dangling(trimmed) \subseteq Dangling(renamed)
       /\ LeadsBut(renamed, S) => LeadsBut(trimmed, S)
       /\ Shaped(lev, trimmed)
  <2>1. CASE trims
    <3> DEFINE d == RemoveBalancerLoopbackIfOrphaned(renamed, gone)
    <3>1. /\ d.balancers = renamed.balancers /\ Dangling(d) \subseteq Dangling(renamed)
          /\ LeadsBut(renamed, S) => LeadsBut(d, S)
      BY <1>10, LoopbackTrimmed, Zenon
    <3>2. Shaped(lev, d)
      BY <1>10, RemovedShaped, Zenon
    <3>3. trimmed = d
      BY <2>1
    <3> HIDE DEF d, trimmed
    <3> QED BY <3>1, <3>2, <3>3
  <2>2. CASE ~trims
    BY <1>10, <2>2
  <2> QED BY <2>1, <2>2
<1> HIDE DEF trimmed
<1>12. /\ ensured.balancers = trimmed.balancers /\ Dangling(ensured) \subseteq Dangling(trimmed)
       /\ LeadsBut(trimmed, S) => AllLead(ensured)
       /\ Shaped(lev, ensured)
  <2>1. CASE toBalancer
    <3> DEFINE d == EnsureBalancerLoopback(trimmed, f)
    <3>1. HasLoopback(trimmed, f, d) /\ Shaped(lev, d)
      BY <1>11, LoopbackEnsured, EnsuredShaped, Zenon
    <3>2. S = {f} /\ f \in TagsOf(trimmed.balancers)
      BY <1>8, <1>10, <1>11, <1>t, <2>1
    <3>3. Dangling(d) \subseteq Dangling(trimmed) /\ (LeadsBut(trimmed, {f}) => AllLead(d))
      BY <3>1, <3>2, EnsuredMends, Zenon
    <3>4. ensured = d
      BY <2>1 DEF f
    <3> HIDE DEF d, ensured
    <3> QED BY <3>1, <3>2, <3>3, <3>4 DEF HasLoopback
  <2>2. CASE ~toBalancer
    <3>1. ensured = trimmed /\ S = {}
      BY <1>t, <2>2
    <3>2. LeadsBut(trimmed, {}) => AllLead(trimmed)
      BY DEF LeadsBut, AllLead
    <3> HIDE DEF ensured
    <3> QED BY <1>11, <3>1, <3>2
  <2> QED BY <2>1, <2>2
<1> HIDE DEF ensured
<1>13. c.outbounds = ensured.outbounds /\ c.rules = ensured.rules /\ c.balancers = ensured.balancers
  <2>1. IsConfig(ensured)
    BY <1>12, Zenon DEF Shaped
  <2> QED BY <2>1, SyncParts, Zenon
<1> HIDE DEF c
<1>14. Dangling(c) = Dangling(ensured) /\ (AllLead(ensured) => AllLead(c))
  BY <1>13 DEF Dangling, AllLead, Leads
<1>15. Wired(c)
  <2>1. c.balancers = renamed.balancers
    BY <1>11, <1>12, <1>13
  <2> QED BY <1>10, <2>1, SameBalancers, Zenon
<1>16. Dangling(c) \subseteq Dangling(draft) /\ (AllLead(draft) => AllLead(c))
  BY <1>9, <1>10, <1>11, <1>12, <1>14
<1> QED BY <1>1, <1>15, <1>16 DEF Repairs

-----------------------------------------------------------------------------
(* What the dialogs aim at, and what every step leaves of the references.     *)

\* What a dialog opened on configuration c was opened with: the inbound of the
\* rule it changes and an outbound that c has or names, a balancer that no other
\* falls back to, an outbound of the provider it takes away.
Aims(k, i, f, c) ==
    /\ k = "rule" =>
          /\ f.outbound \in {NoTag} \cup TagsOf(c.outbounds) \cup { c.rules[j].outbound : j \in DOMAIN c.rules }
          /\ f.inbound = IF i \in DOMAIN c.rules THEN c.rules[i].inbound ELSE NoTag
    /\ k = "balancer deletion" =>
          \A j \in DOMAIN c.balancers : c.balancers[j].tag # c.balancers[i].tag =>
                                        c.balancers[j].fallback # Lb(c.balancers[i].tag)
    /\ k = "nord logout" /\ i \in DOMAIN c.outbounds => c.outbounds[i].tag \in Nord

Targets(d, c) == ~d.stale => Aims(d.kind, d.at, d.form, c)

RefInv == Wired(draft) /\ Wired(stored) /\ Wired(save.config) /\ Targets(dialog, draft)

\* The page before a step, when its draft and its dialog fit at a level: at the
\* upper one, the dialog changes no loopback.
Starts(lev) == PageAt(lev) /\ RefInv /\ (lev = Led => ~OnLoopback)

\* What the edit of the dialog may make of the draft: of the fallbacks, only at
\* the upper level.
Tends(lev, c) ==
    InTime => /\ Dangling(c) \subseteq Dangling(draft) \cup Excepted
              /\ lev = Led /\ dialog.plan.cascaded = {} /\ AllLead(draft) => AllLead(c)

\* The draft changes by an edit of it.
Edits == Edited /\ InTime /\ (dialog.kind = "none" => draft' \notin Stored \cup {Default})

Linked(lev) == RefInv' /\ (Edits => Tends(lev, draft'))

LEMMA AimedAt ==
  ASSUME NEW k, NEW i, NEW t, NEW f, NEW p, NEW d, IsOpened(d, k, i, t, f, p), NEW c, Aims(k, i, f, c)
  PROVE  Targets(d, c)
<1>1. d.kind = k /\ d.at = i /\ d.form = f
  BY DEF IsOpened
<1> QED BY <1>1, Zenon DEF Targets

LEMMA NoAim == \A i, f, c : Aims("none", i, f, c)
BY DEF Aims

LEMMA NoneAimed == \A d, c : d.kind = "none" => Targets(d, c)
BY NoAim DEF Targets

LEMMA NoEdit ==
  ASSUME NEW lev, Starts(lev), left'.edits = left.edits
  PROVE  ~Edits
<1>1. left.edits \in Nat
  BY Zenon DEF Starts, PageAt, Lefts
<1> QED BY <1>1 DEF Edits, Edited

LEMMA OpenLinks ==
  ASSUME NEW lev, Starts(lev), NEW d, Open(d), Targets(d, draft)
  PROVE  Linked(lev)
<1>1. UNCHANGED << stored, draft, save, left >> /\ dialog' = d
  BY Zenon DEF Open, server, query
<1>2. ~Edits
  BY <1>1, NoEdit, Zenon
<1>3. RefInv'
  BY <1>1, Zenon DEF Starts, RefInv
<1> QED BY <1>2, <1>3, Zenon DEF Linked

LEMMA ConfirmLinks ==
  ASSUME NEW lev, Starts(lev), NEW c, Confirm(c), Wired(c), Tends(lev, c)
  PROVE  Linked(lev)
<1>1. UNCHANGED << stored, save >> /\ draft' = c /\ dialog' = Closed
  BY Zenon DEF Confirm, Mutate, server, query
<1>2. Closed.kind = "none"
  BY DEF Closed
<1>3. Targets(dialog', draft')
  BY <1>1, <1>2, NoneAimed
<1>4. RefInv'
  BY <1>1, <1>3, Zenon DEF Starts, RefInv
<1> QED BY <1>1, <1>4, Zenon DEF Linked

\* An edit outside of any dialog.
LEMMA MutateLinks ==
  ASSUME NEW lev, Starts(lev), NEW c, Mutate(c), dialog.kind = "none", UNCHANGED dialog,
         Mends(lev, draft, c), c.balancers = draft.balancers
  PROVE  Linked(lev)
<1>1. UNCHANGED << stored, save >> /\ draft' = c
  BY Zenon DEF Mutate, server, query
<1>2. Targets(dialog, c)
  BY NoneAimed, Zenon
<1>3. Wired(c)
  BY SameBalancers, Zenon DEF Starts, RefInv
<1>4. RefInv'
  BY <1>1, <1>2, <1>3, Zenon DEF Starts, RefInv
<1>5. Tends(lev, c)
  BY Zenon DEF Tends, Mends
<1> QED BY <1>1, <1>4, <1>5, Zenon DEF Linked

LEMMA FormLinks ==
  ASSUME NEW lev, Starts(lev), NEW form, EditForm(form)
  PROVE  Linked(lev)
<1>1. /\ UNCHANGED << stored, draft, save >> /\ dialog.kind = "outbound"
      /\ left.form > 0 /\ left' = [left EXCEPT !.form = @ - 1]
      /\ dialog' = [dialog EXCEPT !.form = form]
  BY Zenon DEF EditForm, server, query
<1>2. ~Edits
  BY <1>1, NoEdit, SpentFits, Zenon DEF Starts, PageAt
<1>3. dialog'.kind = dialog.kind /\ dialog'.at = dialog.at /\ dialog'.stale = dialog.stale
  <2>1. dialog = [kind |-> dialog.kind, at |-> dialog.at, taken |-> dialog.taken, form |-> dialog.form,
                  plan |-> dialog.plan, stale |-> dialog.stale]
    BY Zenon DEF Starts, PageAt, DialogFits
  <2> QED BY <1>1, <2>1, SMT
<1>4. ASSUME NEW i, NEW f, NEW g, NEW c, Aims("outbound", i, f, c) PROVE Aims("outbound", i, g, c)
  BY <1>4 DEF Aims
<1>5. Targets(dialog', draft)
  BY <1>1, <1>3, <1>4 DEF Starts, RefInv, Targets
<1>6. RefInv'
  BY <1>1, <1>5, Zenon DEF Starts, RefInv
<1> QED BY <1>2, <1>6, Zenon DEF Linked

LEMMA FormsLink == ASSUME NEW lev, Starts(lev), EditOutboundForm PROVE Linked(lev)
<1>1. \A form : EditForm(form) => Linked(lev)
  BY FormLinks, Zenon
<1> HIDE DEF Linked
<1>2. ASSUME NEW control, NEW v, UseControl(control, v) PROVE Linked(lev)
  BY <1>1, <1>2, Zenon DEF UseControl
<1>3. UseControls => Linked(lev)
  BY <1>2, Zenon DEF UseControls
<1>4. OpenJson \/ TypeJson \/ OpenBasic \/ RefuseText => Linked(lev)
  BY <1>1, Zenon DEF OpenJson, TypeJson, OpenBasic, RefuseText
<1>5. ASSUME NEW link, NEW endpoint, ImportLink(link, endpoint) PROVE Linked(lev)
  BY <1>1, <1>5, Zenon DEF ImportLink
<1>6. ImportLinks => Linked(lev)
  BY <1>5, Zenon DEF ImportLinks
<1> QED BY <1>3, <1>4, <1>6, Zenon DEF EditOutboundForm

\* The outbounds tab.
LEMMA OutboundDialogsLink ==
  ASSUME NEW lev, Starts(lev), NEW i
  PROVE  /\ i \in OutboundRows \cup {0} /\ OpenOutbound(i) => Linked(lev)
         /\ i \in OutboundRows /\ OpenOutboundDeletion(i) => Linked(lev)
<1>1. ASSUME i \in OutboundRows \cup {0}, OpenOutbound(i) PROVE Linked(lev)
  <2> DEFINE form  == FormOn(IF i = 0 THEN NewOutbound ELSE draft.outbounds[i])
             taken == { draft.outbounds[j].tag : j \in DOMAIN draft.outbounds \ {i} }
             d == [Closed EXCEPT !.kind = "outbound", !.at = i, !.form = form, !.taken = taken]
  <2>1. Open(d)
    BY <1>1 DEF OpenOutbound
  <2>2. IsOpened(d, "outbound", i, taken, form, NoPlan)
    BY DialogEdits, Zenon
  <2> HIDE DEF d, form, taken
  <2>3. Aims("outbound", i, form, draft)
    BY DEF Aims
  <2>4. Targets(d, draft)
    BY <2>2, <2>3, AimedAt, Zenon
  <2> QED BY <2>1, <2>4, OpenLinks, Zenon
<1>2. ASSUME i \in OutboundRows, OpenOutboundDeletion(i) PROVE Linked(lev)
  <2> DEFINE plan == PlanOutboundDeletion(draft, i)
             d == [Closed EXCEPT !.kind = "outbound deletion", !.at = i, !.plan = plan]
  <2>1. Open(d)
    BY <1>2, Zenon DEF OpenOutboundDeletion
  <2>2. IsOpened(d, "outbound deletion", i, {}, << >>, plan)
    BY DialogEdits, Zenon
  <2> HIDE DEF d, plan
  <2>3. Aims("outbound deletion", i, << >>, draft)
    BY DEF Aims
  <2>4. Targets(d, draft)
    BY <2>2, <2>3, AimedAt, Zenon
  <2> QED BY <2>1, <2>4, OpenLinks, Zenon
<1> QED BY <1>1, <1>2, Zenon

LEMMA OutboundConfirmedLinks ==
  ASSUME NEW lev, Starts(lev), NEW tag, NEW to, ConfirmOutbound(tag, to)
  PROVE  Linked(lev)
<1> DEFINE form == dialog.form
           v    == form.values
           at   == dialog.at
           o    == Confirmed(tag, to)
           w    == ToWire(o)
           put  == [draft EXCEPT !.outbounds = Put(draft.outbounds, at, w)]
           old  == draft.outbounds[at].tag
           d    == PropagateOutboundTagRename(put, old, tag)
           c    == IF at \in DOMAIN draft.outbounds /\ old # tag THEN d ELSE put
<1>1. dialog.kind = "outbound" /\ Confirm(c) /\ Accepted(tag) /\ Complete(tag, to)
  BY DEF ConfirmOutbound
<1>2. FormFits(form) /\ Shaped(lev, draft)
  BY <1>1, Zenon DEF Starts, PageAt, DialogFits
<1>3. OutboundFits(o) /\ o.tag = tag
  <2> DEFINE x == [v EXCEPT !.tag = tag]
             z == [x EXCEPT !.server = to]
             y == FromWire(form.text.of)
             q == form.tab = "json"
  <2>1. /\ q => o = y /\ tag = form.text.of.tag
        /\ ~q => o = z
    <3>1. q => form.text.shape = "object" /\ tag = form.text.of.tag
      BY <1>1, Zenon DEF Complete
    <3>2. (q => o = y) /\ (~q => o = z)
      BY Zenon DEF Confirmed
    <3> QED BY <3>1, <3>2
  <2>2. OutboundFits(v) /\ OutboundFits(form.text.of)
    BY <1>2, Zenon DEF FormFits
  <2> HIDE DEF v, q, o
  <2>3. OutboundFits(x) /\ OutboundFits(y) /\ x.tag = tag /\ y.tag = form.text.of.tag
    BY <2>2, OutboundField, FromWireFits, TagsStay, WireTags, Zenon
  <2> HIDE DEF x, y
  <2>4. OutboundFits(z) /\ z.tag = x.tag
    BY <2>3, OutboundField, TagsStay, Zenon
  <2> HIDE DEF z
  <2> QED BY <2>1, <2>3, <2>4
<1> HIDE DEF o
<1>4. OutboundFits(w) /\ w.tag = tag
  BY <1>3, ToWireFits, WireTags, Zenon
<1> HIDE DEF w
<1>5. ~IsLoopback(tag) /\ tag # NoTag
  BY <1>1, Zenon DEF Accepted
<1>6. /\ Wired(put) /\ Wired(d)
      /\ (at \in DOMAIN draft.outbounds => old = tag) => Mends(lev, draft, put)
      /\ at \in DOMAIN draft.outbounds /\ (lev = Led => ~IsLoopback(old)) => Mends(lev, draft, d)
  <2> DEFINE e == PropagateOutboundTagRename(put, old, w.tag)
  <2>1. /\ Wired(draft) => Wired(put) /\ Wired(e)
        /\ (at \in DOMAIN draft.outbounds => old = w.tag) => Mends(lev, draft, put)
        /\ at \in DOMAIN draft.outbounds /\ (lev = Led => ~IsLoopback(old)) => Mends(lev, draft, e)
    BY <1>2, <1>4, <1>5, OutboundReplaced, Zenon
  <2>2. e = d
    BY <1>4
  <2> HIDE DEF e, d, put
  <2> QED BY <1>4, <2>1, <2>2 DEF Starts, RefInv
<1>7. lev = Led /\ at \in DOMAIN draft.outbounds => ~IsLoopback(old)
  BY <1>1, Zenon DEF Starts, OnLoopback
<1> HIDE DEF d, put
<1>8. Wired(c)
  BY <1>6
<1>9. Tends(lev, c)
  <2>1. Mends(lev, draft, c)
    BY <1>6, <1>7
  <2> HIDE DEF c
  <2> QED BY <2>1, Zenon DEF Tends, Mends
<1> HIDE DEF c
<1> QED BY <1>1, <1>8, <1>9, ConfirmLinks, Zenon

\* Synchronising the observers alone.
LEMMA SyncKeeps ==
  ASSUME NEW lev, NEW c, Shaped(lev, c), Wired(c)
  PROVE  Wired(SyncObservatories(c))
<1> DEFINE d == SyncObservatories(c)
<1>1. d.balancers = c.balancers
  BY SyncParts, Zenon DEF Shaped
<1> HIDE DEF d
<1>2. Wired(d)
  BY <1>1, SameBalancers, Zenon
<1> QED BY <1>2 DEF d

LEMMA OutboundDeletedLinks ==
  ASSUME NEW lev, Starts(lev), ConfirmOutboundDeletion
  PROVE  Linked(lev)
<1> DEFINE at == dialog.at
           e == ApplyOutboundDeletion(draft, at)
           s == SyncObservatories(draft)
           c == IF at \in DOMAIN draft.outbounds THEN e ELSE s
<1>1. /\ dialog.kind = "outbound deletion" /\ Confirm(c) /\ Shaped(lev, draft) /\ DialogFits(lev, dialog, draft)
      /\ Wired(draft)
  BY Zenon DEF ConfirmOutboundDeletion, Starts, PageAt, RefInv
<1>2. Wired(e)
  <2> DEFINE ro == { draft.outbounds[at].tag }
             rb == BalancersEmptiedBy(draft, ro)
  <2>1. e = ApplyCleanup(draft, ro, rb)
    BY Zenon DEF ApplyOutboundDeletion
  <2> HIDE DEF e, ro, rb
  <2>2. Wired(ApplyCleanup(draft, ro, rb))
    BY <1>1, CleanupParts, Zenon
  <2> QED BY <2>1, <2>2
<1>3. Wired(s)
  BY <1>1, SyncKeeps, Zenon
<1>4. InTime => at \in DOMAIN draft.outbounds /\ dialog.plan = PlanOutboundDeletion(draft, at)
  BY <1>1, Zenon DEF InTime, DialogFits
<1>5. InTime /\ lev = Led => ~IsLoopback(draft.outbounds[at].tag)
  BY <1>1, <1>4, Zenon DEF Starts, OnLoopback
<1>6. InTime => /\ Dangling(e) \subseteq Dangling(draft) \cup Excepted
                /\ lev = Led /\ dialog.plan.cascaded = {} /\ AllLead(draft) => AllLead(e)
  <2> SUFFICES ASSUME InTime
               PROVE  /\ Dangling(e) \subseteq Dangling(draft) \cup Excepted
                      /\ lev = Led /\ dialog.plan.cascaded = {} /\ AllLead(draft) => AllLead(e)
    OBVIOUS
  <2>1. /\ Dangling(e) \subseteq Dangling(draft) \cup Excepted
        /\ lev = Led /\ PlanOutboundDeletion(draft, at).cascaded = {} /\ AllLead(draft) => AllLead(e)
    BY <1>1, <1>4, <1>5, OutboundDeletionMends, Zenon
  <2> HIDE DEF e
  <2> QED BY <1>4, <2>1
<1> HIDE DEF e, s
<1>7. Wired(c) /\ (InTime => c = e)
  BY <1>2, <1>3, <1>4
<1>8. Tends(lev, c)
  BY <1>6, <1>7 DEF Tends
<1> HIDE DEF c
<1> QED BY <1>1, <1>7, <1>8, ConfirmLinks, Zenon

LEMMA OutboundMovedLinks ==
  ASSUME NEW lev, Starts(lev), NEW i \in OutboundRows, MoveOutbound(i)
  PROVE  Linked(lev)
<1> DEFINE os == draft.outbounds
           s  == Swap(os, i)
           f  == ToFront(os, i)
<1>1. i \in DOMAIN os /\ Shaped(lev, draft) /\ (i + 1 \in OutboundRows => i < Len(os))
  BY RowsAre, Zenon DEF Starts, PageAt
<1>2. dialog.kind = "none" /\ UNCHANGED dialog
  BY Zenon DEF MoveOutbound
<1>3. PICK ns : /\ (ns = s /\ i < Len(os)) \/ ns = f
                /\ Mutate([draft EXCEPT !.outbounds = ns])
  BY <1>1, Zenon DEF MoveOutbound
<1>4. /\ i < Len(os) => Mends(lev, draft, [draft EXCEPT !.outbounds = s])
      /\ Mends(lev, draft, [draft EXCEPT !.outbounds = f])
  BY <1>1, OutboundsMoved, Zenon
<1> HIDE DEF s, f
<1> DEFINE c == [draft EXCEPT !.outbounds = ns]
<1>5. Mends(lev, draft, c)
  BY <1>3, <1>4
<1>6. c.balancers = draft.balancers
  BY <1>1, OutboundsPut, Zenon
<1>7. Mutate(c)
  BY <1>3
<1> HIDE DEF c
<1> QED BY <1>2, <1>5, <1>6, <1>7, MutateLinks, Zenon

LEMMA OutboundsLink ==
  ASSUME NEW lev, Starts(lev), EditOutbounds
  PROVE  Linked(lev)
<1>1. /\ \A i \in OutboundRows \cup {0} : OpenOutbound(i) => Linked(lev)
      /\ \A i \in OutboundRows : OpenOutboundDeletion(i) => Linked(lev)
      /\ \A i \in OutboundRows : MoveOutbound(i) => Linked(lev)
  BY OutboundDialogsLink, OutboundMovedLinks, Zenon
<1>2. ConfirmOutboundDeletion => Linked(lev)
  BY OutboundDeletedLinks, Zenon
<1>3. \A tag, to : ConfirmOutbound(tag, to) => Linked(lev)
  BY OutboundConfirmedLinks, Zenon
<1> QED BY <1>1, <1>2, <1>3, Zenon DEF EditOutbounds, ConfirmOutbounds

\* The routing tab and its basics.
LEMMA RuleDialogsLink ==
  ASSUME NEW lev, Starts(lev), NEW i
  PROVE  /\ \A to \in Destinations(NoTag, "") : OpenRule(0, to) => Linked(lev)
         /\ i \in RuleRows => \A to \in Destinations(draft.rules[i].outbound, draft.rules[i].balancer) :
                                 OpenRule(i, to) => Linked(lev)
         /\ i \in RuleRows /\ OpenRuleDeletion(i) => Linked(lev)
<1> DEFINE Known == {NoTag} \cup TagsOf(draft.outbounds) \cup { draft.rules[j].outbound : j \in DOMAIN draft.rules }
<1>1. 0 \notin DOMAIN draft.rules
  <2>1. Shaped(lev, draft)
    BY Zenon DEF Starts, PageAt
  <2>2. DOMAIN draft.rules = 1..Len(draft.rules) /\ Len(draft.rules) \in Nat
    BY <2>1, Lists, Zenon
  <2> QED BY <2>2, Positions
<1>2. ASSUME NEW o, NEW b, o \in Known, NEW to \in Destinations(o, b) PROVE to.outbound \in Known
  <2> DEFINE e == ""
             K == {NoTag} \cup TagsOf(draft.outbounds)
             B == {e} \cup TagsOf(draft.balancers)
             E == { [outbound |-> p, balancer |-> b] : p \in K }
             F == { [outbound |-> o, balancer |-> q] : q \in B }
  <2>1. to \in E \cup F
    BY Zenon DEF Destinations
  <2> HIDE DEF e, B
  <2>2. \A z \in E : z.outbound \in K
    OBVIOUS
  <2>3. \A z \in F : z.outbound = o
    OBVIOUS
  <2> HIDE DEF E, F
  <2>4. to.outbound \in K \/ to.outbound = o
    BY <2>1, <2>2, <2>3
  <2>5. K \subseteq Known
    OBVIOUS
  <2> HIDE DEF K, Known
  <2> QED BY <1>2, <2>4, <2>5
<1> HIDE DEF Known
<1>3. ASSUME NEW n \in DOMAIN draft.rules \cup {0}, NEW to, to.outbound \in Known, OpenRule(n, to)
      PROVE  Linked(lev)
  <2> DEFINE k == IF n = 0 THEN "domain" ELSE draft.rules[n].criterion
             m == IF n = 0 THEN NoTag ELSE draft.rules[n].inbound
             x == to.outbound
             r == [inbound |-> m, criterion |-> k, outbound |-> x, balancer |-> to.balancer]
             d == [Closed EXCEPT !.kind = "rule", !.at = n, !.form = r]
  <2>1. Open(d)
    BY <1>3, Zenon DEF OpenRule, RuleForm
  <2>2. r.outbound = x /\ x \in Known /\ r.inbound = m
    <3>1. x \in Known
      BY <1>3
    <3> HIDE DEF k, m, x
    <3> QED BY <3>1
  <2>m. m = IF n \in DOMAIN draft.rules THEN draft.rules[n].inbound ELSE NoTag
    BY <1>1, <1>3
  <2>3. IsOpened(d, "rule", n, {}, r, NoPlan)
    BY DialogEdits, Zenon
  <2> HIDE DEF d, r, x, m
  <2>4. Aims("rule", n, r, draft)
    BY <2>2, <2>m DEF Aims, Known
  <2>5. Targets(d, draft)
    BY <2>3, <2>4, AimedAt, Zenon
  <2> QED BY <2>1, <2>5, OpenLinks, Zenon
<1>4. ASSUME NEW to \in Destinations(NoTag, ""), OpenRule(0, to) PROVE Linked(lev)
  <2>1. NoTag \in Known
    BY DEF Known
  <2> DEFINE b == ""
  <2>2. to \in Destinations(NoTag, b)
    OBVIOUS
  <2> HIDE DEF b
  <2>3. to.outbound \in Known
    BY <1>2, <2>1, <2>2, Zenon
  <2>4. 0 \in DOMAIN draft.rules \cup {0}
    OBVIOUS
  <2> QED BY <1>3, <1>4, <2>3, <2>4, Zenon
<1>5. ASSUME i \in RuleRows, NEW to \in Destinations(draft.rules[i].outbound, draft.rules[i].balancer), OpenRule(i, to)
      PROVE  Linked(lev)
  <2>1. i \in DOMAIN draft.rules
    BY <1>5, RowsAre DEF Starts
  <2>2. draft.rules[i].outbound \in Known
    BY <2>1 DEF Known
  <2>3. to.outbound \in Known
    BY <1>2, <2>2, Zenon
  <2>4. i \in DOMAIN draft.rules \cup {0}
    BY <2>1
  <2> QED BY <1>3, <1>5, <2>3, <2>4, Zenon
<1>6. ASSUME i \in RuleRows, OpenRuleDeletion(i) PROVE Linked(lev)
  <2> DEFINE d == [Closed EXCEPT !.kind = "rule deletion", !.at = i]
  <2>1. Open(d)
    BY <1>6, Zenon DEF OpenRuleDeletion
  <2>2. IsOpened(d, "rule deletion", i, {}, << >>, NoPlan)
    BY DialogEdits, Zenon
  <2> HIDE DEF d
  <2>3. Aims("rule deletion", i, << >>, draft)
    BY DEF Aims
  <2>4. Targets(d, draft)
    BY <2>2, <2>3, AimedAt, Zenon
  <2> QED BY <2>1, <2>4, OpenLinks, Zenon
<1> QED BY <1>4, <1>5, <1>6, Zenon

LEMMA RuleEditsLink ==
  ASSUME NEW lev, Starts(lev)
  PROVE  ConfirmRule \/ ConfirmRuleDeletion => Linked(lev)
<1> DEFINE rs == draft.rules
           at == dialog.at
           f  == dialog.form
           a  == [draft EXCEPT !.rules = Put(rs, at, f)]
           b  == [draft EXCEPT !.rules = Cut(rs, at)]
           D  == DOMAIN rs
<1>1. Shaped(lev, draft) /\ Wired(draft)
  BY Zenon DEF Starts, PageAt, RefInv
<1>2. Wired(a) /\ Wired(b)
  <2>1. a.balancers = draft.balancers /\ b.balancers = draft.balancers
    BY <1>1, RulesPut, Zenon
  <2> HIDE DEF a, b
  <2> QED BY <1>1, <2>1, SameBalancers, Zenon
<1>3. ASSUME ConfirmRule PROVE Linked(lev)
  <2>1. dialog.kind = "rule" /\ Confirm(a)
    BY <1>3 DEF ConfirmRule
  <2>2. InTime => f.outbound \in {NoTag} \cup TagsOf(draft.outbounds) \cup { draft.rules[j].outbound : j \in DOMAIN draft.rules }
    BY <2>1 DEF InTime, Starts, RefInv, Targets, Aims
  <2>c. lev = Led /\ at \in DOMAIN rs => ~IsLoopback(rs[at].inbound)
    BY <2>1, Zenon DEF Starts, OnLoopback
  <2>3. InTime => Mends(lev, draft, a)
    BY <1>1, <2>c, <2>2, RulesReplaced, Zenon
  <2> HIDE DEF a
  <2>4. Tends(lev, a)
    BY <2>3, Zenon DEF Tends, Mends
  <2> QED BY <1>2, <2>1, <2>4, ConfirmLinks, Zenon
<1>4. ASSUME ConfirmRuleDeletion PROVE Linked(lev)
  <2>1. dialog.kind = "rule deletion" /\ Confirm(b)
    BY <1>4 DEF ConfirmRuleDeletion
  <2>2. lev = Led /\ at \in DOMAIN rs => ~IsLoopback(rs[at].inbound)
    BY <2>1, Zenon DEF Starts, OnLoopback
  <2>3. Mends(lev, draft, b)
    <3> DEFINE k == ""
               g == [inbound |-> NoTag, criterion |-> k, outbound |-> NoTag, balancer |-> k]
    <3>1. g.outbound = NoTag
      <4> HIDE DEF k
      <4> QED OBVIOUS
    <3> HIDE DEF g
    <3>2. g.outbound \in {NoTag} \cup TagsOf(draft.outbounds) \cup { draft.rules[j].outbound : j \in DOMAIN draft.rules }
      BY <3>1
    <3> QED BY <1>1, <2>2, <3>2, RulesReplaced, Zenon
  <2> HIDE DEF b
  <2>4. Tends(lev, b)
    BY <2>3, Zenon DEF Tends, Mends
  <2> QED BY <1>2, <2>1, <2>4, ConfirmLinks, Zenon
<1> QED BY <1>3, <1>4

LEMMA RulesLink == ASSUME NEW lev, Starts(lev), EditRules PROVE Linked(lev)
<1>1. Shaped(lev, draft)
  BY Zenon DEF Starts, PageAt
<1>2. ASSUME NEW i \in RuleRows, MoveRule(i) PROVE Linked(lev)
  <2> DEFINE c == [draft EXCEPT !.rules = Swap(draft.rules, i)]
  <2>1. dialog.kind = "none" /\ UNCHANGED dialog /\ i + 1 \in RuleRows /\ Mutate(c)
    BY <1>2, Zenon DEF MoveRule
  <2>r. i \in DOMAIN draft.rules /\ i < Len(draft.rules)
    BY <1>2, <2>1, RowsAre, Zenon DEF Starts
  <2>2. Mends(lev, draft, c)
    BY <1>1, <2>r, RulesMoved, Zenon
  <2>3. c.balancers = draft.balancers
    BY <1>1, RulesPut, Zenon
  <2> HIDE DEF c
  <2> QED BY <2>1, <2>2, <2>3, MutateLinks, Zenon
<1>3. ASSUME NEW name, NEW criterion, NEW some, SetBasicRule(Out(name), criterion, some) PROVE Linked(lev)
  <2> DEFINE tag == Out(name)
             r == RuleSetter(draft, tag, criterion, some)
             c == IF tag = Out("blocked") THEN r ELSE SyncOutbound(r, tag)
  <2>1. dialog.kind = "none" /\ UNCHANGED dialog /\ Mutate(c)
    BY <1>3, Zenon DEF SetBasicRule
  <2>2. Mends(lev, draft, c) /\ c.balancers = draft.balancers
    BY <1>1, BasicMended, SMT
  <2> HIDE DEF c
  <2> QED BY <2>1, <2>2, MutateLinks, Zenon
<1>4. ASSUME NEW tag, SetDefaultOutbound(tag) PROVE Linked(lev)
  <2> DEFINE c == SetDefaultOutboundTag(draft, tag)
  <2>1. dialog.kind = "none" /\ UNCHANGED dialog /\ Mutate(c)
    BY <1>4, Zenon DEF SetDefaultOutbound
  <2>2. Mends(lev, draft, c) /\ c.balancers = draft.balancers
    BY <1>1, DefaultMended, Zenon
  <2> HIDE DEF c
  <2> QED BY <2>1, <2>2, MutateLinks, Zenon
<1>5. \/ \E to \in Destinations(NoTag, "") : OpenRule(0, to)
      \/ \E i \in RuleRows : \E to \in Destinations(draft.rules[i].outbound, draft.rules[i].balancer) :
            OpenRule(i, to)
      \/ ConfirmRule \/ ConfirmRuleDeletion
      \/ \E i \in RuleRows : OpenRuleDeletion(i) \/ MoveRule(i)
      \/ \E name, criterion, some : SetBasicRule(Out(name), criterion, some)
      \/ \E tag : SetDefaultOutbound(tag)
  <2>1. ASSUME NEW tag \in {Out("blocked"), Out("direct")} PROVE \E name : tag = Out(name)
    BY Zenon
  <2> QED BY <2>1, Zenon DEF EditRules
<1> HIDE DEF Linked
<1>6. ConfirmRule \/ ConfirmRuleDeletion => Linked(lev)
  BY RuleEditsLink
<1> QED BY <1>2, <1>3, <1>4, <1>5, <1>6, RuleDialogsLink, Zenon

\* The balancers tab.
LEMMA BalancerDialogsLink ==
  ASSUME NEW lev, Starts(lev), NEW i
  PROVE  /\ \A form : OpenBalancer(i, form) => Linked(lev)
         /\ i \in DOMAIN draft.balancers /\ OpenBalancerDeletion(i) => Linked(lev)
<1>1. ASSUME NEW form, OpenBalancer(i, form) PROVE Linked(lev)
  <2> DEFINE d == [Closed EXCEPT !.kind = "balancer", !.at = i, !.form = form]
  <2>1. Open(d)
    BY <1>1, Zenon DEF OpenBalancer
  <2>2. IsOpened(d, "balancer", i, {}, form, NoPlan)
    BY DialogEdits, Zenon
  <2> HIDE DEF d
  <2>3. Aims("balancer", i, form, draft)
    BY DEF Aims
  <2>4. Targets(d, draft)
    BY <2>2, <2>3, AimedAt, Zenon
  <2> QED BY <2>1, <2>4, OpenLinks, Zenon
<1>2. ASSUME i \in DOMAIN draft.balancers, OpenBalancerDeletion(i) PROVE Linked(lev)
  <2> DEFINE plan == PlanBalancerDeletion(draft, i)
             d == [Closed EXCEPT !.kind = "balancer deletion", !.at = i, !.plan = plan]
             name == draft.balancers[i].tag
  <2>1. Open(d) /\ \A b \in Range(draft.balancers) : b.tag # name => b.fallback # Lb(name)
    BY <1>2, Zenon DEF OpenBalancerDeletion
  <2>2. IsOpened(d, "balancer deletion", i, {}, << >>, plan)
    BY DialogEdits, Zenon
  <2> HIDE DEF d, plan
  <2>3. \A j \in DOMAIN draft.balancers : draft.balancers[j].tag # name => draft.balancers[j].fallback # Lb(name)
    BY <2>1, TagsAre, Zenon
  <2>4. Aims("balancer deletion", i, << >>, draft)
    BY <2>3 DEF Aims
  <2>5. Targets(d, draft)
    BY <2>2, <2>4, AimedAt, Zenon
  <2> QED BY <2>1, <2>5, OpenLinks, Zenon
<1> QED BY <1>1, <1>2, Zenon

LEMMA BalancerDeletedLinks ==
  ASSUME NEW lev, Starts(lev), ConfirmBalancerDeletion
  PROVE  Linked(lev)
<1> DEFINE at   == dialog.at
           name == draft.balancers[at].tag
           e    == ApplyBalancerDeletion(RemoveBalancerLoopback(draft, name), at)
           s    == SyncObservatories(draft)
           c    == IF at \in DOMAIN draft.balancers THEN e ELSE s
           Alone == \A j \in DOMAIN draft.balancers :
                       draft.balancers[j].tag # name => draft.balancers[j].fallback # Lb(name)
<1>1. /\ dialog.kind = "balancer deletion" /\ Confirm(c) /\ Shaped(lev, draft) /\ DialogFits(lev, dialog, draft)
      /\ Wired(draft)
  BY Zenon DEF ConfirmBalancerDeletion, Starts, PageAt, RefInv
<1>2. at \in DOMAIN draft.balancers =>
        /\ Dangling(e) \subseteq Dangling(draft) \cup Excepted
        /\ Alone /\ lev = Led /\ AllLead(draft) => AllLead(e)
        /\ Wired(e)
  BY <1>1, BalancerDeletionMends, Zenon
<1>3. Wired(s)
  BY <1>1, SyncKeeps, Zenon
<1>4. InTime => at \in DOMAIN draft.balancers
  BY <1>1, Zenon DEF InTime, DialogFits
<1>5. InTime => Alone
  BY <1>1 DEF InTime, Starts, RefInv, Targets, Aims
<1> HIDE DEF e, s, Alone
<1>6. Wired(c) /\ (InTime => c = e)
  BY <1>2, <1>3, <1>4
<1>7. Tends(lev, c)
  BY <1>2, <1>4, <1>5, <1>6 DEF Tends
<1> HIDE DEF c
<1> QED BY <1>1, <1>6, <1>7, ConfirmLinks, Zenon

LEMMA BalancerConfirmedLinks == ASSUME NEW lev, Starts(lev), ConfirmBalancer PROVE Linked(lev)
<1>1. Repairs(draft, draft')
  BY BalancerMends, Zenon DEF Starts, RefInv
<1>2. PICK c : Confirm(c)
  BY Zenon DEF ConfirmBalancer
<1>3. draft' = c
  BY <1>2 DEF Confirm, Mutate
<1>4. Wired(c) /\ Tends(lev, c)
  BY <1>1, <1>3 DEF Repairs, Tends
<1> QED BY <1>2, <1>4, ConfirmLinks, Zenon

LEMMA BalancersLink == ASSUME NEW lev, Starts(lev), EditBalancers PROVE Linked(lev)
<1>1. ConfirmBalancer => Linked(lev)
  BY BalancerConfirmedLinks
<1>2. ConfirmBalancerDeletion => Linked(lev)
  BY BalancerDeletedLinks
<1> HIDE DEF Linked
<1> QED BY <1>1, <1>2, BalancerDialogsLink, Zenon DEF EditBalancers

\* The provider dialogs.
LEMMA ProvidersLink == ASSUME NEW lev, Starts(lev), EditProviders PROVE Linked(lev)
<1> DEFINE os == draft.outbounds
           rs == draft.rules
<1>1. Shaped(lev, draft) /\ Wired(draft) /\ DialogFits(lev, dialog, draft)
  BY Zenon DEF Starts, PageAt, RefInv
<1>f. \A T : IsFirst(IndexOf(T), os, T)
  BY DEF IndexOf, SelectInSeq, IsFirst
<1>2. ASSUME NEW k \in {"warp", "nord"}, OpenProvider(k) PROVE Linked(lev)
  <2> DEFINE d == [Closed EXCEPT !.kind = k]
  <2>1. Open(d)
    BY <1>2, Zenon DEF OpenProvider
  <2>2. IsOpened(d, k, 0, {}, << >>, NoPlan)
    BY DialogEdits, Zenon
  <2> HIDE DEF d
  <2>3. Aims(k, 0, << >>, draft)
    BY DEF Aims
  <2>4. Targets(d, draft)
    BY <2>2, <2>3, AimedAt, Zenon
  <2> QED BY <2>1, <2>4, OpenLinks, Zenon
<1>3. ASSUME NEW tag \in {Warp} \cup Nord, PutProvider(tag) PROVE Linked(lev)
  <2> DEFINE T   == IF tag = Warp THEN {Warp} ELSE Nord
             at  == IndexOf(T)
             put == [draft EXCEPT !.outbounds = Put(os, at, ProviderOf(tag))]
             old == os[at].tag
             c   == IF tag \in Nord /\ at > 0 THEN PropagateOutboundTagRename(put, old, tag) ELSE put
  <2>1. Confirm(c)
    BY <1>3 DEF PutProvider
  <2>2. IsFirst(at, os, T)
    BY <1>f, Zenon
  <2> HIDE DEF at
  <2>3. Mends(lev, draft, c) /\ Wired(c)
    BY <1>1, <2>2, ProviderPut, Zenon
  <2> HIDE DEF c
  <2>4. Tends(lev, c)
    BY <2>3, Zenon DEF Tends, Mends
  <2> QED BY <2>1, <2>3, <2>4, ConfirmLinks, Zenon
<1>4. ASSUME RemoveWarp PROVE Linked(lev)
  <2> DEFINE at == IndexOf({Warp})
             c  == [draft EXCEPT !.outbounds = Cut(os, at)]
  <2>1. Confirm(c)
    BY <1>4 DEF RemoveWarp
  <2>2. IsFirst(at, os, {Warp})
    BY <1>f, Zenon
  <2> HIDE DEF at
  <2>3. Mends(lev, draft, c) /\ Wired(c)
    BY <1>1, <2>2, WarpRemoved, Zenon
  <2> HIDE DEF c
  <2>4. Tends(lev, c)
    BY <2>3, Zenon DEF Tends, Mends
  <2> QED BY <2>1, <2>3, <2>4, ConfirmLinks, Zenon
<1>5. ASSUME LogOut PROVE Linked(lev)
  <2> DEFINE i == IndexOf(Nord)
             k == "nord logout"
             t == dialog.taken
             f == dialog.form
             p == dialog.plan
             l == dialog.stale
             n == dialog.kind
             j == dialog.at
             d == [dialog EXCEPT !.kind = k]
             e == [d EXCEPT !.at = i]
  <2>1. /\ UNCHANGED << stored, save, draft, left >> /\ dialog' = e
    BY <1>5, Zenon DEF LogOut, server, query
  <2>2. dialog = [kind |-> n, at |-> j, taken |-> t, form |-> f, plan |-> p, stale |-> l]
    BY <1>1, Zenon DEF DialogFits
  <2>3. IsFirst(i, os, Nord)
    BY <1>f, Zenon
  <2> HIDE DEF i, t, f, p, l, n, j
  <2>4. i \in DOMAIN os => os[i].tag \in Nord
    BY <1>1, <2>3, FirstTag, Zenon
  <2>5. Aims(k, i, f, draft)
    BY <2>4 DEF Aims
  <2> HIDE DEF k
  <2>6. d = [kind |-> k, at |-> j, taken |-> t, form |-> f, plan |-> p, stale |-> l]
    BY <2>2
  <2> HIDE DEF d
  <2>7. e.kind = k /\ e.at = i /\ e.form = f
    BY <2>6
  <2> HIDE DEF e
  <2>8. Targets(dialog', draft)
    BY <2>1, <2>5, <2>7 DEF Targets
  <2>9. RefInv'
    BY <2>1, <2>8, Zenon DEF Starts, RefInv
  <2>10. ~Edits
    BY <2>1, NoEdit
  <2> QED BY <2>9, <2>10, Zenon DEF Linked
<1>6. ASSUME RemoveNord PROVE Linked(lev)
  <2> DEFINE s == Cut(os, dialog.at)
             I == { i \in DOMAIN rs : rs[i].outbound \notin Nord }
             t == Select(rs, I)
             c == [draft EXCEPT !.outbounds = s, !.rules = t]
  <2>1. dialog.kind = "nord logout" /\ Confirm(c)
    <3> DEFINE e == [draft EXCEPT !.outbounds = s]
    <3>1. e.rules = rs
      <4>1. IsConfig(draft)
        BY <1>1, Zenon DEF Shaped
      <4> HIDE DEF s
      <4> QED BY <4>1 DEF IsConfig
    <3> QED BY <1>6, <3>1 DEF RemoveNord
  <2>2. InTime /\ dialog.at \in DOMAIN os => os[dialog.at].tag \in Nord
    BY <2>1 DEF InTime, Starts, RefInv, Targets, Aims
  <2>3. InTime => Mends(lev, draft, c)
    BY <1>1, <2>2, NordRemoved, Zenon
  <2>4. Wired(c)
    <3> HIDE DEF s, t
    <3>1. c.outbounds = s /\ c.rules = t /\ c.balancers = draft.balancers
      BY <1>1, BothPut
    <3> HIDE DEF c
    <3> QED BY <1>1, <3>1, SameBalancers, Zenon
  <2> HIDE DEF c
  <2>5. Tends(lev, c)
    BY <2>3, Zenon DEF Tends, Mends
  <2> QED BY <2>1, <2>4, <2>5, ConfirmLinks, Zenon
<1> HIDE DEF Linked
<1> QED BY <1>2, <1>3, <1>4, <1>5, <1>6, Zenon DEF EditProviders

\* Saving, seeding and typing.  What is stored and the default are wired.
LEMMA StoredWired == \A c \in Stored \cup {Default} : Wired(c)
<1> SUFFICES ASSUME NEW c \in Stored \cup {Default} PROVE Wired(c)
  OBVIOUS
<1>1. c \in Configs /\ LoopbacksLead(c) /\ NamesOfTheirOwn(c.balancers)
  BY EditorAssumption, Zenon
<1>3. ASSUME NEW t \in Tags, IsLoopback(t) PROVE t = Lb(t.name)
  BY <1>3 DEF Tags, IsLoopback, Lb
<1>4. \A i \in DOMAIN c.balancers : c.balancers[i].fallback \in Tags
  <2>1. c.balancers \in Seq(BalancerRecords)
    BY <1>1 DEF Configs
  <2>2. ASSUME NEW X, NEW s \in Seq(X), NEW i \in DOMAIN s PROVE s[i] \in X
    OBVIOUS
  <2>3. \A i \in DOMAIN c.balancers : c.balancers[i] \in BalancerRecords
    BY <2>1, <2>2, Zenon
  <2>4. ASSUME NEW b \in BalancerRecords PROVE b.fallback \in Tags
    BY DEF BalancerRecords
  <2> QED BY <2>3, <2>4, Zenon
<1>5. Wired(c)
  BY <1>1, <1>3, <1>4, Zenon DEF Wired, NamesOfTheirOwn
<1> QED BY <1>5

\* Completing a loopback and removing the orphaned ones leave the balancers.
LEMMA LoopbacksAside ==
  ASSUME NEW lev, NEW c, Shaped(lev, c)
  PROVE  /\ \A b : EnsureBalancerLoopback(c, b).balancers = c.balancers
         /\ CleanupOrphanedBalancerLoopbacks(c).balancers = c.balancers
<1>1. ASSUME NEW os, NEW rs PROVE [c EXCEPT !.outbounds = os, !.rules = rs].balancers = c.balancers
  <2> DEFINE d == [c EXCEPT !.outbounds = os, !.rules = rs]
  <2>1. d.outbounds = os /\ d.rules = rs /\ d.balancers = c.balancers
    BY BothPut
  <2> HIDE DEF d
  <2>2. d.balancers = c.balancers
    BY <2>1
  <2> QED BY <2>2 DEF d
<1> QED BY <1>1, Zenon DEF EnsureBalancerLoopback, CleanupOrphanedBalancerLoopbacks

\* What a save makes of the loopbacks leaves the balancers as they are.
LEMMA SaveKeepsBalancers ==
  ASSUME NEW lev, NEW c, Shaped(lev, c), Wired(c)
  PROVE  Wired(CleanupOrphanedBalancerLoopbacks(EnsureMissingBalancerLoopbacks(c)))
<1> DEFINE m == Len(c.balancers)
<1>1. PICK f : /\ EnsureMissingBalancerLoopbacks(c) = f[m]
               /\ m \in Nat /\ f[0] = c
               /\ \A k \in 1..m : f[k] = Completed(c, f[k - 1], k)
  <2>1. Len(c.balancers) \in Nat
    BY Lists, Zenon
  <2> QED BY <2>1, Completion, Zenon
<1> HIDE DEF m
<1> DEFINE Same(x) == Shaped(lev, x) /\ x.balancers = c.balancers
<1>2. ASSUME NEW x, Same(x), NEW n PROVE Same(Completed(c, x, n))
  <2>1. \A b : Shaped(lev, EnsureBalancerLoopback(x, b))
    BY <1>2, EnsuredShaped, Zenon
  <2>2. \A b : EnsureBalancerLoopback(x, b).balancers = x.balancers
    BY <1>2, LoopbacksAside, Zenon
  <2>3. \A b : Same(EnsureBalancerLoopback(x, b))
    BY <1>2, <2>1, <2>2
  <2> HIDE DEF Same
  <2> QED BY <1>2, <2>3, Zenon DEF Completed
<1>3. Same(c)
  OBVIOUS
<1> HIDE DEF Same
<1> DEFINE T == { k \in 0..m : Same(f[k]) }
<1>4. 0 \in T
  BY <1>1, <1>3
<1>5. ASSUME NEW k \in 1..m, k - 1 \in T PROVE k \in T
  <2>1. Same(f[k])
    BY <1>1, <1>2, <1>5
  <2> QED BY <2>1
<1>6. m \in T
  <2> HIDE DEF T
  <2> QED BY <1>1, <1>4, <1>5, CountedUp, Zenon
<1> DEFINE e == EnsureMissingBalancerLoopbacks(c)
<1>7. Shaped(lev, e) /\ e.balancers = c.balancers
  BY <1>1, <1>6 DEF Same
<1> HIDE DEF e
<1>8. CleanupOrphanedBalancerLoopbacks(e).balancers = e.balancers
  BY <1>7, LoopbacksAside, Zenon
<1> DEFINE d == CleanupOrphanedBalancerLoopbacks(e)
<1>9. d.balancers = c.balancers
  BY <1>7, <1>8
<1> HIDE DEF d
<1>10. Wired(d)
  BY <1>9, SameBalancers, Zenon
<1> QED BY <1>10 DEF d, e

LEMMA SaveAndSyncLinks == ASSUME NEW lev, Starts(lev), SaveAndSync PROVE Linked(lev)
<1>1. /\ Wired(draft) /\ Wired(stored) /\ Wired(save.config) /\ Targets(dialog, draft)
      /\ Shaped(lev, draft) /\ DialogFits(lev, dialog, draft)
      /\ save = [phase |-> save.phase, config |-> save.config, doubt |-> save.doubt]
      /\ left.edits \in Nat /\ left \in Lefts
  BY Zenon DEF Starts, PageAt, RefInv, Lefts
<1>2. \A c \in Stored \cup {Default} : Wired(c)
  BY StoredWired, Zenon
<1>3. CASE TypeText
  <2>1. /\ dialog.kind = "none" /\ draft' \in {draft} \cup Stored /\ UNCHANGED << stored, save, dialog >>
    BY <1>3, Zenon DEF TypeText, server, query
  <2>2. Wired(draft')
    BY <1>1, <1>2, <2>1
  <2>3. Targets(dialog, draft')
    BY <2>1, NoneAimed, Zenon
  <2>4. Edits => Tends(lev, draft')
    <3>1. Edits => draft' = draft
      BY <2>1 DEF Edits
    <3> QED BY <3>1 DEF Tends
  <2> QED BY <1>1, <2>1, <2>2, <2>3, <2>4 DEF RefInv, Linked
<1>4. CASE ResetToDefault
  <2>1. dialog.kind = "none" /\ UNCHANGED << dialog, stored, save >> /\ draft' = Default
    BY <1>4, Zenon DEF ResetToDefault, Mutate, server, query
  <2>2. Targets(dialog, draft')
    BY <2>1, NoneAimed, Zenon
  <2>3. ~Edits
    BY <2>1 DEF Edits
  <2>4. Wired(draft')
    BY <1>2, <2>1
  <2> QED BY <1>1, <2>1, <2>2, <2>3, <2>4 DEF RefInv, Linked
<1>5. CASE Poll
  <2>1. UNCHANGED << stored, draft, save, dialog, left >>
    BY <1>5, Zenon DEF Poll, server
  <2>2. ~Edits
    BY <2>1, NoEdit
  <2> QED BY <1>1, <2>1, <2>2, Zenon DEF RefInv, Linked
<1>6. CASE FetchReturns
  <2> DEFINE b == dialog.kind # "none" /\ (dialog.stale \/ stored # draft)
             d == [dialog EXCEPT !.stale = b]
  <2>1. /\ UNCHANGED << stored, left >> /\ save' = [save EXCEPT !.doubt = @ /\ cache' = cache]
        /\ \/ UNCHANGED << draft, dialog >>
           \/ draft' = stored /\ dialog' = d
    BY <1>6, Zenon DEF FetchReturns, server
  <2>s. save'.config = save.config
    <3> DEFINE w == save.doubt /\ cache' = cache
    <3>1. save' = [save EXCEPT !.doubt = w]
      BY <2>1
    <3> HIDE DEF w
    <3> QED BY <1>1, <3>1
  <2>2. Targets(d, stored)
    <3> DEFINE k == dialog.kind
               i == dialog.at
               t == dialog.taken
               f == dialog.form
               p == dialog.plan
               l == dialog.stale
    <3>1. dialog = [kind |-> k, at |-> i, taken |-> t, form |-> f, plan |-> p, stale |-> l]
      BY <1>1, Zenon DEF DialogFits
    <3>2. ~l => Aims(k, i, f, draft)
      BY <1>1, Zenon DEF Targets
    <3>3. b = (k # "none" /\ (l \/ stored # draft))
      OBVIOUS
    <3>n. k = "none" => Aims(k, i, f, stored)
      BY NoAim
    <3> HIDE DEF k, i, t, f, p, l, b
    <3>4. d = [kind |-> k, at |-> i, taken |-> t, form |-> f, plan |-> p, stale |-> b]
      BY <3>1
    <3> HIDE DEF d
    <3>5. d.kind = k /\ d.at = i /\ d.form = f /\ d.stale = b
      BY <3>4
    <3>6. ~b => Aims(k, i, f, stored)
      BY <3>2, <3>3, <3>n
    <3> QED BY <3>5, <3>6, Zenon DEF Targets
  <2> HIDE DEF d
  <2>3. Wired(draft') /\ Targets(dialog', draft')
    BY <1>1, <2>1, <2>2
  <2>4. ~Edits
    BY <2>1, NoEdit
  <2> QED BY <1>1, <2>1, <2>s, <2>3, <2>4, Zenon DEF RefInv, Linked
<1>7. CASE RefreshXrayData
  <2>1. /\ UNCHANGED << stored, draft, save, dialog >>
        /\ left.refreshes > 0 /\ left' = [left EXCEPT !.refreshes = @ - 1]
    BY <1>7, Zenon DEF RefreshXrayData
  <2>2. left'.edits = left.edits
    BY <1>1, <2>1, SpentFits, Zenon
  <2>3. ~Edits
    BY <2>2, NoEdit
  <2> QED BY <1>1, <2>1, <2>3, Zenon DEF RefInv, Linked
<1>8. CASE OnSaveAll
  <2> DEFINE c == CleanupOrphanedBalancerLoopbacks(EnsureMissingBalancerLoopbacks(draft))
  <2>1. /\ UNCHANGED << stored, dialog >> /\ dialog.kind = "none"
        /\ draft' = c /\ save' = [save EXCEPT !.phase = "sent", !.config = c]
        /\ left.saves > 0 /\ left' = [left EXCEPT !.saves = @ - 1]
    BY <1>8, Zenon DEF OnSaveAll, server
  <2>2. Wired(c)
    BY <1>1, SaveKeepsBalancers, Zenon
  <2> HIDE DEF c
  <2>3. left'.edits = left.edits
    BY <1>1, <2>1, SpentFits, Zenon
  <2>4. ~Edits
    BY <2>3, NoEdit
  <2>5. save'.config = c
    BY <1>1, <2>1
  <2>6. Targets(dialog, c)
    BY <2>1, NoneAimed, Zenon
  <2> QED BY <1>1, <2>1, <2>2, <2>4, <2>5, <2>6 DEF RefInv, Linked
<1>9. CASE ServerSaves
  <2> DEFINE c == save.config
  <2>1. /\ UNCHANGED << draft, dialog, left >>
        /\ stored' = c \/ stored' = stored
        /\ \/ save' = [save EXCEPT !.phase = "saved"] \/ save' = [save EXCEPT !.phase = "refused"]
           \/ save' = [save EXCEPT !.phase = "refused", !.doubt = TRUE]
    BY <1>9, Zenon DEF ServerSaves
  <2>2. save'.config = c
    BY <1>1, <2>1
  <2>3. Wired(stored') /\ Wired(save'.config)
    BY <1>1, <2>1, <2>2
  <2>4. ~Edits
    BY <2>1, NoEdit
  <2> QED BY <1>1, <2>1, <2>3, <2>4, Zenon DEF RefInv, Linked
<1>10. CASE SaveReturns
  <2>1. /\ UNCHANGED << stored, draft, dialog, left >>
        /\ save' = [Idle EXCEPT !.doubt = save.doubt /\ save.phase = "refused"]
    BY <1>10, Zenon DEF SaveReturns, server
  <2>2. save'.config = Default
    <3> DEFINE w == save.doubt /\ save.phase = "refused"
    <3>1. save' = [Idle EXCEPT !.doubt = w]
      BY <2>1
    <3> HIDE DEF w
    <3> QED BY <3>1 DEF Idle
  <2>3. Wired(save'.config)
    BY <1>2, <2>2
  <2>4. ~Edits
    BY <2>1, NoEdit
  <2> QED BY <1>1, <2>1, <2>3, <2>4, Zenon DEF RefInv, Linked
<1>11. CASE Cancel
  <2>1. UNCHANGED << stored, draft, save, left >> /\ dialog' = Closed
    BY <1>11, Zenon DEF Cancel, server, query
  <2>2. Closed.kind = "none"
    BY DEF Closed
  <2>3. Targets(dialog', draft)
    BY <2>1, <2>2, NoneAimed
  <2>4. ~Edits
    BY <2>1, NoEdit
  <2> QED BY <1>1, <2>1, <2>3, <2>4, Zenon DEF RefInv, Linked
<1> QED BY <1>3, <1>4, <1>5, <1>6, <1>7, <1>8, <1>9, <1>10, <1>11, Zenon DEF SaveAndSync

LEMMA InitRef == Init => RefInv
<1> SUFFICES ASSUME Init PROVE RefInv
  OBVIOUS
<1>1. stored \in Stored /\ draft = stored /\ save = Idle /\ dialog = Closed
  BY Zenon DEF Init
<1>2. \A c \in Stored \cup {Default} : Wired(c)
  BY StoredWired, Zenon
<1>3. save.config = Default /\ dialog.kind = "none"
  BY <1>1 DEF Idle, Closed
<1>4. Targets(dialog, draft)
  BY <1>3, NoneAimed, Zenon
<1> QED BY <1>1, <1>2, <1>3, <1>4 DEF RefInv

LEMMA StepLinks == ASSUME NEW lev, Starts(lev), Next PROVE Linked(lev)
<1> HIDE DEF Linked
<1> QED BY OutboundsLink, FormsLink, RulesLink, BalancersLink, ProvidersLink, SaveAndSyncLinks, Zenon DEF Next

LEMMA StepRef == PageInv /\ RefInv /\ [Next]_vars => RefInv'
<1> SUFFICES ASSUME PageInv, RefInv, [Next]_vars PROVE RefInv'
  OBVIOUS
<1>1. CASE UNCHANGED vars
  <2>1. UNCHANGED << stored, draft, save, dialog >>
    BY <1>1 DEF vars
  <2> QED BY <1>1, <2>1, Zenon DEF RefInv
<1>2. CASE Next
  <2>1. Loose # Led
    BY DEF Loose, Led
  <2>2. Starts(Loose)
    BY <2>1, Zenon DEF Starts, PageInv
  <2> QED BY <1>2, <2>2, StepLinks, Zenon DEF Linked
<1> QED BY <1>1, <1>2

\* The references' invariant always holds.
LEMMA RefInvAlways == Spec => []RefInv
<1> QED BY InitRef, StepRef, PageInvAlways, PTL DEF Spec

\* A rule's dialog that changes no loopback's rule holds none.
LEMMA DialogLeads ==
  ASSUME PageInv, RefInv, ~OnLoopback, InTime, dialog.kind = "rule"
  PROVE  LeadsOnly(dialog.form)
<1> DEFINE i == dialog.at
           f == dialog.form
<1>1. f.inbound = IF i \in DOMAIN draft.rules THEN draft.rules[i].inbound ELSE NoTag
  BY DEF InTime, RefInv, Targets, Aims
<1>2. i \in DOMAIN draft.rules => ~IsLoopback(draft.rules[i].inbound)
  BY Zenon DEF OnLoopback
<1>3. ~IsLoopback(NoTag)
  BY DEF NoTag, IsLoopback
<1>4. ~IsLoopback(f.inbound)
  BY <1>1, <1>2, <1>3
<1> QED BY <1>4, Zenon DEF LeadsOnly

\* No edit of the page cuts what points at what it changes: in every
\* configuration, whichever dialog is confirmed on the draft it was opened on,
\* a rule loses its outbound only to the excepted edits, and when every
\* fallback to a balancer led there and every loopback's rule to its balancer,
\* they do after, unless the deletion announced that it takes a balancer along
\* or the tables' wrong row put the dialog on a loopback (reference-cleanup.ts,
\* balancer-loopback.ts, propagateOutboundTagRename).
THEOREM ReferencesKept == Spec => EditsKeepReferences
<1>1. ASSUME PageInv, RefInv, [Next]_vars
      PROVE  [Edited /\ InTime /\ text = "draft" /\ (dialog.kind = "none" => draft' \notin Stored \cup {Default}) =>
                /\ Dangling(draft') \subseteq Dangling(draft) \cup {Warp, Out("blocked")}
                /\ FallbacksLead(draft) /\ LoopbacksLead(draft) /\ dialog.plan.cascaded = {} /\ ~OnLoopback =>
                      FallbacksLead(draft') /\ LoopbacksLead(draft')]_vars
  <2> SUFFICES ASSUME Next, Edits
               PROVE  /\ Dangling(draft') \subseteq Dangling(draft) \cup Excepted
                      /\ FallbacksLead(draft) /\ LoopbacksLead(draft) /\ dialog.plan.cascaded = {} /\ ~OnLoopback =>
                            FallbacksLead(draft') /\ LoopbacksLead(draft')
    BY <1>1, Zenon DEF Edits, Excepted
  <2>1. InTime /\ Edited
    BY Zenon DEF Edits
  <2>2. Dangling(draft') \subseteq Dangling(draft) \cup Excepted
    <3>1. Loose # Led
      BY DEF Loose, Led
    <3>2. Starts(Loose)
      BY <1>1, <3>1, Zenon DEF Starts, PageInv
    <3> QED BY <2>1, <3>2, StepLinks, Zenon DEF Linked, Tends
  <2>3. ASSUME FallbacksLead(draft), LoopbacksLead(draft), dialog.plan.cascaded = {}, ~OnLoopback
        PROVE  FallbacksLead(draft') /\ LoopbacksLead(draft')
    <3>1. PageAt(Led)
      BY <1>1, <2>1, <2>3, DialogLeads, Rises, Zenon
    <3>2. Starts(Led)
      BY <1>1, <2>3, <3>1, Zenon DEF Starts
    <3>3. RefInv' /\ Tends(Led, draft')
      BY <3>2, StepLinks, Zenon DEF Linked
    <3> DEFINE d == draft'
    <3>4. Shaped(Led, d) /\ Wired(d)
      BY <2>1, <3>1, <3>3, StepLands, Zenon DEF Landed, RefInv
    <3>5. AllLead(draft)
      <4>1. Shaped(Led, draft) /\ Wired(draft)
        BY <1>1, <3>1, Zenon DEF PageAt, RefInv
      <4> QED BY <2>3, <4>1, LeadsAgree, Zenon
    <3>6. AllLead(d)
      BY <2>1, <2>3, <3>3, <3>5, Zenon DEF Tends
    <3> HIDE DEF d
    <3>7. FallbacksLead(d) /\ LoopbacksLead(d)
      BY <3>4, <3>6, LeadsAgree, UpperLevel, Zenon
    <3> QED BY <3>7 DEF d
  <2> QED BY <2>2, <2>3
<1> QED BY <1>1, PageInvAlways, RefInvAlways, PTL DEF Spec, EditsKeepReferences
=============================================================================
