------------------------------ MODULE LeaseSlots ------------------------------
(***************************************************************************)
(* What the strict IP limit promises of one client: the set of source IPs  *)
(* that are admitted grows by one IP at a time and only while there is     *)
(* room; it shrinks when leases end and when the limit is lowered.         *)
(***************************************************************************)
EXTENDS Naturals, FiniteSets

CONSTANTS IP, Limit

VARIABLES limit, slots

Init == limit \in Limit /\ slots = {}

\* A new IP is admitted while there is room for it.
Admit == \E ip \in IP \ slots : /\ Cardinality(slots) < limit
                               /\ slots' = slots \cup {ip}
                               /\ UNCHANGED limit

Leave == slots' \in SUBSET slots /\ UNCHANGED limit

SetLimit == limit' \in Limit /\ UNCHANGED slots

Spec == Init /\ [][Admit \/ Leave \/ SetLimit]_<<limit, slots>>
=============================================================================
