------------------------------ MODULE MCIPLease ------------------------------
(***************************************************************************)
(* Instance of IPLease for TLC.  Holder keys are only compared.            *)
(***************************************************************************)
EXTENDS IPLease, TLC

Symmetry == Permutations(Holder)
=============================================================================
