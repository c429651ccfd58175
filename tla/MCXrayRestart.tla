--------------------------- MODULE MCXrayRestart ---------------------------
(* Instances of XrayRestart for TLC: one hot tag, one cold section with two  *)
(* contents, one or two editors.                                             *)
EXTENDS XrayRestart, TLC

\* Cold contents are interchangeable, and so are the editors of one kind (used
\* for invariants only).
Symmetry == Permutations(Saver) \cup Permutations(Editor \ Saver) \cup Permutations(ColdSetting)
=============================================================================
