SPECIFICATION Spec
CONSTANTS
  HotTag = {h}
  ColdTag = {c}
  HotSetting = {H}
  ColdSetting = {A, B}
  Off = Off
  Editor = {e1, e2}
  Saver = {e2}
  MaxEdits = 2
  MaxFaults = 1
INVARIANTS NoRequestLost DriftExplained ColdEditsReachCore
SYMMETRY Symmetry
