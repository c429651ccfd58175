SPECIFICATION FairSpec
CONSTANTS
  HotTag = {h}
  ColdTag = {c}
  HotSetting = {H}
  ColdSetting = {A, B}
  Off = Off
  Editor = {e1}
  Saver = {e1}
  MaxEdits = 1
  MaxFaults = 1
PROPERTIES RequestsServed CrashRecovered
