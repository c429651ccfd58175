SPECIFICATION Spec
CONSTANTS
  Tag = {t1, t2}
  Client = {c}
  Editor = {e1}
  None = None
  MaxEdits = 2
  MaxFaults = 1
INVARIANT CleanMeansEqual
PROPERTIES ClearOnlyReconciled MergeKeepsEdits NativeUntouched Agree
