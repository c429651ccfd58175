SPECIFICATION FairSpec
CONSTANTS
  Plan = {A}
  Empty = Empty
  Slots = 5
  MaxFaults = 3
INVARIANTS ListenersOfCurrent SingleFaultRollsBack
PROPERTIES CallbackOwnListeners NoSecondProcess RecoversUnlessStale
