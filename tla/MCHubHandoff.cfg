\* More events between subscribe and replay than the ring holds.
SPECIFICATION Spec
CONSTANTS
  Subs = {s1}
  Contents <- MCOneContent
  Filters <- MCNoFilter
  Sinces <- MCNoSince
  ReplaySize = 1
  MaxQueue = 3
  MaxSeq = 3
INVARIANTS ExactOnceHandoff
CHECK_DEADLOCK FALSE
