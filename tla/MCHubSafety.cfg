\* One stream; a ring and a queue shorter than the run of events; every filter
\* of the module; the client keeps reading.
SPECIFICATION FairSpec
CONSTANTS
  Subs = {s1}
  Contents <- MCContents
  Filters <- MCFilters
  Sinces <- MCSinces
  ReplaySize = 2
  MaxQueue = 2
  MaxSeq = 5
INVARIANTS TypeOK BufferIsRecent InOrderAtMostOnce NoOtherGap
PROPERTIES ImplementsFeed EventuallyDelivered
CHECK_DEADLOCK FALSE
