\* Three checkpoints, three writes to any of them, pages of every size.
SPECIFICATION FairSpec
CONSTANTS
  Channels = {messages, files}
  Reserved = {interrupt}
  Limits <- MCLimits
  MaxCheckpoints = 3
  MaxWrites = 3
INVARIANTS TypeOK PagesTile EntriesAreNetEffect
PROPERTIES ReachesOldest
CHECK_DEADLOCK FALSE
