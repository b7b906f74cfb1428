\* Two messages and an address that may come again, tool calls with and
\* without index.
SPECIFICATION Spec
CONSTANTS
  Named = {m1, m2}
  Anonymous = {x1}
  Fragments <- MCFragments
  Usages = {TRUE, FALSE}
  NoIndex = NoIndex
  MaxChunks = 4
SYMMETRY Symmetry
INVARIANTS TypeOK FramesAttributable OneMessageAtATime BlocksBracketed OpenMessagesComplete
CHECK_DEADLOCK FALSE
