\* The chunks of two messages alternate, none carries usage.
SPECIFICATION Spec
CONSTANTS
  Named = {m1, m2}
  Anonymous = {}
  Fragments <- MCNoFragments
  Usages = {FALSE}
  NoIndex = NoIndex
  MaxChunks = 3
SYMMETRY Symmetry
INVARIANTS InterleavingKeepsText
CHECK_DEADLOCK FALSE
