\* Two threads, so that the steps of one are seen beside the other; callers of
\* start are never cancelled.
SPECIFICATION LoopSpec
CONSTANTS
  Threads = {t1, t2}
  Assistants = {a1, a2}
  Interrupts = {i1}
  AssistantKey = AssistantKey
  Runs = {r1, r2}
  Named = {}
  NoRun = NoRun
  NoAssistant = NoAssistant
  NoCall = NoCall
  NoPending = NoPending
  NoValues = NoValues
  NoAnswer = NoAnswer
  CallerCancels = FALSE
PROPERTIES CancelReleasesSlot DispatchedRunSettles ImplementsThreads
CHECK_DEADLOCK FALSE
