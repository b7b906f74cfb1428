\* A start whose client sends metadata that cannot be merged.
SPECIFICATION Spec
CONSTANTS
  Threads = {t1}
  Assistants = {a1}
  Interrupts = {i1}
  AssistantKey = AssistantKey
  Runs = {r1}
  Named = {}
  NoRun = NoRun
  NoAssistant = NoAssistant
  NoCall = NoCall
  NoPending = NoPending
  NoValues = NoValues
  NoAnswer = NoAnswer
  CallerCancels = FALSE
INVARIANTS FailedStartsReleaseSlot
CHECK_DEADLOCK FALSE
