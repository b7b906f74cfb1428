\* A cancel that arrives before the task of a run takes its first step.
SPECIFICATION Spec
CONSTANTS
  Threads = {t1}
  Assistants = {a1}
  Interrupts = {i1}
  AssistantKey = AssistantKey
  Runs = {r1}
  Named = {}
  NoRun = NoRun
  NoAssistant = NoAssistant
  NoCall = NoCall
  NoPending = NoPending
  NoValues = NoValues
  NoAnswer = NoAnswer
  CallerCancels = FALSE
INVARIANTS EveryRunReportsTerminal
CHECK_DEADLOCK FALSE
