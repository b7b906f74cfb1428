\* Two threads, and a client that may name either in the config of a start on
\* the other.
SPECIFICATION Spec
CONSTANTS
  Threads = {t1, t2}
  Assistants = {a1}
  Interrupts = {i1}
  AssistantKey = AssistantKey
  Runs = {r1, r2}
  Named = {t1, t2}
  NoRun = NoRun
  NoAssistant = NoAssistant
  NoCall = NoCall
  NoPending = NoPending
  NoValues = NoValues
  NoAnswer = NoAnswer
  CallerCancels = FALSE
INVARIANTS OneGraphPerThread
CHECK_DEADLOCK FALSE
