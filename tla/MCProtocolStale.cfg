\* Two answers to one interrupt, each of which found it in the saver.
SPECIFICATION ProtocolSpec
CONSTANTS
  Threads = {t1}
  Assistants = {a1}
  Interrupts = {i1}
  AssistantKey = AssistantKey
  Runs = {r1, r2, r3}
  Named = {}
  NoThread = NoThread
  NoRun = NoRun
  NoAssistant = NoAssistant
  NoCall = NoCall
  NoPending = NoPending
  NoValues = NoValues
  NoAnswer = NoAnswer
  CallerCancels = FALSE
  Durable = TRUE
  Requests = {q1, q2}
  Idle = Idle
  NoCheckpoint = NoCheckpoint
  MaxRestarts = 0
  LaterRuns = 0
PROPERTIES OnlyPendingInterruptsResume
CHECK_DEADLOCK FALSE
