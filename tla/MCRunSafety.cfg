\* One thread, three runs: two generations of interrupt and resume, a
\* cancelled caller, an agent that is registered late.
SPECIFICATION Spec
CONSTANTS
  Threads = {t1}
  Assistants = {a1, a2}
  Interrupts = {i1}
  AssistantKey = AssistantKey
  Runs = {r1, r2, r3}
  Named = {}
  NoRun = NoRun
  NoAssistant = NoAssistant
  NoCall = NoCall
  NoPending = NoPending
  NoValues = NoValues
  NoAnswer = NoAnswer
  CallerCancels = TRUE
SYMMETRY Symmetry
INVARIANTS TypeOK SingleFlight SlotsAndRunsAgree LifecycleTrace NoInterleaving PendingIsLastRequest EndedRunsCloseMessages
PROPERTIES OnlySuccessfulStartsConsume AnswerStillPending
CHECK_DEADLOCK FALSE
