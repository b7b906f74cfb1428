\* Two threads, two assistants and a client that may name either thread in the
\* config of a start on the other; two runs, and one more after a restart.
SPECIFICATION ProtocolSpec
CONSTANTS
  Threads = {t1, t2}
  Assistants = {a1, a2}
  Interrupts = {i1}
  AssistantKey = AssistantKey
  Runs = {r1, r2}
  Named = {t1, t2}
  NoThread = NoThread
  NoRun = NoRun
  NoAssistant = NoAssistant
  NoCall = NoCall
  NoPending = NoPending
  NoValues = NoValues
  NoAnswer = NoAnswer
  CallerCancels = FALSE
  Durable = TRUE
  Requests = {q1}
  Idle = Idle
  NoCheckpoint = NoCheckpoint
  MaxRestarts = 1
  LaterRuns = 1
SYMMETRY Symmetry
INVARIANTS ProtocolTypeOK PendingMatchesSaver AcknowledgedBindingIsDurable BoundToWhatRuns InterruptsStayAnswerable
PROPERTIES SaverStillWhileResolving ThreadsInEveryLife
CHECK_DEADLOCK FALSE
