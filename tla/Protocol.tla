------------------------------ MODULE Protocol ------------------------------
(***************************************************************************)
(* The commands of the router (router.py) composed with the run manager,   *)
(* the thread store and the saver the user's graphs checkpoint to.         *)
(*                                                                         *)
(* run.start starts a run and then binds its assistant to the thread;      *)
(* input.respond finds the interrupt in the saver and then asks the        *)
(* manager, which has a map of its own, to resume; a restart loses the     *)
(* manager and whatever the store had not committed, and keeps the saver.  *)
(* Whatever await a handler stands at, the other handlers and the runs     *)
(* take steps.  Callers are not cancelled (CallerCancels is FALSE).        *)
(*                                                                         *)
(* A command that is answered with an error before it reached the manager  *)
(* changes nothing and is no action; neither are the reads (state.get, the *)
(* state and history endpoints).  The saver is external: every graph has   *)
(* one, all of them durable.  A run writes to the thread its configurable  *)
(* names, which a client of run.start can choose.                          *)
(***************************************************************************)
EXTENDS RunManager

CONSTANTS
  NoThread,
  Durable,        \* the store is sqlite(path), else memory()
  Requests,       \* calls of input.respond in flight
  Idle,           \* no such call
  NoCheckpoint,   \* the saver has nothing for the thread
  MaxRestarts,    \* bound on the restarts
  LaterRuns       \* bound on the starts in each life after the first

ASSUME ProtocolAssumption ==
  /\ NoThread \notin Assistants \cup {NoAssistant}
  /\ Durable \in BOOLEAN
  /\ NoCheckpoint \notin [by : Assistants, ids : SUBSET Interrupts]
  /\ Idle \notin [thread : Threads, id : Interrupts]
  /\ MaxRestarts \in Nat /\ LaterRuns \in Nat

VARIABLES
  rows, disk,     \* the thread store
  saved,          \* the saver: who wrote a thread's last checkpoint, and the
                  \* interrupts pending in it
  request,        \* an input.respond that saw its interrupt in the saver
  answer,         \* the interrupt a run was started to answer
  acked,          \* history: the assistant of a thread's last run.start, if
                  \* that was answered with success
  restarts

Store == INSTANCE ThreadStore

managerVars == <<phase, active, pending, log, callVars, taskVars>>
storeVars == <<rows, disk>>
protocolVars == <<managerVars, storeVars, saved, request, answer, acked, restarts>>

Checkpoint == [by : Assistants, ids : SUBSET Interrupts]
Request_ == [thread : Threads, id : Interrupts]

ProtocolInit ==
  /\ Init
  /\ Store!Open
  /\ saved = [t \in Threads |-> NoCheckpoint]
  /\ request = [q \in Requests |-> Idle]
  /\ answer = [r \in Runs |-> NoAnswer]
  /\ acked = [t \in Threads |-> NoAssistant]
  /\ restarts = 0

-----------------------------------------------------------------------------
(* Threads and run.start                                                    *)

CreateThread(t) ==
  /\ saved[t] = NoCheckpoint
  /\ Store!Create(t)
  /\ UNCHANGED <<managerVars, saved, request, answer, acked, restarts>>

(* The bound on starts: run ids are fresh, and there are enough in Runs    *)
(* for the first life of the process.                                      *)
Fits == restarts > 0 => Cardinality({s \in Runs : phase[s] # "unused"}) < LaterRuns

RunStart(r, t, a, c) ==
  /\ Fits
  /\ Store!Exists(t)
  /\ Start(r, t, a, c)
  /\ answer' = [answer EXCEPT ![r] = NoAnswer]
  /\ UNCHANGED <<storeVars, saved, request, acked, restarts>>

(* manager.start returns, and with no await between, the assistant is      *)
(* bound.  If that raises the client sees a 500, and the run is running.   *)
RunStarted(r) ==
  LET t == call[r].thread
      a == call[r].assistant
  IN /\ answer[r] = NoAnswer
     /\ ResolveOk(r)
     /\ \/ Store!SetAssistant(t, a) /\ acked' = [acked EXCEPT ![t] = a]
        \/ Store!SetAssistantRaises(t, a) /\ acked' = [acked EXCEPT ![t] = NoAssistant]
     /\ UNCHANGED <<saved, request, answer, restarts>>

(* manager.start raises what the handler does not catch: a 500, no run.    *)
RunStartRaises(r) ==
  /\ StartRaises(r)
  /\ UNCHANGED <<storeVars, saved, request, answer, acked, restarts>>

-----------------------------------------------------------------------------
(* input.respond and run.cancel                                             *)

(* _state_graph: a graph to read the thread with.  An assistant that is    *)
(* not registered makes the handler raise.                                 *)
HasStateGraph(t) == rows[t] \in registered

(* read_thread_state: the interrupts of the thread's last checkpoint.      *)
StateInterrupts(t) == IF saved[t] = NoCheckpoint THEN {} ELSE saved[t].ids

(* The thread's graph is built and the saver read: the interrupt is there. *)
FindInterrupt(q, t, i) ==
  /\ request[q] = Idle
  /\ HasStateGraph(t)
  /\ i \in StateInterrupts(t)
  /\ request' = [request EXCEPT ![q] = [thread |-> t, id |-> i]]
  /\ UNCHANGED <<managerVars, storeVars, saved, answer, acked, restarts>>

(* The handler resumes: it reads the row again and calls manager.respond.  *)
Resume(q, r) ==
  LET t == request[q].thread IN
  /\ Fits
  /\ request[q] # Idle
  /\ Respond(r, t, request[q].id, rows[t])
  /\ answer' = [answer EXCEPT ![r] = request[q].id]
  /\ request' = [request EXCEPT ![q] = Idle]
  /\ UNCHANGED <<storeVars, saved, acked, restarts>>

(* manager.respond raises: the interrupt is not in the thread's map, or    *)
(* the thread is busy.                                                     *)
ResumeRefused(q) ==
  LET t == request[q].thread IN
  /\ request[q] # Idle
  /\ ~Accepts(t, request[q].id, rows[t])
  /\ request' = [request EXCEPT ![q] = Idle]
  /\ UNCHANGED <<managerVars, storeVars, saved, answer, acked, restarts>>

(* manager.start returns to manager.respond; the binding stays.            *)
Resumed(r) ==
  /\ answer[r] # NoAnswer
  /\ ResolveOk(r)
  /\ UNCHANGED <<storeVars, saved, request, answer, acked, restarts>>

RunCancel(t, rid) ==
  /\ Store!Exists(t)
  /\ Cancel(t, rid)
  /\ UNCHANGED <<storeVars, saved, request, answer, acked, restarts>>

-----------------------------------------------------------------------------
(* The runs and the saver                                                   *)

(* Run r writes a checkpoint in which ids are pending.                     *)
Save(r, ids) ==
  saved' = [saved EXCEPT ![Target(r)] = [by |-> call[r].assistant, ids |-> ids]]

(* The runs of thread t are those that run on its checkpoints: no client   *)
(* named t in the config of a start on another thread, or another thread   *)
(* in the config of a start on t, in this life of the process.             *)
Private(t) ==
  \A r \in Runs : phase[r] # "unused" => (call[r].thread = t <=> Target(r) = t)

(* The graph streams its values.  It may have checkpointed them already.   *)
(* The values with its interrupts are the last ones.                       *)
GraphValues(r, ids) ==
  /\ lastValues[r] \in {NoValues, {}}
  /\ Values(r, ids)
  /\ Save(r, ids) \/ UNCHANGED saved
  /\ UNCHANGED <<storeVars, request, answer, acked, restarts>>

(* When the stream ends the saver holds what was streamed last, unless     *)
(* another graph may have written there after it.                          *)
GraphEnds(r) ==
  /\ StreamEnds(r)
  /\ \/ lastValues[r] # NoValues /\ Save(r, lastValues[r])
     \/ (lastValues[r] = NoValues \/ ~Private(Target(r))) /\ UNCHANGED saved
  /\ UNCHANGED <<storeVars, request, answer, acked, restarts>>

(* Without values the run asks the saver, which knows of interrupts only   *)
(* through the graph that raised them.                                     *)
GraphSnapshot(r, ids) ==
  /\ SnapshotReturns(r, ids)
  /\ ids # {} => saved[Target(r)] = [by |-> call[r].assistant, ids |-> ids]
  /\ UNCHANGED <<storeVars, saved, request, answer, acked, restarts>>

(* What the manager does without the store or the saver.                   *)
ManagerStep ==
  /\ \/ \E a \in Assistants : Register(a)
     \/ \E r \in Runs :
          \/ ResolveFail(r) \/ Begin(r) \/ CancelUnstarted(r) \/ Message(r)
          \/ Fail(r) \/ Cancelled(r) \/ DoneCallback(r)
  /\ UNCHANGED <<storeVars, saved, request, answer, acked, restarts>>

-----------------------------------------------------------------------------
(* A new registry, run manager and hub registry.                           *)
NewManager_KeepsTasks ==
  /\ call' = [r \in Runs |-> NoCall]
  /\ pending' = [t \in Threads |-> NoPending]
  /\ UNCHANGED <<phase, active, log, registered, lastAssistant, taskVars>>
NewManager ==
  /\ registered' = {}
  /\ phase' = [r \in Runs |-> "unused"]
  /\ call' = [r \in Runs |-> NoCall]
  /\ cancelReq' = [r \in Runs |-> FALSE]
  /\ lastValues' = [r \in Runs |-> NoValues]
  /\ open' = [r \in Runs |-> FALSE]
  /\ active' = [t \in Threads |-> NoRun]
  /\ pending' = [t \in Threads |-> NoPending]
  /\ lastAssistant' = [t \in Threads |-> NoAssistant]
  /\ log' = [t \in Threads |-> <<>>]

(* The process stops, at any of these steps, and starts again: the store   *)
(* is opened again, requests are gone.  A memory store promises nothing    *)
(* across a restart.                                                       *)
Restart ==
  /\ restarts < MaxRestarts
  /\ restarts' = restarts + 1
  /\ NewManager
  /\ Store!Reopen
  /\ request' = [q \in Requests |-> Idle]
  /\ answer' = [r \in Runs |-> NoAnswer]
  /\ acked' = IF Durable THEN acked ELSE [t \in Threads |-> NoAssistant]
  /\ UNCHANGED saved

ProtocolNext ==
  \/ \E t \in Threads : CreateThread(t)
  \/ \E r \in Runs, t \in Threads, a \in Assistants, c \in Config : RunStart(r, t, a, c)
  \/ \E q \in Requests, t \in Threads, i \in Interrupts : FindInterrupt(q, t, i)
  \/ \E q \in Requests, r \in Runs : Resume(q, r)
  \/ \E q \in Requests : ResumeRefused(q)
  \/ \E r \in Runs : RunStarted(r) \/ RunStartRaises(r) \/ Resumed(r) \/ GraphEnds(r)
  \/ \E r \in Runs, ids \in SUBSET Interrupts : GraphValues(r, ids) \/ GraphSnapshot(r, ids)
  \/ \E t \in Threads, rid \in Runs \cup {NoRun} : RunCancel(t, rid)
  \/ ManagerStep
  \/ Restart

ProtocolSpec == ProtocolInit /\ [][ProtocolNext]_protocolVars

-----------------------------------------------------------------------------
(* Properties                                                               *)

ProtocolTypeOK ==
  /\ TypeOK
  /\ Store!Typed
  /\ saved \in [Threads -> Checkpoint \cup {NoCheckpoint}]
  /\ request \in [Requests -> Request_ \cup {Idle}]
  /\ answer \in [Runs -> Interrupts \cup {NoAnswer}]
  /\ acked \in [Threads -> Assistants \cup {NoAssistant}]
  /\ restarts \in 0..MaxRestarts

(* The manager's map and the saver are two records of one fact, kept by    *)
(* two parties: whenever the map has an entry it is exactly what the saver *)
(* holds, whatever was cancelled, failed or crashed on the thread and ran  *)
(* on the others, unless a client made runs cross the thread's boundary    *)
(* (runner.py:144).                                                        *)
PendingMatchesSaver ==
  \A t \in Threads : pending[t] # NoPending /\ Private(t) =>
    saved[t] = [by |-> pending[t].assistant, ids |-> pending[t].ids]

(* A start answered with success is bound for good ("persist the last      *)
(* graph that ran on a thread (restart-safe hydration)", threads.py:39):   *)
(* reads see it, and so does the disk a restart comes back from, although  *)
(* other writes failed, until the thread's next start.                     *)
AcknowledgedBindingIsDurable ==
  \A t \in Threads : acked[t] # NoAssistant => rows[t] = acked[t] /\ disk[t] = acked[t]

(* While a run executes, the thread is bound to the run's own assistant,   *)
(* so that a state read decodes with its graph and a resume of what it     *)
(* asks goes to it: whether the run was started or resumed, unless the     *)
(* last start was answered with an error.                                  *)
BoundToWhatRuns ==
  \A r \in Runs : Executing(r) /\ acked[call[r].thread] # NoAssistant =>
    acked[call[r].thread] = call[r].assistant

(* An interrupt a client sees in the saver while its thread is quiet can   *)
(* be answered: the manager's map, lost or not, does not refuse it.  Quiet *)
(* means that no run is live on the thread and no start on it raised over  *)
(* its metadata since the last restart (runner.py:149); and, as above, no  *)
(* client made runs cross the thread's boundary.                           *)
InterruptsStayAnswerable ==
  \A t \in Threads, i \in Interrupts :
    (/\ i \in StateInterrupts(t)
     /\ rows[t] \in Assistants
     /\ Private(t)
     /\ \A s \in Runs : Live(s) \/ phase[s] = "abandoned" => call[s].thread # t)
    => Accepts(t, i, rows[t])

(* What the handler found in the saver stays true while the factory builds *)
(* the graph: from the call of start to the task, no run writes to the     *)
(* thread, unless a client made runs cross its boundary.                   *)
SaverStillWhileResolving ==
  [][\A r \in Runs :
       (phase[r] = "resolving" /\ phase'[r] \in {"resolving", "scheduled"}
         /\ Private(call[r].thread)) =>
         saved'[call[r].thread] = saved[call[r].thread]]_protocolVars

(* Whatever handlers, store and saver do around it, the manager keeps its  *)
(* promise in each life of the process (ThreadRuns): a step of the         *)
(* composition takes a thread, moves its holder on or gives it back, or    *)
(* none of these, and only a restart begins anew, with every thread free.  *)
ThreadsInEveryLife ==
  /\ Thread!Init
  /\ [][\/ UNCHANGED Thread!threadVars
        \/ restarts' = restarts + 1 /\ (Thread!Init)'
        \/ Thread!Next]_protocolVars

-----------------------------------------------------------------------------
(* What the documentation says and the code does not do                     *)

(* "WHEN input.respond carries an interrupt_id with no pending interrupt   *)
(* on the thread THEN the command responds with a typed no_such_interrupt  *)
(* error envelope, no run is created" (protocol-library/spec.md).          *)
OnlyPendingInterruptsResume ==
  [][\A r \in Runs :
       (phase[r] = "resolving" /\ phase'[r] = "scheduled" /\ answer[r] # NoAnswer) =>
         answer[r] \in StateInterrupts(call[r].thread)]_protocolVars
=============================================================================
