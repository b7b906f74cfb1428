------------------------------ MODULE RunManager ------------------------------
(***************************************************************************)
(* The run manager (runner.py) with the agent registry it resolves graphs  *)
(* from (registry.py): one asyncio task per accepted start, at most one    *)
(* run per thread, lifecycle events, and the map of interrupts that wait   *)
(* for an answer.                                                          *)
(*                                                                         *)
(* The program is one asyncio loop, so the code between two awaits is one  *)
(* action.  A call of start is cut at its only await (the factory that     *)
(* builds the graph), and the task _execute at the awaits on the graph's   *)
(* stream and on the checkpointer.  The graph is external: it yields       *)
(* message chunks and values in any order, ends, raises, and lets a        *)
(* CancelledError thrown into it through (or raises something else while   *)
(* it cleans up).                                                          *)
(*                                                                         *)
(* A call that finds its thread busy, or an interrupt unknown, raises and  *)
(* changes nothing, so it is no action.                                    *)
(***************************************************************************)
EXTENDS Integers, Sequences, FiniteSets, SequencesExt

CONSTANTS
  Threads,        \* thread ids
  Assistants,     \* names an agent can be registered under
  Interrupts,     \* interrupt ids a graph can raise
  AssistantKey,   \* the key "assistant_id" the pending map also holds
  Runs,           \* run ids: one for each accepted call of start
  Named,          \* threads that clients name in the config of a run.start
  NoRun, NoAssistant, NoCall, NoPending, NoValues, NoAnswer,
  CallerCancels   \* may the caller of start be cancelled while it awaits?

ASSUME NullAssumption ==
  /\ NoRun \notin Runs
  /\ Named \subseteq Threads
  /\ NoAssistant \notin Assistants
  /\ AssistantKey \notin Interrupts
  /\ NoAnswer \notin Interrupts \cup {AssistantKey}
  /\ \A ids \in SUBSET Interrupts : ids # NoValues
  /\ NoPending \notin [assistant : Assistants, ids : SUBSET Interrupts]
  /\ CallerCancels \in BOOLEAN

VARIABLES
  registered,     \* registry._factories: the names in it
  phase,          \* where the call of start, then the task, of a run stands
  call,           \* thread, assistant and config of that call, and the key
                  \* under which the pending map knew the interrupt it answers
  cancelReq,      \* task.cancel() was called on the unfinished task
  lastValues,     \* last_values: the interrupts in the last streamed values
  open,           \* the translator has a message started and not finished
  active,         \* _active: the run that holds the thread's slot
  pending,        \* _pending_inputs
  lastAssistant,  \* _last_assistant
  log             \* lifecycle and input.requested events, in hub order

callVars == <<registered, call, lastAssistant>>
taskVars == <<cancelReq, lastValues, open>>
vars == <<phase, active, pending, log, callVars, taskVars>>

(* resolving: start awaits the factory, the slot holds no task yet.        *)
(* rejected: start raised and gave the slot back.  abandoned: start was    *)
(* left by an exception that its except clause does not see.               *)
(* scheduled: the task exists and has not run.  ended: the task is done,   *)
(* its done-callback has not run.  cleared: the callback has run.          *)
Phases == {"unused", "resolving", "rejected", "abandoned", "scheduled",
           "streaming", "snapshot", "ended", "cleared"}
Terminals == {"completed", "failed", "interrupted"}
Keys == Interrupts \cup {AssistantKey}
(* What start makes of the config and metadata it is called with: the      *)
(* configurable.thread_id of the run, and whether the metadata merges,     *)
(* which nobody validates.  Without them, as respond calls it, a run gets  *)
(* its own thread.                                                         *)
Config == [thread_id : Threads, merges : BOOLEAN]
NoConfig(t) == [thread_id |-> t, merges |-> TRUE]
Call == [thread : Threads, assistant : Assistants, answers : Keys \cup {NoAnswer},
         config : Config]
Pending == [assistant : Assistants, ids : SUBSET Interrupts]
Event == [run : Runs, event : Terminals \cup {"started", "running", "requested"},
          ids : SUBSET Interrupts]

Executing(r) == phase[r] \in {"streaming", "snapshot"}
Live(r) == Executing(r) \/ phase[r] \in {"resolving", "scheduled"}

(* The thread whose checkpoints the graph of run r reads and writes.       *)
Target(r) == call[r].config.thread_id

Init ==
  /\ registered = {}
  /\ phase = [r \in Runs |-> "unused"]
  /\ call = [r \in Runs |-> NoCall]
  /\ cancelReq = [r \in Runs |-> FALSE]
  /\ lastValues = [r \in Runs |-> NoValues]
  /\ open = [r \in Runs |-> FALSE]
  /\ active = [t \in Threads |-> NoRun]
  /\ pending = [t \in Threads |-> NoPending]
  /\ lastAssistant = [t \in Threads |-> NoAssistant]
  /\ log = [t \in Threads |-> <<>>]

Goto(r, p) == phase' = [phase EXCEPT ![r] = p]

(* Events published in one step on the hub of run r's thread.              *)
Publish(r, events) == log' = [log EXCEPT ![call[r].thread] = @ \o events]
Lifecycle(r, status) == [run |-> r, event |-> status, ids |-> {}]

(* What a run that asks for input reports: one input.requested event for   *)
(* each interrupt, published together, kept as one entry of the log.       *)
Request_AlsoCompletes(r, ids) ==
  <<Lifecycle(r, "interrupted"), [run |-> r, event |-> "requested", ids |-> ids],
    Lifecycle(r, "completed")>>
Request(r, ids) ==
  <<Lifecycle(r, "interrupted"), [run |-> r, event |-> "requested", ids |-> ids]>>

(* translator.finish(None): the message that is streaming is finished.     *)
FinishMessages_Not(r) == open
FinishMessages(r) == [open EXCEPT ![r] = FALSE]

-----------------------------------------------------------------------------
(* Starting a run                                                           *)

(* registry.register: a name added (or its factory replaced) at any time.  *)
Register(a) ==
  /\ a \notin registered
  /\ registered' = registered \cup {a}
  /\ UNCHANGED <<phase, call, active, pending, lastAssistant, log, taskVars>>

(* The guard of start: no slot holder, or one whose task is done.          *)
Free_IgnoresReservation(t) ==
  active[t] # NoRun => phase[active[t]] \in {"ended", "resolving"}
Free(t) == active[t] # NoRun => phase[active[t]] = "ended"

(* The slot given back by the holder that took it, and by nobody else.     *)
Release_AnyHolder(t, r) == [active EXCEPT ![t] = NoRun]
Release_Nothing(t, r) == active
Release(t, r) == IF active[t] = r THEN [active EXCEPT ![t] = NoRun] ELSE active

(* The pending map popped by the start that supersedes it.                 *)
Consume_Nothing(t) == pending
Consume(t) == [pending EXCEPT ![t] = NoPending]

(* start up to its await: guard, reserve the slot, look the factory up.    *)
(* An unknown name raises at once, and the slot just taken is released.    *)
Dispatch_PopsPending(r, t, a, i, c) ==
  /\ phase[r] = "unused"
  /\ Free(t)
  /\ call' = [call EXCEPT ![r] = [thread |-> t, assistant |-> a, answers |-> i,
                               config |-> c]]
  /\ \/ a \in registered /\ Goto(r, "resolving") /\ active' = [active EXCEPT ![t] = r]
     \/ a \notin registered /\ Goto(r, "rejected") /\ active' = [active EXCEPT ![t] = NoRun]
  /\ pending' = Consume(t)
  /\ UNCHANGED <<registered, lastAssistant, log, taskVars>>
Dispatch(r, t, a, i, c) ==
  /\ phase[r] = "unused"
  /\ Free(t)
  /\ call' = [call EXCEPT ![r] = [thread |-> t, assistant |-> a, answers |-> i,
                               config |-> c]]
  /\ \/ a \in registered /\ Goto(r, "resolving") /\ active' = [active EXCEPT ![t] = r]
     \/ a \notin registered /\ Goto(r, "rejected") /\ active' = [active EXCEPT ![t] = NoRun]
  /\ UNCHANGED <<registered, pending, lastAssistant, log, taskVars>>

(* A thread_id the client names in its configurable wins over the thread's. *)
Start(r, t, a, c) ==
  /\ c.thread_id \in {t} \cup Named
  /\ Dispatch(r, t, a, NoAnswer, c)

(* What respond and start let through: the pending map knows the key, or   *)
(* the thread has no map and the caller supplies an assistant; and the     *)
(* thread is free.                                                         *)
Accepts_RequiresMap(t, i, a) ==
  /\ Free(t)
  /\ pending[t] # NoPending
  /\ i \in pending[t].ids \cup {AssistantKey}
Accepts(t, i, a) ==
  /\ Free(t)
  /\ \/ pending[t] # NoPending /\ i \in pending[t].ids \cup {AssistantKey}
     \/ pending[t] = NoPending /\ a # NoAssistant

(* respond: the caller's assistant wins over the map's; start gets neither *)
(* config nor metadata from it.                                            *)
Respond_NoFallback(r, t, i, a) ==
  /\ Accepts(t, i, a)
  /\ Dispatch(r, t, a, IF pending[t] = NoPending THEN NoAnswer ELSE i, NoConfig(t))
Respond(r, t, i, a) ==
  /\ Accepts(t, i, a)
  /\ \/ /\ pending[t] # NoPending
        /\ Dispatch(r, t, IF a # NoAssistant THEN a ELSE pending[t].assistant, i, NoConfig(t))
     \/ /\ pending[t] = NoPending
        /\ Dispatch(r, t, a, NoAnswer, NoConfig(t))

(* The factory's awaitable yields a graph: start builds the run's config,  *)
(* consumes the pending map, creates the task and puts it in the slot.     *)
ResolveOk(r) ==
  LET t == call[r].thread IN
  /\ phase[r] = "resolving"
  /\ call[r].config.merges
  /\ Goto(r, "scheduled")
  /\ pending' = Consume(t)
  /\ lastAssistant' = [lastAssistant EXCEPT ![t] = call[r].assistant]
  /\ active' = [active EXCEPT ![t] = r]
  /\ UNCHANGED <<registered, call, log, taskVars>>

(* The factory yields a graph and building the config raises: the call's   *)
(* metadata is no mapping, or the metadata in its config is none.  No      *)
(* except clause is around that code, so the reservation stays.            *)
StartRaises(r) ==
  /\ phase[r] = "resolving"
  /\ ~call[r].config.merges
  /\ Goto(r, "abandoned")
  /\ UNCHANGED <<active, pending, log, callVars, taskVars>>

(* The factory raises: the slot is released, the pending map is kept.      *)
ResolveFail(r) ==
  /\ phase[r] = "resolving"
  /\ Goto(r, "rejected")
  /\ active' = Release(call[r].thread, r)
  /\ UNCHANGED <<pending, log, callVars, taskVars>>

(* The caller of start is cancelled at the await.  CancelledError is no    *)
(* Exception: the except clause does not run and the reservation stays.    *)
StartCancelled(r) ==
  /\ CallerCancels
  /\ phase[r] = "resolving"
  /\ Goto(r, "abandoned")
  /\ UNCHANGED <<active, pending, log, callVars, taskVars>>

(* cancel: the task in the slot, when the given run id (if any) is its.    *)
(* Without a task, or on a task that is done, it changes nothing.          *)
Cancel(t, rid) ==
  /\ active[t] # NoRun
  /\ rid \in {NoRun, active[t]}
  /\ phase[active[t]] \in {"scheduled", "streaming", "snapshot"}
  /\ cancelReq' = [cancelReq EXCEPT ![active[t]] = TRUE]
  /\ UNCHANGED <<phase, active, pending, log, callVars, lastValues, open>>

-----------------------------------------------------------------------------
(* The task: _execute                                                       *)

(* The first step of the task: started and running are published.          *)
Begin(r) ==
  /\ phase[r] = "scheduled"
  /\ ~cancelReq[r]
  /\ Goto(r, "streaming")
  /\ Publish(r, <<Lifecycle(r, "started"), Lifecycle(r, "running")>>)
  /\ UNCHANGED <<active, pending, callVars, taskVars>>

(* A task cancelled before its first step never enters _execute.           *)
CancelUnstarted(r) ==
  /\ phase[r] = "scheduled"
  /\ cancelReq[r]
  /\ Goto(r, "ended")
  /\ UNCHANGED <<active, pending, log, callVars, taskVars>>

(* A message chunk: it opens a message, or its usage finishes the open one. *)
Message(r) ==
  /\ phase[r] = "streaming"
  /\ ~cancelReq[r]
  /\ open' = [open EXCEPT ![r] = ~@]
  /\ UNCHANGED <<phase, active, pending, log, callVars, cancelReq, lastValues>>

(* A values tuple whose state holds the interrupts ids.                    *)
Values(r, ids) ==
  /\ phase[r] = "streaming"
  /\ ~cancelReq[r]
  /\ lastValues' = [lastValues EXCEPT ![r] = ids]
  /\ UNCHANGED <<phase, active, pending, log, callVars, cancelReq, open>>

(* The end of the stream with ids the interrupts found in the last values: *)
(* the run asks for input, or closes its messages and completes.           *)
Settle(r, ids) ==
  /\ Goto(r, "ended")
  /\ \/ /\ ids # {}
        /\ pending' = [pending EXCEPT ![call[r].thread] =
                         [assistant |-> call[r].assistant, ids |-> ids]]
        /\ Publish(r, Request(r, ids))
        /\ UNCHANGED open
     \/ /\ ids = {}
        /\ open' = FinishMessages(r)
        /\ Publish(r, <<Lifecycle(r, "completed")>>)
        /\ UNCHANGED pending
  /\ UNCHANGED <<active, callVars, cancelReq, lastValues>>

(* The stream is exhausted.  Without any values tuple the code reads the   *)
(* checkpointer first.                                                     *)
StreamEnds(r) ==
  /\ phase[r] = "streaming"
  /\ ~cancelReq[r]
  /\ \/ lastValues[r] # NoValues /\ Settle(r, lastValues[r])
     \/ /\ lastValues[r] = NoValues
        /\ Goto(r, "snapshot")
        /\ UNCHANGED <<active, pending, log, callVars, taskVars>>

(* _snapshot_values: no getter, an error or no values gives ids = {}; so   *)
(* does a cancelled read that raises something else.                       *)
SnapshotReturns(r, ids) ==
  /\ phase[r] = "snapshot"
  /\ ~cancelReq[r] \/ ids = {}
  /\ Settle(r, ids)

(* The graph raises (also while it handles a cancellation).                *)
Fail(r) ==
  /\ phase[r] = "streaming"
  /\ Goto(r, "ended")
  /\ open' = FinishMessages(r)
  /\ Publish(r, <<Lifecycle(r, "failed")>>)
  /\ UNCHANGED <<active, pending, callVars, cancelReq, lastValues>>

(* CancelledError comes out of the await the task was suspended at.        *)
Cancelled(r) ==
  /\ cancelReq[r]
  /\ Executing(r)
  /\ Goto(r, "ended")
  /\ open' = FinishMessages(r)
  /\ Publish(r, <<Lifecycle(r, "interrupted")>>)
  /\ UNCHANGED <<active, pending, callVars, cancelReq, lastValues>>

(* _clear, the done-callback: release the slot unless a newer run took it. *)
DoneCallback(r) ==
  /\ phase[r] = "ended"
  /\ Goto(r, "cleared")
  /\ active' = Release(call[r].thread, r)
  /\ UNCHANGED <<pending, log, callVars, taskVars>>

-----------------------------------------------------------------------------
Step(r) ==
  \/ \E t \in Threads, a \in Assistants, c \in Config : Start(r, t, a, c)
  \/ \E t \in Threads, i \in Keys, a \in Assistants \cup {NoAssistant} : Respond(r, t, i, a)
  \/ ResolveOk(r) \/ StartRaises(r) \/ ResolveFail(r) \/ StartCancelled(r)
  \/ Begin(r) \/ CancelUnstarted(r)
  \/ Message(r) \/ (\E ids \in SUBSET Interrupts : Values(r, ids))
  \/ StreamEnds(r) \/ (\E ids \in SUBSET Interrupts : SnapshotReturns(r, ids))
  \/ Fail(r) \/ Cancelled(r) \/ DoneCallback(r)

Next ==
  \/ \E a \in Assistants : Register(a)
  \/ \E t \in Threads, rid \in Runs \cup {NoRun} : Cancel(t, rid)
  \/ \E r \in Runs : Step(r)

Spec == Init /\ [][Next]_vars

(* The loop runs every ready callback and task, and a graph that had       *)
(* CancelledError thrown into it ends.  Nothing is assumed of a graph that *)
(* was not cancelled, nor of callers.                                      *)
LoopFairness ==
  \A r \in Runs :
    WF_vars(Begin(r)) /\ WF_vars(CancelUnstarted(r)) /\ WF_vars(Cancelled(r))
                      /\ WF_vars(DoneCallback(r))

(* Factories return, and graphs and checkpointers come to an end.          *)
GraphFairness ==
  \A r \in Runs :
    /\ WF_vars(ResolveOk(r) \/ StartRaises(r) \/ ResolveFail(r))
    /\ WF_vars(StreamEnds(r) \/ Fail(r))
    /\ WF_vars(\E ids \in SUBSET Interrupts : SnapshotReturns(r, ids))

LoopSpec == Spec /\ LoopFairness

-----------------------------------------------------------------------------
(* Properties                                                               *)

(* Every variable has the shape the code gives it.                         *)
TypeOK ==
  /\ registered \subseteq Assistants
  /\ phase \in [Runs -> Phases]
  /\ call \in [Runs -> Call \cup {NoCall}]
  /\ \A r \in Runs : phase[r] # "unused" => call[r] \in Call
  /\ cancelReq \in [Runs -> BOOLEAN]
  /\ lastValues \in [Runs -> {NoValues} \cup SUBSET Interrupts]
  /\ open \in [Runs -> BOOLEAN]
  /\ active \in [Threads -> Runs \cup {NoRun}]
  /\ pending \in [Threads -> Pending \cup {NoPending}]
  /\ lastAssistant \in [Threads -> Assistants \cup {NoAssistant}]
  /\ log \in [Threads -> Seq(Event)]

(* Exactly one run may be active per thread (runner.py:5): however starts, *)
(* answers, late done-callbacks and failing factories interleave, no two   *)
(* live runs share a thread.                                               *)
SingleFlight ==
  \A r, s \in Runs :
    Live(r) /\ Live(s) /\ call[r].thread = call[s].thread => r = s

(* Run r's start failed where its except clause does not see it: it was    *)
(* cancelled at its await, or raised after it, over its client's metadata. *)
Unseen(r) == phase[r] = "abandoned" /\ (CallerCancels \/ ~call[r].config.merges)

(* What the slot says of its thread: a live run holds its thread's slot,   *)
(* so cancel, wait and the guard of start see it; a start that failed      *)
(* unseen keeps it, whatever comes after; and a slot names a run of its    *)
(* own thread that is one of these, or done and not yet cleared.  In       *)
(* particular a start that was rejected, however late, holds none.         *)
SlotsAndRunsAgree ==
  /\ \A r \in Runs : Live(r) \/ phase[r] = "abandoned" => active[call[r].thread] = r
  /\ \A t \in Threads : active[t] # NoRun =>
       /\ Live(active[t]) \/ Unseen(active[t]) \/ phase[active[t]] = "ended"
       /\ call[active[t]].thread = t

(* The events a run has published, in order.                               *)
EventsOf(r) ==
  IF phase[r] = "unused" THEN <<>>
  ELSE FoldLeft(LAMBDA seen, e : IF e.run = r THEN Append(seen, e.event) ELSE seen,
                <<>>, log[call[r].thread])

(* What a run that is over may have reported after started and running: it *)
(* failed; or it was interrupted, if it was cancelled; or else what its    *)
(* last values say, completed without interrupts and a request with them.  *)
(* Without values the checkpointer was asked, whose answer is either, and  *)
(* nothing when the read was cancelled and raised.                         *)
Endings(cancelled, values) ==
  {<<"failed">>}
  \cup {e \in {<<"interrupted">>} : cancelled}
  \cup {e \in {<<"completed">>} : values = NoValues \/ (values = {} /\ ~cancelled)}
  \cup {e \in {<<"interrupted", "requested">>} : values # {} /\ ~cancelled}

(* A run reports started and running when it executes, and when it is over *)
(* exactly one report more, the one its end calls for; a run that never    *)
(* executed reports nothing, and if it had a task, it was cancelled.       *)
Reports(p, cancelled, values) ==
  CASE p \in {"streaming", "snapshot"} -> {<<"started", "running">>}
    [] p \in {"ended", "cleared"} ->
         {<<"started", "running">> \o e : e \in Endings(cancelled, values)}
         \cup {e \in {<<>>} : cancelled}
    [] OTHER -> {<<>>}
LifecycleTrace ==
  \A r \in Runs : EventsOf(r) \in Reports(phase[r], cancelReq[r], lastValues[r])

(* The events of two runs of one thread never interleave: a subscriber can *)
(* attribute every event to the last run that started.                     *)
NoInterleaving ==
  \A t \in Threads : \A i, k \in DOMAIN log[t] :
    (i < k /\ log[t][i].run = log[t][k].run) => \A j \in i..k : log[t][j].run = log[t][i].run

(* The pending map is the request the thread's last run ended with, and    *)
(* the graph a resume would run is the one the thread last ran: the answer *)
(* goes to the graph that asked.                                           *)
PendingIsLastRequest ==
  \A t \in Threads : pending[t] # NoPending =>
    /\ log[t] # <<>>
    /\ LET e == log[t][Len(log[t])] IN
       e.event = "requested" /\ e.ids = pending[t].ids
         /\ call[e.run].assistant = pending[t].assistant
    /\ lastAssistant[t] = pending[t].assistant

(* Only a start that got its graph consumes pending interrupts: a busy     *)
(* thread, an unknown assistant or a failing factory leaves them intact    *)
(* (runner.py:17).                                                         *)
OnlySuccessfulStartsConsume ==
  [][\A t \in Threads :
       (pending[t] # NoPending /\ pending'[t] # pending[t]) =>
         \E r \in Runs : phase[r] = "resolving" /\ phase'[r] = "scheduled"
                          /\ call[r].thread = t]_vars

(* The interrupt respond found pending is still pending when, after the    *)
(* factory's await, start consumes the map: no interrupt is answered twice *)
(* and none that a newer run replaced.                                     *)
AnswerStillPending ==
  [][\A r \in Runs :
       (phase[r] = "resolving" /\ phase'[r] = "scheduled" /\ call[r].answers \in Interrupts) =>
         /\ pending[call[r].thread] # NoPending
         /\ call[r].answers \in pending[call[r].thread].ids]_vars

(* A message is left open only by a run that asked for input: failed,      *)
(* cancelled and completed runs close the message they were streaming.     *)
EndedRunsCloseMessages ==
  \A r \in Runs : phase[r] \in {"ended", "cleared"} /\ open[r] =>
    \E i \in DOMAIN log[call[r].thread] :
      log[call[r].thread][i].run = r /\ log[call[r].thread][i].event = "requested"

(* A run that was cancelled leaves its thread's slot.                      *)
CancelReleasesSlot ==
  \A r \in Runs : cancelReq[r] ~> (phase[r] = "cleared" /\ active[call[r].thread] # r)

(* A call of start that took the slot is rejected, or its run ends and     *)
(* gives the slot back, if factories, graphs and checkpointers end: with   *)
(* metadata that start can merge, no thread stays busy for ever.           *)
DispatchedRunSettles ==
  GraphFairness =>
    \A r \in Runs : (phase[r] = "resolving" /\ call[r].config.merges) ~>
      (phase[r] \in {"rejected", "cleared"} /\ active[call[r].thread] # r)

-----------------------------------------------------------------------------
(* The threads the manager implements                                       *)

(* A run has its thread while it has a task that is not done.              *)
Tasked(r) == phase[r] \in {"scheduled", "streaming", "snapshot"}
StageOf(p) == IF p = "scheduled" THEN "accepted"
              ELSE IF p \in {"streaming", "snapshot"} THEN "running"
              ELSE IF p \in {"ended", "cleared"} THEN "over" ELSE "new"
runStage == [r \in Runs |-> StageOf(phase[r])]
runAnswers ==
  [r \in Runs |-> IF runStage[r] # "new" /\ call[r].answers \in Interrupts
                  THEN call[r].answers ELSE NoAnswer]
threadHolder ==
  [t \in Threads |-> IF active[t] # NoRun /\ Tasked(active[t]) THEN active[t] ELSE NoRun]

(* However starts, answers, cancellations, ends and late done-callbacks    *)
(* interleave, each thread behaves as one that is taken by an accepted     *)
(* start and given back by the end of its run, each in one step.           *)
Thread == INSTANCE ThreadRuns WITH
  NoQuestion <- NoPending, stage <- runStage, answers <- runAnswers,
  holder <- threadHolder, bound <- lastAssistant, question <- pending, trace <- log
ImplementsThreads == Thread!Spec

-----------------------------------------------------------------------------
(* What the documentation says and the code does not do                     *)

(* "Terminal transitions map to exactly one lifecycle event per run"       *)
(* (runner.py:6): a run that is over has reported a terminal event.        *)
EveryRunReportsTerminal ==
  \A r \in Runs : phase[r] = "cleared" =>
    \E i \in DOMAIN EventsOf(r) : EventsOf(r)[i] \in Terminals

(* "Failed starts release the slot" (runner.py:15): the thread of a start  *)
(* that raised can run again.                                              *)
FailedStartsReleaseSlot ==
  \A r \in Runs : phase[r] \in {"rejected", "abandoned"} => active[call[r].thread] # r

(* "against configurable.thread_id.  Exactly one run may be active per     *)
(* thread; a second concurrent start is a typed protocol error"            *)
(* (runner.py:5): no two graphs run on one thread's checkpoints at a time. *)
OneGraphPerThread ==
  \A r, s \in Runs : Executing(r) /\ Executing(s) /\ Target(r) = Target(s) => r = s
=============================================================================
