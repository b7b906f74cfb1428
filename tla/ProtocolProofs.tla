--------------------------- MODULE ProtocolProofs ---------------------------
(***************************************************************************)
(* Proofs about Protocol, for any threads, assistants, interrupts, runs,   *)
(* requests and restarts.                                                  *)
(*                                                                         *)
(* Between two restarts every step is a step of the run manager, so what   *)
(* is proved of the manager holds in every life of the process; the store  *)
(* and the saver are then related to it by which steps may write to them.  *)
(***************************************************************************)
EXTENDS Protocol, RunManagerLogProofs

USE DEF Live, Executing, Keys, Goto, callVars, taskVars

ManagerInv == SlotInv /\ PendingInv

SideType ==
  /\ Store!Typed
  /\ saved \in [Threads -> Checkpoint \cup {NoCheckpoint}]
  /\ request \in [Requests -> Request_ \cup {Idle}]
  /\ answer \in [Runs -> Interrupts \cup {NoAnswer}]
  /\ acked \in [Threads -> Assistants \cup {NoAssistant}]
  /\ restarts \in 0..MaxRestarts

(* A handler that found its interrupt found an assistant bound, and rows   *)
(* lose their assistant only in a restart, which ends the handler.         *)
RequestsBound ==
  \A q \in Requests : request[q] # Idle => rows[request[q].thread] \in Assistants

(* The assistant of a run that has a task, or that answers an interrupt    *)
(* and awaits its factory, is the one whose binding was acknowledged.      *)
Bound(r) == Tasked(r) \/ (phase[r] = "resolving" /\ answer[r] # NoAnswer)
TasksBound ==
  \A r \in Runs : Bound(r) =>
    acked[call[r].thread] \in {NoAssistant, call[r].assistant}

ProtocolInv ==
  /\ ManagerInv /\ SideType /\ RequestsBound
  /\ AcknowledgedBindingIsDurable /\ TasksBound /\ PendingMatchesSaver

LEMMA ProtocolInitial == ProtocolInit => ProtocolInv
<1> SUFFICES ASSUME ProtocolInit PROVE ProtocolInv
  OBVIOUS
<1>1. ManagerInv
  BY SlotInit, PendingInit DEF ProtocolInit, ManagerInv
<1>2. SideType
  BY NullAssumption, ProtocolAssumption
  DEF ProtocolInit, SideType, Store!Typed, Store!Row, Store!Open, Store!Empty
<1>3. RequestsBound /\ AcknowledgedBindingIsDurable
  BY DEF ProtocolInit, RequestsBound, AcknowledgedBindingIsDurable
<1>4. TasksBound /\ PendingMatchesSaver
  BY DEF ProtocolInit, Init, TasksBound, Bound, Tasked, PendingMatchesSaver
<1> QED
  BY <1>1, <1>2, <1>3, <1>4 DEF ProtocolInv

-----------------------------------------------------------------------------
(* The manager                                                              *)

(* A step of the composition is one of the manager, or a restart, which    *)
(* leaves the manager as it is at first.                                   *)
LEMMA ManagerOrRestart ==
  ASSUME SideType, RequestsBound, [ProtocolNext]_protocolVars
  PROVE  [Next]_vars \/ (Restart /\ NewManager)
<1>1. ASSUME NEW t \in Threads, CreateThread(t) PROVE [Next]_vars
  BY <1>1 DEF CreateThread, managerVars, vars
<1>2. ASSUME NEW r \in Runs, NEW t \in Threads, NEW a \in Assistants, NEW c \in Config,
             RunStart(r, t, a, c)
      PROVE [Next]_vars
  BY <1>2 DEF RunStart, Next, Step
<1>3. ASSUME NEW q \in Requests, NEW t \in Threads, NEW i \in Interrupts, FindInterrupt(q, t, i)
      PROVE [Next]_vars
  BY <1>3 DEF FindInterrupt, managerVars, vars
<1>4. ASSUME NEW q \in Requests, NEW r \in Runs, Resume(q, r) PROVE [Next]_vars
  <2>1. /\ request[q].thread \in Threads /\ request[q].id \in Keys
        /\ rows[request[q].thread] \in Assistants
    BY <1>4 DEF Resume, SideType, RequestsBound, Request_
  <2>2. Respond(r, request[q].thread, request[q].id, rows[request[q].thread])
    BY <1>4 DEF Resume
  <2> QED
    BY <2>1, <2>2 DEF Next, Step
<1>5. ASSUME NEW q \in Requests, ResumeRefused(q) PROVE [Next]_vars
  BY <1>5 DEF ResumeRefused, managerVars, vars
<1>6. ASSUME NEW r \in Runs, RunStarted(r) \/ RunStartRaises(r) \/ Resumed(r) PROVE [Next]_vars
  BY <1>6 DEF RunStarted, RunStartRaises, Resumed, Next, Step
<1>7. ASSUME NEW r \in Runs, GraphEnds(r) PROVE [Next]_vars
  BY <1>7 DEF GraphEnds, Next, Step
<1>8. ASSUME NEW r \in Runs, NEW ids \in SUBSET Interrupts,
             GraphValues(r, ids) \/ GraphSnapshot(r, ids)
      PROVE [Next]_vars
  BY <1>8 DEF GraphValues, GraphSnapshot, Next, Step
<1>9. ASSUME NEW t \in Threads, NEW rid \in Runs \cup {NoRun}, RunCancel(t, rid)
      PROVE [Next]_vars
  BY <1>9 DEF RunCancel, Next
<1>10. CASE ManagerStep
  BY <1>10 DEF ManagerStep, Next, Step
<1>11. CASE Restart
  BY <1>11 DEF Restart
<1>12. CASE UNCHANGED protocolVars
  BY <1>12 DEF protocolVars, managerVars, vars
<1> QED
  BY <1>1, <1>2, <1>3, <1>4, <1>5, <1>6, <1>7, <1>8, <1>9, <1>10, <1>11, <1>12
  DEF ProtocolNext

LEMMA NewManagerInv == NewManager => ManagerInv'
<1> SUFFICES ASSUME NewManager PROVE ManagerInv'
  OBVIOUS
<1>1. TypeOK'
  BY NullAssumption DEF NewManager, TypeOK, Phases, Call, Pending, Event
<1>2. SlotsAndRunsAgree' /\ PendingInv'
  BY DEF NewManager, SlotsAndRunsAgree, PendingInv, Tasked
<1> QED
  BY <1>1, <1>2 DEF ManagerInv, SlotInv

LEMMA ManagerInvStep ==
  ASSUME ManagerInv, SideType, RequestsBound, [ProtocolNext]_protocolVars
  PROVE  ManagerInv'
  BY ManagerOrRestart, SlotStep, PendingStep, NewManagerInv DEF ManagerInv

-----------------------------------------------------------------------------
(* Types of the store, the saver and the handlers                           *)

LEMMA CallTyped ==
  ASSUME ManagerInv, NEW r \in Runs, phase[r] # "unused"
  PROVE  /\ call[r].thread \in Threads /\ call[r].assistant \in Assistants
         /\ Target(r) \in Threads
  BY DEF ManagerInv, SlotInv, TypeOK, Call, Config, Target

LEMMA SaveTyped ==
  ASSUME ManagerInv, SideType, NEW r \in Runs, phase[r] # "unused",
         NEW ids \in SUBSET Interrupts, Save(r, ids)
  PROVE  saved' \in [Threads -> Checkpoint \cup {NoCheckpoint}]
<1>1. [by |-> call[r].assistant, ids |-> ids] \in Checkpoint
  BY CallTyped DEF Checkpoint
<1> QED
  BY <1>1 DEF SideType, Save

LEMMA SideTypeStep ==
  ASSUME ManagerInv, SideType, [ProtocolNext]_protocolVars
  PROVE  SideType'
<1> USE DEF SideType, Store!Typed, Store!Row
<1>1. ASSUME NEW t \in Threads, CreateThread(t) PROVE SideType'
  BY <1>1 DEF CreateThread, Store!Create, Store!Commit
<1>2. ASSUME NEW r \in Runs, NEW t \in Threads, NEW a \in Assistants, NEW c \in Config,
             RunStart(r, t, a, c)
      PROVE SideType'
  BY <1>2 DEF RunStart, storeVars
<1>3. ASSUME NEW q \in Requests, NEW t \in Threads, NEW i \in Interrupts, FindInterrupt(q, t, i)
      PROVE SideType'
  BY <1>3 DEF FindInterrupt, storeVars, Request_
<1>4. ASSUME NEW q \in Requests, NEW r \in Runs, Resume(q, r) PROVE SideType'
  BY <1>4 DEF Resume, storeVars, Request_
<1>5. ASSUME NEW q \in Requests, ResumeRefused(q) PROVE SideType'
  BY <1>5 DEF ResumeRefused, storeVars
<1>6. ASSUME NEW r \in Runs, RunStarted(r) PROVE SideType'
  <2>1. call[r].thread \in Threads /\ call[r].assistant \in Assistants
    BY <1>6, CallTyped DEF RunStarted, ResolveOk
  <2> QED
    BY <1>6, <2>1
    DEF RunStarted, Store!SetAssistant, Store!SetAssistantRaises, Store!Commit
<1>7. ASSUME NEW r \in Runs, RunStartRaises(r) \/ Resumed(r) PROVE SideType'
  BY <1>7 DEF RunStartRaises, Resumed, storeVars
<1>8. ASSUME NEW r \in Runs, GraphEnds(r) PROVE SideType'
  <2>1. phase[r] # "unused" /\ (lastValues[r] # NoValues => lastValues[r] \in SUBSET Interrupts)
    BY <1>8 DEF GraphEnds, StreamEnds, ManagerInv, SlotInv, TypeOK
  <2> QED
    BY <1>8, <2>1, SaveTyped DEF GraphEnds, storeVars
<1>9. ASSUME NEW r \in Runs, NEW ids \in SUBSET Interrupts, GraphValues(r, ids)
      PROVE SideType'
  BY <1>9, SaveTyped DEF GraphValues, Values, storeVars
<1>10. ASSUME NEW r \in Runs, NEW ids \in SUBSET Interrupts, GraphSnapshot(r, ids)
       PROVE SideType'
  BY <1>10 DEF GraphSnapshot, storeVars
<1>11. ASSUME NEW t \in Threads, NEW rid \in Runs \cup {NoRun}, RunCancel(t, rid)
       PROVE SideType'
  BY <1>11 DEF RunCancel, storeVars
<1>12. CASE ManagerStep
  BY <1>12 DEF ManagerStep, storeVars
<1>13. CASE Restart
  BY <1>13, ProtocolAssumption DEF Restart, Store!Reopen, Store!Empty
<1>14. CASE UNCHANGED protocolVars
  BY <1>14 DEF protocolVars, storeVars
<1> QED
  BY <1>1, <1>2, <1>3, <1>4, <1>5, <1>6, <1>7, <1>8, <1>9, <1>10, <1>11, <1>12, <1>13, <1>14
  DEF ProtocolNext

-----------------------------------------------------------------------------
(* The thread's assistant                                                   *)

(* What the steps other than a restart do to the rows: they are left       *)
(* alone, a row is created, or a run's assistant is bound.                 *)
LEMMA RowWriters ==
  ASSUME [ProtocolNext]_protocolVars
  PROVE  \/ UNCHANGED <<rows, disk, acked>>
         \/ \E t \in Threads : CreateThread(t)
         \/ \E r \in Runs : RunStarted(r)
         \/ Restart
  BY DEF ProtocolNext, protocolVars, storeVars, RunStart, FindInterrupt, Resume, ResumeRefused,
         RunStartRaises, Resumed, GraphEnds, GraphValues, GraphSnapshot, RunCancel, ManagerStep

LEMMA RequestsBoundStep ==
  ASSUME ManagerInv, SideType, RequestsBound, [ProtocolNext]_protocolVars
  PROVE  RequestsBound'
<1>1. ASSUME NEW q \in Requests, request'[q] # Idle
      PROVE  \/ request[q] # Idle /\ request'[q] = request[q] /\ ~Restart
             \/ ~Restart /\ UNCHANGED rows /\ request'[q].thread \in Threads
                  /\ rows[request'[q].thread] \in Assistants
  <2>1. CASE Restart
    BY <1>1, <2>1 DEF Restart
  <2>2. ASSUME NEW p \in Requests, NEW t \in Threads, NEW i \in Interrupts,
               FindInterrupt(p, t, i), ~Restart
        PROVE  \/ request[q] # Idle /\ request'[q] = request[q] /\ ~Restart
               \/ ~Restart /\ UNCHANGED rows /\ request'[q].thread \in Threads
                    /\ rows[request'[q].thread] \in Assistants
    <3>1. rows[t] \in Assistants /\ UNCHANGED rows
      BY <2>2 DEF FindInterrupt, HasStateGraph, storeVars, ManagerInv, SlotInv, TypeOK
    <3>2. request' = [request EXCEPT ![p] = [thread |-> t, id |-> i]]
      BY <2>2 DEF FindInterrupt
    <3> QED
      BY <1>1, <2>2, <3>1, <3>2 DEF SideType
  <2>3. ASSUME ~Restart, ~\E p \in Requests, t \in Threads, i \in Interrupts : FindInterrupt(p, t, i)
        PROVE  request[q] # Idle /\ request'[q] = request[q]
    <3>1. \/ UNCHANGED request
          \/ \E p \in Requests : request' = [request EXCEPT ![p] = Idle]
      BY <2>3 DEF ProtocolNext, protocolVars, CreateThread, RunStart, RunStarted, Resume,
                  ResumeRefused, RunStartRaises, Resumed, GraphEnds, GraphValues, GraphSnapshot, RunCancel,
                  ManagerStep
    <3> QED
      BY <1>1, <3>1 DEF SideType
  <2> QED
    BY <2>1, <2>2, <2>3
<1>2. ASSUME NEW t \in Threads, rows[t] \in Assistants, ~Restart PROVE rows'[t] \in Assistants
  <2>1. CASE UNCHANGED <<rows, disk, acked>>
    BY <1>2, <2>1
  <2>2. ASSUME NEW u \in Threads, CreateThread(u) PROVE rows'[t] \in Assistants
    BY <1>2, <2>2, ProtocolAssumption
    DEF CreateThread, Store!Create, Store!Exists, SideType, Store!Typed
  <2>3. ASSUME NEW r \in Runs, RunStarted(r) PROVE rows'[t] \in Assistants
    <3>1. call[r].assistant \in Assistants
      BY <2>3, CallTyped DEF RunStarted, ResolveOk
    <3> QED
      BY <1>2, <2>3, <3>1
      DEF RunStarted, Store!SetAssistant, Store!SetAssistantRaises, SideType, Store!Typed
  <2> QED
    BY <1>2, <2>1, <2>2, <2>3, RowWriters
<1>3. \A q \in Requests : request[q] # Idle => request[q].thread \in Threads
  BY DEF SideType, Request_
<1> QED
  BY <1>1, <1>2, <1>3 DEF RequestsBound

LEMMA DurableStep ==
  ASSUME ManagerInv, SideType, AcknowledgedBindingIsDurable, [ProtocolNext]_protocolVars
  PROVE  AcknowledgedBindingIsDurable'
<1>1. CASE UNCHANGED <<rows, disk, acked>>
  BY <1>1 DEF AcknowledgedBindingIsDurable
<1>2. ASSUME NEW u \in Threads, CreateThread(u) PROVE AcknowledgedBindingIsDurable'
  <2>1. rows' = [rows EXCEPT ![u] = NoAssistant] /\ disk' = rows' /\ UNCHANGED acked
    BY <1>2 DEF CreateThread, Store!Create, Store!Commit
  <2>2. acked[u] = NoAssistant
    <3>1. rows[u] = NoThread
      BY <1>2 DEF CreateThread, Store!Create, Store!Exists
    <3> QED
      BY <3>1, ProtocolAssumption DEF AcknowledgedBindingIsDurable, SideType
  <2> QED
    BY <2>1, <2>2 DEF AcknowledgedBindingIsDurable, SideType, Store!Typed
<1>3. ASSUME NEW r \in Runs, RunStarted(r) PROVE AcknowledgedBindingIsDurable'
  <2> DEFINE t == call[r].thread
             a == call[r].assistant
  <2>1. t \in Threads /\ a \in Assistants
    BY <1>3, CallTyped DEF RunStarted, ResolveOk
  <2>2. CASE Store!SetAssistant(t, a) /\ acked' = [acked EXCEPT ![t] = a]
    BY <2>1, <2>2
    DEF Store!SetAssistant, Store!Commit, AcknowledgedBindingIsDurable, SideType, Store!Typed
  <2>3. CASE Store!SetAssistantRaises(t, a) /\ acked' = [acked EXCEPT ![t] = NoAssistant]
    BY <2>1, <2>3
    DEF Store!SetAssistantRaises, AcknowledgedBindingIsDurable, SideType, Store!Typed
  <2> QED
    BY <1>3, <2>2, <2>3 DEF RunStarted
<1>4. CASE Restart
  BY <1>4 DEF Restart, Store!Reopen, AcknowledgedBindingIsDurable
<1> QED
  BY <1>1, <1>2, <1>3, <1>4, RowWriters

(* No two live runs are on one thread.                                     *)
LEMMA OneLiveRun ==
  ASSUME ManagerInv, NEW r \in Runs, NEW s \in Runs, Live(r), Live(s), r # s
  PROVE  call[r].thread # call[s].thread
  BY DEF ManagerInv, SlotInv, SlotsAndRunsAgree

LEMMA TasksBoundStep ==
  ASSUME ManagerInv, SideType, RequestsBound, AcknowledgedBindingIsDurable, TasksBound,
         [ProtocolNext]_protocolVars
  PROVE  TasksBound'
<1> USE DEF Bound, Tasked
<1>0. phase \in [Runs -> Phases] /\ call \in [Runs -> Call \cup {NoCall}]
  BY DEF ManagerInv, SlotInv, TypeOK
<1>1. ASSUME NEW t \in Threads, CreateThread(t) PROVE TasksBound'
  BY <1>1 DEF CreateThread, managerVars, TasksBound
<1>2. ASSUME NEW r \in Runs, NEW t \in Threads, NEW a \in Assistants, NEW c \in Config,
             RunStart(r, t, a, c)
      PROVE TasksBound'
  <2>1. /\ ~Bound(r)'
        /\ \A s \in Runs : s # r =>
             phase'[s] = phase[s] /\ call'[s] = call[s] /\ answer'[s] = answer[s]
    BY <1>0, <1>2 DEF RunStart, Start, Dispatch, SideType
  <2> QED
    BY <1>2, <2>1 DEF RunStart, TasksBound
<1>3. ASSUME NEW q \in Requests, NEW t \in Threads, NEW i \in Interrupts, FindInterrupt(q, t, i)
      PROVE TasksBound'
  BY <1>3 DEF FindInterrupt, managerVars, TasksBound
<1>4. ASSUME NEW q \in Requests, NEW r \in Runs, Resume(q, r) PROVE TasksBound'
  <2> DEFINE t == request[q].thread
  <2>1. t \in Threads /\ rows[t] \in Assistants /\ rows[t] # NoAssistant
    BY <1>4, NullAssumption DEF Resume, SideType, RequestsBound, Request_
  <2>2. acked[t] \in {NoAssistant, rows[t]}
    BY <2>1 DEF AcknowledgedBindingIsDurable
  <2> HIDE DEF t
  <2>3. PICK i : Dispatch(r, t, rows[t], i, NoConfig(t))
    BY <1>4, <2>1 DEF Resume, Respond, t
  <2>4. /\ call'[r].thread = t /\ call'[r].assistant = rows[t]
        /\ \A s \in Runs : s # r => phase'[s] = phase[s] /\ call'[s] = call[s]
    BY <1>0, <2>3 DEF Dispatch
  <2>5. /\ UNCHANGED acked
        /\ \A s \in Runs : s # r => answer'[s] = answer[s]
    BY <1>4 DEF Resume, SideType
  <2>6. acked'[call'[r].thread] \in {NoAssistant, call'[r].assistant}
    BY <2>2, <2>4, <2>5
  <2>7. ASSUME NEW s \in Runs, s # r, Bound(s)'
        PROVE  acked'[call'[s].thread] \in {NoAssistant, call'[s].assistant}
    <3>1. Bound(s) /\ call'[s] = call[s]
      BY <2>4, <2>5, <2>7
    <3> QED
      BY <2>5, <3>1 DEF TasksBound
  <2> QED
    BY <2>6, <2>7 DEF TasksBound
<1>5. ASSUME NEW q \in Requests, ResumeRefused(q) PROVE TasksBound'
  BY <1>5 DEF ResumeRefused, managerVars, TasksBound
<1>6. ASSUME NEW r \in Runs, RunStarted(r) PROVE TasksBound'
  <2> DEFINE t == call[r].thread
  <2>1. t \in Threads /\ Live(r)
    BY <1>6, CallTyped DEF RunStarted, ResolveOk
  <2>2. UNCHANGED <<call, answer>> /\ \A s \in Runs : s # r => phase'[s] = phase[s]
    BY <1>0, <1>6 DEF RunStarted, ResolveOk
  <2>3. acked'[t] \in {NoAssistant, call[r].assistant}
    BY <1>6, <2>1 DEF RunStarted, SideType
  <2>4. ASSUME NEW s \in Runs, Bound(s)', s # r
        PROVE  acked'[call[s].thread] \in {NoAssistant, call[s].assistant}
    <3>1. Bound(s)
      BY <2>2, <2>4
    <3>2. call[s].thread # t
      BY <2>1, <2>4, <3>1, OneLiveRun
    <3>3. acked'[call[s].thread] = acked[call[s].thread]
      <4>1. call[s].thread \in Threads
        BY <3>1, CallTyped
      <4> QED
        BY <1>6, <3>2, <4>1 DEF RunStarted, SideType
    <3> QED
      BY <3>1, <3>3 DEF TasksBound
  <2> QED
    BY <2>2, <2>3, <2>4 DEF TasksBound
<1>7. ASSUME NEW r \in Runs, Resumed(r) PROVE TasksBound'
  <2>1. Bound(r) /\ UNCHANGED <<call, answer, acked>>
    BY <1>7 DEF Resumed, ResolveOk
  <2>2. \A s \in Runs : s # r => phase'[s] = phase[s]
    BY <1>0, <1>7 DEF Resumed, ResolveOk
  <2> QED
    BY <2>1, <2>2 DEF TasksBound
<1>8. ASSUME NEW r \in Runs, NEW p \in Phases, Goto(r, p), UNCHANGED <<call, answer, acked>>,
             p \in {"rejected", "abandoned", "ended", "cleared"} \/ Tasked(r)
      PROVE TasksBound'
  BY <1>0, <1>8 DEF TasksBound
<1>9. ASSUME NEW r \in Runs, GraphEnds(r) PROVE TasksBound'
  <2>1. Tasked(r) /\ (Goto(r, "snapshot") \/ Goto(r, "ended")) /\ UNCHANGED <<call, answer, acked>>
    BY <1>9 DEF GraphEnds, StreamEnds, Settle
  <2> QED
    BY <1>8, <2>1 DEF Phases
<1>10. ASSUME NEW r \in Runs, NEW ids \in SUBSET Interrupts, GraphSnapshot(r, ids)
       PROVE TasksBound'
  <2>1. Goto(r, "ended") /\ UNCHANGED <<call, answer, acked>>
    BY <1>10 DEF GraphSnapshot, SnapshotReturns, Settle
  <2> QED
    BY <1>8, <2>1 DEF Phases
<1>11. ASSUME UNCHANGED <<phase, call, answer, acked>> PROVE TasksBound'
  BY <1>11 DEF TasksBound
<1>12. ASSUME NEW r \in Runs, NEW ids \in SUBSET Interrupts, GraphValues(r, ids)
       PROVE TasksBound'
  BY <1>11, <1>12 DEF GraphValues, Values
<1>13. ASSUME NEW t \in Threads, NEW rid \in Runs \cup {NoRun}, RunCancel(t, rid)
       PROVE TasksBound'
  BY <1>11, <1>13 DEF RunCancel, Cancel
<1>14. CASE ManagerStep
  <2>1. UNCHANGED <<answer, acked>>
    BY <1>14 DEF ManagerStep
  <2>2. ASSUME NEW a \in Assistants, Register(a) PROVE TasksBound'
    BY <1>11, <2>1, <2>2 DEF Register
  <2>3. ASSUME NEW r \in Runs, ResolveFail(r) PROVE TasksBound'
    BY <1>8, <2>1, <2>3 DEF ResolveFail, Phases
  <2>4. ASSUME NEW r \in Runs, Begin(r) PROVE TasksBound'
    BY <1>8, <2>1, <2>4 DEF Begin, Phases
  <2>5. ASSUME NEW r \in Runs, CancelUnstarted(r) PROVE TasksBound'
    BY <1>8, <2>1, <2>5 DEF CancelUnstarted, Phases
  <2>6. ASSUME NEW r \in Runs, Message(r) PROVE TasksBound'
    BY <1>11, <2>1, <2>6 DEF Message
  <2>7. ASSUME NEW r \in Runs, Fail(r) \/ Cancelled(r) PROVE TasksBound'
    BY <1>8, <2>1, <2>7 DEF Fail, Cancelled, Phases
  <2>8. ASSUME NEW r \in Runs, DoneCallback(r) PROVE TasksBound'
    BY <1>8, <2>1, <2>8 DEF DoneCallback, Phases
  <2> QED
    BY <1>14, <2>2, <2>3, <2>4, <2>5, <2>6, <2>7, <2>8 DEF ManagerStep
<1>15. CASE Restart
  BY <1>15 DEF Restart, NewManager, TasksBound
<1>16. CASE UNCHANGED protocolVars
  BY <1>11, <1>16 DEF protocolVars, managerVars
<1>17. ASSUME NEW r \in Runs, RunStartRaises(r) PROVE TasksBound'
  BY <1>8, <1>17 DEF RunStartRaises, StartRaises, Phases
<1> QED
  BY <1>1, <1>2, <1>3, <1>4, <1>5, <1>6, <1>7, <1>9, <1>10, <1>12, <1>13, <1>14, <1>15, <1>16,
     <1>17
  DEF ProtocolNext

-----------------------------------------------------------------------------
(* The map and the saver                                                    *)

(* Whoever writes to the saver has a task, whose thread has no map.        *)
LEMMA WritersFindNoMap ==
  ASSUME ManagerInv, NEW r \in Runs, Tasked(r)
  PROVE  call[r].thread \in Threads /\ pending[call[r].thread] = NoPending
  BY CallTyped DEF Tasked, ManagerInv, PendingInv

(* A call of start, once made, stays as it is until a restart.             *)
LEMMA CallsKept ==
  ASSUME ManagerInv, [Next]_vars, NEW s \in Runs, phase[s] # "unused"
  PROVE  phase'[s] # "unused" /\ call'[s] = call[s]
<1>0. phase \in [Runs -> Phases] /\ call \in [Runs -> Call \cup {NoCall}]
  BY DEF ManagerInv, SlotInv, TypeOK
<1>1. CASE UNCHANGED <<phase, call>>
  BY <1>1
<1>2. ASSUME NEW r \in Runs, NEW p, p # "unused", Goto(r, p), UNCHANGED call
      PROVE  phase'[s] # "unused" /\ call'[s] = call[s]
  BY <1>0, <1>2
<1>3. ASSUME NEW r \in Runs, NEW t, NEW a, NEW i, NEW c, Dispatch(r, t, a, i, c)
      PROVE  phase'[s] # "unused" /\ call'[s] = call[s]
  BY <1>0, <1>3 DEF Dispatch
<1>4. ASSUME NEW r \in Runs, NEW ids, Settle(r, ids)
      PROVE  phase'[s] # "unused" /\ call'[s] = call[s]
  BY <1>2, <1>4 DEF Settle
<1>5. ASSUME NEW r \in Runs, Step(r) PROVE phase'[s] # "unused" /\ call'[s] = call[s]
  <2>1. CASE \/ \E t \in Threads, a \in Assistants, c \in Config : Start(r, t, a, c)
             \/ \E t \in Threads, i \in Keys, a \in Assistants \cup {NoAssistant} :
                  Respond(r, t, i, a)
    BY <1>3, <2>1 DEF Start, Respond
  <2>2. CASE \/ ResolveOk(r) \/ StartRaises(r) \/ ResolveFail(r) \/ StartCancelled(r)
             \/ Begin(r) \/ CancelUnstarted(r) \/ Fail(r) \/ Cancelled(r) \/ DoneCallback(r)
    BY <1>2, <2>2 DEF ResolveOk, StartRaises, ResolveFail, StartCancelled, Begin,
                      CancelUnstarted, Fail, Cancelled, DoneCallback
  <2>3. CASE Message(r) \/ \E ids \in SUBSET Interrupts : Values(r, ids)
    BY <1>1, <2>3 DEF Message, Values
  <2>4. CASE StreamEnds(r) \/ \E ids \in SUBSET Interrupts : SnapshotReturns(r, ids)
    BY <1>2, <1>4, <2>4 DEF StreamEnds, SnapshotReturns
  <2> QED
    BY <1>5, <2>1, <2>2, <2>3, <2>4 DEF Step
<1> QED
  BY <1>1, <1>5 DEF Next, Register, Cancel, vars

(* Until a restart a thread can only lose its privacy.                     *)
LEMMA PrivateBefore ==
  ASSUME ManagerInv, [Next]_vars, NEW t, Private(t)'
  PROVE  Private(t)
  BY CallsKept DEF Private, Target

LEMMA PendingMatchesStep ==
  ASSUME ManagerInv, SideType, RequestsBound, PendingMatchesSaver,
         [ProtocolNext]_protocolVars
  PROVE  PendingMatchesSaver'
<1> SUFFICES ASSUME ~(Restart /\ NewManager) PROVE PendingMatchesSaver'
  BY DEF NewManager, PendingMatchesSaver
<1>a. \A t \in Threads : Private(t)' => Private(t)
  BY ManagerOrRestart, PrivateBefore
<1>0. /\ pending \in [Threads -> Pending \cup {NoPending}]
      /\ saved \in [Threads -> Checkpoint \cup {NoCheckpoint}]
  BY DEF ManagerInv, SlotInv, TypeOK, SideType
<1>1. ASSUME UNCHANGED <<pending, saved>> PROVE PendingMatchesSaver'
  BY <1>a, <1>1 DEF PendingMatchesSaver
<1>2. ASSUME NEW r \in Runs, UNCHANGED saved, pending' = [pending EXCEPT ![call[r].thread] = NoPending]
      PROVE PendingMatchesSaver'
  BY <1>a, <1>0, <1>2 DEF PendingMatchesSaver
<1>b. ASSUME NEW r \in Runs, Tasked(r), NEW t \in Threads, Private(t)
      PROVE  Target(r) = t <=> call[r].thread = t
  BY <1>b DEF Private, Tasked
<1>3. ASSUME NEW r \in Runs, NEW ids \in SUBSET Interrupts, GraphValues(r, ids)
      PROVE PendingMatchesSaver'
  <2>1. Tasked(r) /\ UNCHANGED pending /\ (Save(r, ids) \/ UNCHANGED saved)
    BY <1>3 DEF GraphValues, Values, Tasked
  <2>2. call[r].thread \in Threads /\ pending[call[r].thread] = NoPending
    BY <2>1, WritersFindNoMap
  <2>3. ASSUME NEW t \in Threads, pending[t] # NoPending, Private(t)
        PROVE  saved'[t] = saved[t]
    <3>1. Target(r) # t
      BY <1>b, <2>1, <2>2, <2>3
    <3> QED
      BY <1>0, <2>1, <3>1 DEF Save
  <2> QED
    BY <1>a, <2>1, <2>3 DEF PendingMatchesSaver
<1>4. ASSUME NEW r \in Runs, NEW ids \in SUBSET Interrupts, Executing(r), Settle(r, ids),
             \/ Save(r, ids)
             \/ UNCHANGED saved /\ (ids # {} /\ Private(Target(r)) =>
                  saved[Target(r)] = [by |-> call[r].assistant, ids |-> ids])
      PROVE PendingMatchesSaver'
  <2> SUFFICES ASSUME NEW t \in Threads, pending'[t] # NoPending, Private(t)
               PROVE  saved'[t] = [by |-> pending'[t].assistant, ids |-> pending'[t].ids]
    BY <1>a DEF PendingMatchesSaver
  <2>1. Target(r) = t <=> call[r].thread = t
    BY <1>4, <1>b DEF Tasked
  <2>2. CASE call[r].thread # t
    <3>1. pending'[t] = pending[t]
      BY <1>0, <1>4, <2>2 DEF Settle
    <3>2. saved'[t] = saved[t]
      BY <1>0, <1>4, <2>1, <2>2 DEF Save
    <3> QED
      BY <3>1, <3>2 DEF PendingMatchesSaver
  <2>3. CASE call[r].thread = t
    <3>1. pending[t] = NoPending
      BY <1>4, <2>3, WritersFindNoMap DEF Tasked
    <3>2. ids # {} /\ pending'[t] = [assistant |-> call[r].assistant, ids |-> ids]
      BY <1>0, <1>4, <2>3, <3>1 DEF Settle
    <3>3. saved'[t] = [by |-> call[r].assistant, ids |-> ids]
      BY <1>0, <1>4, <2>1, <2>3, <3>2 DEF Save
    <3> QED
      BY <3>2, <3>3
  <2> QED
    BY <2>2, <2>3
<1>5. ASSUME NEW r \in Runs, GraphEnds(r) PROVE PendingMatchesSaver'
  <2>1. lastValues[r] \in {NoValues} \cup SUBSET Interrupts /\ Executing(r)
    BY <1>5 DEF GraphEnds, StreamEnds, ManagerInv, SlotInv, TypeOK
  <2>2. CASE lastValues[r] = NoValues
    BY <1>1, <1>5, <2>2 DEF GraphEnds, StreamEnds
  <2>3. CASE lastValues[r] # NoValues
    BY <1>4, <1>5, <2>1, <2>3 DEF GraphEnds, StreamEnds
  <2> QED
    BY <2>2, <2>3
<1>6. ASSUME NEW r \in Runs, NEW ids \in SUBSET Interrupts, GraphSnapshot(r, ids)
      PROVE PendingMatchesSaver'
  BY <1>4, <1>6 DEF GraphSnapshot, SnapshotReturns
<1>7. ASSUME NEW r \in Runs, RunStarted(r) \/ Resumed(r) PROVE PendingMatchesSaver'
  BY <1>2, <1>7 DEF RunStarted, Resumed, ResolveOk, Consume
<1>8. CASE Restart
  BY <1>8 DEF Restart
<1>9. CASE ManagerStep
  BY <1>1, <1>9 DEF ManagerStep, Register, ResolveFail, Begin, CancelUnstarted, Message, Fail,
                    Cancelled, DoneCallback
<1>10. ASSUME NEW q \in Requests, NEW r \in Runs, Resume(q, r) PROVE PendingMatchesSaver'
  BY <1>1, <1>10 DEF Resume, Respond, Dispatch
<1>11. ASSUME NEW r \in Runs, NEW t \in Threads, NEW a \in Assistants, NEW c \in Config,
              RunStart(r, t, a, c)
       PROVE PendingMatchesSaver'
  BY <1>1, <1>11 DEF RunStart, Start, Dispatch
<1>12. CASE \/ \E t \in Threads : CreateThread(t)
            \/ \E r \in Runs : RunStartRaises(r)
            \/ \E q \in Requests, t \in Threads, i \in Interrupts : FindInterrupt(q, t, i)
            \/ \E q \in Requests : ResumeRefused(q)
            \/ \E t \in Threads, rid \in Runs \cup {NoRun} : RunCancel(t, rid)
            \/ UNCHANGED protocolVars
  BY <1>1, <1>12 DEF CreateThread, RunStartRaises, StartRaises, FindInterrupt, ResumeRefused,
                     RunCancel, Cancel, protocolVars, managerVars
<1> QED
  BY <1>3, <1>5, <1>6, <1>7, <1>8, <1>9, <1>10, <1>11, <1>12 DEF ProtocolNext

-----------------------------------------------------------------------------
(* Theorems                                                                 *)

LEMMA ProtocolInvStep == ProtocolInv /\ [ProtocolNext]_protocolVars => ProtocolInv'
  BY ManagerInvStep, SideTypeStep, RequestsBoundStep, DurableStep, TasksBoundStep,
     PendingMatchesStep
  DEF ProtocolInv

LEMMA ProtocolAlways == ProtocolSpec => []ProtocolInv
  BY ProtocolInitial, ProtocolInvStep, PTL DEF ProtocolSpec

(* The handlers, the store, the saver and the manager keep their types in  *)
(* every interleaving of handlers and runs, and through every restart.     *)
THEOREM ProtocolTyping == ProtocolSpec => []ProtocolTypeOK
<1>1. ProtocolInv => ProtocolTypeOK
  BY DEF ProtocolInv, ManagerInv, SlotInv, SideType, ProtocolTypeOK
<1> QED
  BY <1>1, ProtocolAlways, PTL

(* At most one run is live on a thread in every life of the process: the   *)
(* slot restart empties is the only record of who runs, and no run of the  *)
(* life before survives it (runner.py:5).                                  *)
THEOREM SingleFlightInEveryLife == ProtocolSpec => []SingleFlight
<1>1. ProtocolInv => SingleFlight
  BY DEF ProtocolInv, ManagerInv, SlotInv, SlotsAndRunsAgree, SingleFlight
<1> QED
  BY <1>1, ProtocolAlways, PTL

(* The manager implements ThreadRuns in every life of the process: each    *)
(* step of the composition is one of the manager, which implements it, or  *)
(* a restart, and the manager a restart makes is a new one.                *)
THEOREM ThreadsKept == ProtocolSpec => ThreadsInEveryLife
<1>1. ProtocolInit => Thread!Init
  BY ThreadsInit DEF ProtocolInit
<1>2. NewManager => (Thread!Init)'
  <2> SUFFICES ASSUME NewManager PROVE (Thread!Init)'
    OBVIOUS
  <2>1. runStage' = [r \in Runs |-> "new"]
    BY DEF NewManager, runStage, StageOf
  <2>2. runAnswers' = [r \in Runs |-> NoAnswer]
    BY <2>1 DEF runAnswers
  <2>3. threadHolder' = [t \in Threads |-> NoRun]
    BY DEF NewManager, threadHolder
  <2> QED
    BY <2>1, <2>2, <2>3 DEF NewManager, Thread!Init
<1>3. ProtocolInv /\ ProtocolInv' /\ [ProtocolNext]_protocolVars =>
        [\/ UNCHANGED Thread!threadVars
         \/ restarts' = restarts + 1 /\ (Thread!Init)'
         \/ Thread!Next]_protocolVars
  <2> SUFFICES ASSUME ProtocolInv, ProtocolInv', [ProtocolNext]_protocolVars
               PROVE  \/ Thread!Next \/ UNCHANGED Thread!threadVars
                      \/ restarts' = restarts + 1 /\ (Thread!Init)'
    OBVIOUS
  <2>1. SlotInv /\ SlotInv' /\ PendingInv
    BY DEF ProtocolInv, ManagerInv
  <2>2. [Next]_vars \/ (Restart /\ NewManager)
    BY ManagerOrRestart DEF ProtocolInv
  <2>3. CASE [Next]_vars
    BY <2>1, <2>3, ThreadsNext
  <2>4. CASE Restart /\ NewManager
    BY <1>2, <2>4 DEF Restart
  <2> QED
    BY <2>2, <2>3, <2>4
<1> QED
  BY <1>1, <1>3, ProtocolAlways, PTL DEF ProtocolSpec, ThreadsInEveryLife

(* What the manager's map says is pending on a thread is what the saver    *)
(* holds: an answer the map lets through is one the graph asked for.  It   *)
(* needs that no client made runs cross the thread's boundary: whoever     *)
(* names a thread in a configurable writes there without its slot          *)
(* (runner.py:144).                                                        *)
THEOREM MapAgreesWithSaver == ProtocolSpec => []PendingMatchesSaver
<1>1. ProtocolInv => PendingMatchesSaver
  BY DEF ProtocolInv
<1> QED
  BY <1>1, ProtocolAlways, PTL

(* A binding that run.start acknowledged is what reads see and what a      *)
(* restart comes back to (threads.py:39), whatever writes failed.          *)
THEOREM AcknowledgedBindings == ProtocolSpec => []AcknowledgedBindingIsDurable
<1>1. ProtocolInv => AcknowledgedBindingIsDurable
  BY DEF ProtocolInv
<1> QED
  BY <1>1, ProtocolAlways, PTL

(* A run that executes is a run of the assistant its thread is bound to,   *)
(* if that binding was acknowledged (router.py:228).                       *)
THEOREM ExecutingIsBound == ProtocolSpec => []BoundToWhatRuns
<1>1. ProtocolInv => BoundToWhatRuns
  BY DEF ProtocolInv, TasksBound, Bound, Tasked, BoundToWhatRuns
<1> QED
  BY <1>1, ProtocolAlways, PTL

(* An interrupt that the saver holds while no run is live on its thread is *)
(* accepted by respond: the manager's map, if the thread has one, knows it *)
(* (runner.py:186), without one the row's assistant is enough (188), and   *)
(* the slot is free.  It needs that no run crossed the thread's boundary,  *)
(* for the map, and that no start on it raised over its metadata           *)
(* (runner.py:149), for the slot.                                          *)
THEOREM AnswersAccepted == ProtocolSpec => []InterruptsStayAnswerable
<1>1. ProtocolInv => InterruptsStayAnswerable
  <2> SUFFICES ASSUME ProtocolInv, NEW t \in Threads, NEW i \in Interrupts,
                      i \in StateInterrupts(t), rows[t] \in Assistants, Private(t),
                      \A s \in Runs : Live(s) \/ phase[s] = "abandoned" => call[s].thread # t
               PROVE  Accepts(t, i, rows[t])
    BY DEF InterruptsStayAnswerable
  <2>1. Free(t)
    <3>1. active[t] \in Runs \cup {NoRun}
      BY DEF ProtocolInv, ManagerInv, SlotInv, TypeOK
    <3>2. active[t] # NoRun =>
            /\ Live(active[t]) \/ phase[active[t]] \in {"abandoned", "ended"}
            /\ call[active[t]].thread = t
      BY <3>1 DEF ProtocolInv, ManagerInv, SlotInv, SlotsAndRunsAgree, Unseen
    <3> QED
      BY <3>1, <3>2 DEF Free
  <2>2. pending[t] # NoPending => i \in pending[t].ids
    <3>1. i \in saved[t].ids
      BY DEF StateInterrupts
    <3>2. pending[t] # NoPending => saved[t] = [by |-> pending[t].assistant, ids |-> pending[t].ids]
      BY DEF ProtocolInv, PendingMatchesSaver
    <3> QED
      BY <3>1, <3>2
  <2>3. rows[t] # NoAssistant
    BY NullAssumption
  <2> QED
    BY <2>1, <2>2, <2>3 DEF Accepts
<1> QED
  BY <1>1, ProtocolAlways, PTL

(* While a run awaits its factory nobody writes its thread's checkpoints:  *)
(* what input.respond read there is what the resumed graph starts from, if *)
(* no client made runs cross the thread's boundary.  Then a writer would   *)
(* be a second live run of the thread.                                     *)
THEOREM SaverKeptWhileResolving == ProtocolSpec => SaverStillWhileResolving
<1> DEFINE Still ==
      \A r \in Runs :
        (phase[r] = "resolving" /\ phase'[r] \in {"resolving", "scheduled"}
          /\ Private(call[r].thread)) =>
          saved'[call[r].thread] = saved[call[r].thread]
<1>1. ProtocolInv /\ [ProtocolNext]_protocolVars => [Still]_protocolVars
  <2> SUFFICES ASSUME ProtocolInv, ProtocolNext, NEW r \in Runs, phase[r] = "resolving",
                      Private(call[r].thread)
               PROVE  saved'[call[r].thread] = saved[call[r].thread]
    OBVIOUS
  <2>1. call[r].thread \in Threads
    BY CallTyped DEF ProtocolInv
  <2>2. ASSUME NEW s \in Runs, NEW ids, Executing(s), Save(s, ids)
        PROVE  saved'[call[r].thread] = saved[call[r].thread]
    <3>1. call[s].thread # call[r].thread
      BY <2>2, OneLiveRun DEF ProtocolInv
    <3>2. Target(s) # call[r].thread
      BY <2>2, <3>1 DEF Private
    <3> QED
      BY <2>1, <2>2, <3>2 DEF Save, ProtocolInv, SideType
  <2>3. ASSUME NEW s \in Runs, NEW ids, GraphValues(s, ids)
        PROVE  saved'[call[r].thread] = saved[call[r].thread]
    BY <2>2, <2>3 DEF GraphValues, Values
  <2>4. ASSUME NEW s \in Runs, GraphEnds(s)
        PROVE  saved'[call[r].thread] = saved[call[r].thread]
    BY <2>2, <2>4 DEF GraphEnds, StreamEnds
  <2>5. CASE UNCHANGED saved
    BY <2>5
  <2> QED
    BY <2>3, <2>4, <2>5
    DEF ProtocolNext, CreateThread, RunStart, RunStarted, RunStartRaises, FindInterrupt, Resume,
        ResumeRefused,
        Resumed, RunCancel, GraphSnapshot, ManagerStep, Restart
<1> QED
  BY <1>1, ProtocolAlways, PTL DEF ProtocolSpec, SaverStillWhileResolving
=============================================================================
