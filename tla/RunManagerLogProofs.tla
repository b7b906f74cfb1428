------------------------- MODULE RunManagerLogProofs -------------------------
(***************************************************************************)
(* Proofs about RunManager that relate the pending interrupts and the log  *)
(* of published events to the runs, and that it implements ThreadRuns.     *)
(* They rest on the slots: two runs of a thread that are both live do not  *)
(* exist, so while one is live nobody else consumes the thread's pending   *)
(* map or writes to its log.                                               *)
(***************************************************************************)
EXTENDS RunManagerProofs

USE DEF Live, Executing, Keys, Goto, callVars, taskVars

(* While a start that answers an interrupt awaits its factory, the         *)
(* interrupt stays pending; while a run has a task, nothing is pending on  *)
(* its thread and the thread's last assistant is the run's.                *)
PendingInv ==
  \A r \in Runs :
    /\ Tasked(r) => /\ pending[call[r].thread] = NoPending
                    /\ lastAssistant[call[r].thread] = call[r].assistant
    /\ (phase[r] = "resolving" /\ call[r].answers \in Interrupts) =>
         /\ pending[call[r].thread] # NoPending
         /\ call[r].answers \in pending[call[r].thread].ids

LEMMA PendingInit == Init => PendingInv
  BY DEF Init, PendingInv, Tasked

(* A step that leaves the map alone and moves one run on, or ends it.      *)
LEMMA PendingKept ==
  ASSUME SlotInv, PendingInv, NEW r \in Runs,
         NEW p \in {"streaming", "snapshot", "rejected", "abandoned", "ended", "cleared"},
         p \in {"streaming", "snapshot"} => Tasked(r),
         Goto(r, p), UNCHANGED <<pending, call, lastAssistant>>
  PROVE  PendingInv'
  BY DEF SlotInv, TypeOK, PendingInv, Tasked

LEMMA PendingDispatched ==
  ASSUME SlotInv, PendingInv, NEW r \in Runs, NEW t \in Threads, NEW a \in Assistants,
         NEW i \in Keys \cup {NoAnswer}, NEW c \in Config, Dispatch(r, t, a, i, c),
         i \in Interrupts => pending[t] # NoPending /\ i \in pending[t].ids
  PROVE  PendingInv'
<1>1. call' = [call EXCEPT ![r] = [thread |-> t, assistant |-> a, answers |-> i,
                                  config |-> c]]
  BY DEF Dispatch
<1>2. /\ \A s \in Runs : s # r => call'[s] = call[s] /\ phase'[s] = phase[s]
      /\ call'[r].thread = t /\ call'[r].answers = i
      /\ phase'[r] \in {"resolving", "rejected"}
  BY <1>1 DEF Dispatch, SlotInv, TypeOK
<1>3. UNCHANGED <<pending, lastAssistant>>
  BY DEF Dispatch
<1> QED
  BY <1>2, <1>3 DEF PendingInv, Tasked

LEMMA PendingSettled ==
  ASSUME SlotInv, PendingInv, NEW r \in Runs, NEW ids \in SUBSET Interrupts,
         Executing(r), Settle(r, ids)
  PROVE  PendingInv'
<1>1. call[r] \in Call /\ UNCHANGED <<call, lastAssistant>>
  BY DEF SlotInv, TypeOK, Settle
<1>2. /\ phase'[r] = "ended"
      /\ \A s \in Runs : s # r => phase'[s] = phase[s]
  BY DEF SlotInv, TypeOK, Settle
<1>3. \A t \in Threads : t # call[r].thread => pending'[t] = pending[t]
  BY <1>1 DEF SlotInv, TypeOK, Settle, Call
<1>4. \A s \in Runs : s # r /\ Live(s) => call[s].thread # call[r].thread
  BY DEF SlotInv, SlotsAndRunsAgree
<1>5. \A s \in Runs : Live(s) => call[s].thread \in Threads
  BY DEF SlotInv, TypeOK, Call
<1> QED
  BY <1>1, <1>2, <1>3, <1>4, <1>5 DEF PendingInv, Tasked

LEMMA PendingStep == SlotInv /\ PendingInv /\ [Next]_vars => PendingInv'
<1> SUFFICES ASSUME SlotInv, PendingInv, [Next]_vars PROVE PendingInv'
  OBVIOUS
<1>1. ASSUME NEW a \in Assistants, Register(a) PROVE PendingInv'
  BY <1>1 DEF PendingInv, Tasked, Register
<1>2. ASSUME NEW t \in Threads, NEW rid \in Runs \cup {NoRun}, Cancel(t, rid) PROVE PendingInv'
  BY <1>2 DEF PendingInv, Tasked, Cancel
<1>3. ASSUME NEW r \in Runs, NEW t \in Threads, NEW a \in Assistants, NEW c \in Config,
             Start(r, t, a, c)
      PROVE PendingInv'
  BY <1>3, PendingDispatched, NullAssumption DEF Start
<1>4. ASSUME NEW r \in Runs, NEW t \in Threads, NEW i \in Keys,
             NEW a \in Assistants \cup {NoAssistant}, Respond(r, t, i, a)
      PROVE PendingInv'
  <2>1. pending[t] # NoPending => pending[t].assistant \in Assistants
    BY DEF SlotInv, TypeOK, Pending
  <2>2. CASE /\ pending[t] # NoPending
             /\ i \in pending[t].ids \cup {AssistantKey}
             /\ Dispatch(r, t, IF a # NoAssistant THEN a ELSE pending[t].assistant, i,
                         NoConfig(t))
    <3>1. i \in Interrupts => i \in pending[t].ids
      BY <2>2, NullAssumption
    <3> QED
      BY <2>1, <2>2, <3>1, PendingDispatched, NoConfigType
  <2>3. CASE /\ pending[t] = NoPending /\ a # NoAssistant
             /\ Dispatch(r, t, a, NoAnswer, NoConfig(t))
    BY <2>3, PendingDispatched, NoConfigType, NullAssumption
  <2> QED
    BY <1>4, <2>2, <2>3 DEF Respond, Accepts
<1>5. ASSUME NEW r \in Runs, ResolveOk(r) PROVE PendingInv'
  <2> DEFINE t == call[r].thread
  <2>1. /\ t \in Threads /\ UNCHANGED call
        /\ pending' = [pending EXCEPT ![t] = NoPending]
        /\ lastAssistant' = [lastAssistant EXCEPT ![t] = call[r].assistant]
        /\ phase' = [phase EXCEPT ![r] = "scheduled"]
    BY <1>5 DEF ResolveOk, Consume, SlotInv, TypeOK, Call
  <2>2. \A s \in Runs : s # r /\ Live(s) => call[s].thread # t /\ call[s].thread \in Threads
    BY <1>5 DEF ResolveOk, SlotInv, SlotsAndRunsAgree, TypeOK, Call
  <2> HIDE DEF t
  <2>3. pending'[t] = NoPending /\ lastAssistant'[t] = call[r].assistant
    BY <2>1 DEF SlotInv, TypeOK
  <2>4. \A u \in Threads : u # t => pending'[u] = pending[u] /\ lastAssistant'[u] = lastAssistant[u]
    BY <2>1 DEF SlotInv, TypeOK
  <2>5. phase'[r] = "scheduled" /\ \A s \in Runs : s # r => phase'[s] = phase[s]
    BY <2>1 DEF SlotInv, TypeOK
  <2> QED
    BY <2>1, <2>2, <2>3, <2>4, <2>5 DEF PendingInv, Tasked, t
<1>6. ASSUME NEW r \in Runs, ResolveFail(r) PROVE PendingInv'
  BY <1>6, PendingKept DEF ResolveFail
<1>7. ASSUME NEW r \in Runs, StartRaises(r) \/ StartCancelled(r) PROVE PendingInv'
  BY <1>7, PendingKept DEF StartRaises, StartCancelled
<1>8. ASSUME NEW r \in Runs, Begin(r) PROVE PendingInv'
  BY <1>8, PendingKept DEF Begin, Tasked
<1>9. ASSUME NEW r \in Runs, CancelUnstarted(r) PROVE PendingInv'
  BY <1>9, PendingKept DEF CancelUnstarted
<1>10. ASSUME NEW r \in Runs, Message(r) PROVE PendingInv'
  BY <1>10 DEF PendingInv, Tasked, Message
<1>11. ASSUME NEW r \in Runs, NEW ids \in SUBSET Interrupts, Values(r, ids) PROVE PendingInv'
  BY <1>11 DEF PendingInv, Tasked, Values
<1>12. ASSUME NEW r \in Runs, StreamEnds(r) PROVE PendingInv'
  <2>1. CASE lastValues[r] # NoValues /\ Settle(r, lastValues[r])
    BY <1>12, <2>1, PendingSettled DEF StreamEnds, SlotInv, TypeOK
  <2>2. CASE lastValues[r] = NoValues /\ Goto(r, "snapshot")
               /\ UNCHANGED <<active, pending, log, callVars, taskVars>>
    BY <1>12, <2>2, PendingKept DEF StreamEnds, Tasked
  <2> QED
    BY <1>12, <2>1, <2>2 DEF StreamEnds
<1>13. ASSUME NEW r \in Runs, NEW ids \in SUBSET Interrupts, SnapshotReturns(r, ids)
       PROVE PendingInv'
  BY <1>13, PendingSettled DEF SnapshotReturns
<1>14. ASSUME NEW r \in Runs, Fail(r) PROVE PendingInv'
  BY <1>14, PendingKept DEF Fail
<1>15. ASSUME NEW r \in Runs, Cancelled(r) PROVE PendingInv'
  BY <1>15, PendingKept DEF Cancelled
<1>16. ASSUME NEW r \in Runs, DoneCallback(r) PROVE PendingInv'
  BY <1>16, PendingKept DEF DoneCallback
<1>17. CASE UNCHANGED vars
  BY <1>17 DEF PendingInv, Tasked, vars
<1> QED
  BY <1>1, <1>2, <1>3, <1>4, <1>5, <1>6, <1>7, <1>8, <1>9, <1>10, <1>11, <1>12, <1>13,
     <1>14, <1>15, <1>16, <1>17 DEF Next, Step

LEMMA PendingAlways == Spec => [](SlotInv /\ PendingInv)
<1>1. SlotInv /\ PendingInv /\ [Next]_vars => PendingInv'
  BY PendingStep
<1> QED
  BY <1>1, SlotAlways, PendingInit, PTL DEF Spec

(* The two steps that write the pending map.                               *)
LEMMA PendingWriters ==
  ASSUME Next, ~UNCHANGED pending
  PROVE  \E r \in Runs : \/ ResolveOk(r)
                         \/ Executing(r) /\ \E ids : Settle(r, ids)
<1>1. PICK r \in Runs : Step(r)
  BY DEF Next, Register, Cancel
<1>2. \A t, a, i, c : ~Dispatch(r, t, a, i, c)
  BY DEF Dispatch
<1>3. /\ \A t, a, c : ~Start(r, t, a, c)
      /\ \A t, i, a : ~Respond(r, t, i, a)
  BY <1>2 DEF Start, Respond
<1>4. /\ ~StartRaises(r) /\ ~ResolveFail(r) /\ ~StartCancelled(r)
      /\ ~Begin(r) /\ ~CancelUnstarted(r)
      /\ ~Message(r) /\ (\A ids : ~Values(r, ids))
      /\ ~Fail(r) /\ ~Cancelled(r) /\ ~DoneCallback(r)
  BY DEF StartRaises, ResolveFail, StartCancelled, Begin, CancelUnstarted, Message, Values, Fail,
         Cancelled, DoneCallback
<1>5. StreamEnds(r) => Executing(r) /\ \E ids : Settle(r, ids)
  BY DEF StreamEnds
<1>6. \A ids : SnapshotReturns(r, ids) => Executing(r) /\ Settle(r, ids)
  BY DEF SnapshotReturns
<1> QED
  BY <1>1, <1>3, <1>4, <1>5, <1>6 DEF Step

(* Only a start that got its graph consumes pending interrupts             *)
(* (runner.py:17): the other step that writes the map, the end of a run    *)
(* that asks for input, finds it empty, because the start of that run      *)
(* emptied it and no other run of the thread has run since.                *)
THEOREM Consumption == Spec => OnlySuccessfulStartsConsume
<1> DEFINE Consumed ==
      \A t \in Threads :
        (pending[t] # NoPending /\ pending'[t] # pending[t]) =>
          \E r \in Runs : phase[r] = "resolving" /\ phase'[r] = "scheduled"
                           /\ call[r].thread = t
<1>1. SlotInv /\ PendingInv /\ [Next]_vars => [Consumed]_vars
  <2> SUFFICES ASSUME SlotInv, PendingInv, Next, ~UNCHANGED pending PROVE Consumed
    BY DEF vars
  <2>1. ASSUME NEW r \in Runs, ResolveOk(r) PROVE Consumed
    BY <2>1 DEF ResolveOk, Consume, SlotInv, TypeOK, Call
  <2>2. ASSUME NEW r \in Runs, Executing(r), NEW ids, Settle(r, ids) PROVE Consumed
    <3>1. pending[call[r].thread] = NoPending
      BY <2>2 DEF PendingInv, Tasked
    <3>2. \A t \in Threads : t # call[r].thread => pending'[t] = pending[t]
      BY <2>2 DEF Settle, SlotInv, TypeOK
    <3> QED
      BY <3>1, <3>2
  <2> QED
    BY <2>1, <2>2, PendingWriters
<1> QED
  BY <1>1, PendingAlways, PTL DEF Spec, OnlySuccessfulStartsConsume

(* The interrupt respond found pending (runner.py:186) is still pending    *)
(* when start consumes the map after the factory's await (runner.py:154).  *)
THEOREM Answers == Spec => AnswerStillPending
<1>1. SlotInv /\ PendingInv /\ [Next]_vars =>
        [\A r \in Runs :
           (phase[r] = "resolving" /\ phase'[r] = "scheduled" /\ call[r].answers \in Interrupts) =>
             /\ pending[call[r].thread] # NoPending
             /\ call[r].answers \in pending[call[r].thread].ids]_vars
  BY DEF PendingInv
<1> QED
  BY <1>1, PendingAlways, PTL DEF Spec, AnswerStillPending

-----------------------------------------------------------------------------
(* The manager implements the threads it promises: an accepted start is    *)
(* the end of its factory's await, a run leaves its thread in the step     *)
(* that ends its task, and all other steps change nothing a thread has.    *)

(* A run that has a task holds its thread.                                 *)
LEMMA TaskHolds ==
  ASSUME SlotInv, NEW r \in Runs, Tasked(r)
  PROVE  /\ call[r] \in Call /\ call[r].thread \in Threads
         /\ active[call[r].thread] = r /\ threadHolder[call[r].thread] = r
<1>1. call[r] \in Call /\ call[r].thread \in Threads
  BY DEF SlotInv, TypeOK, Tasked, Call
<1>2. active[call[r].thread] = r
  BY DEF SlotInv, SlotsAndRunsAgree, Tasked
<1>3. r # NoRun
  BY NullAssumption
<1> QED
  BY <1>1, <1>2, <1>3 DEF threadHolder

(* A run moves on.                                                         *)
LEMMA StageMoved ==
  ASSUME TypeOK, NEW r \in Runs, NEW p, Goto(r, p)
  PROVE  /\ runStage' = [runStage EXCEPT ![r] = StageOf(p)]
         /\ phase'[r] = p /\ \A s \in Runs : s # r => phase'[s] = phase[s]
<1>1. phase'[r] = p /\ \A s \in Runs : s # r => phase'[s] = phase[s]
  BY DEF TypeOK
<1>2. /\ runStage = [s \in Runs |-> runStage[s]]
      /\ runStage' = [s \in Runs |-> runStage'[s]]
      /\ \A s \in Runs : runStage'[s] = IF s = r THEN StageOf(p) ELSE runStage[s]
  BY <1>1 DEF runStage
<1>3. runStage' = [s \in Runs |-> IF s = r THEN StageOf(p) ELSE runStage[s]]
  BY <1>2
<1>4. [runStage EXCEPT ![r] = StageOf(p)] =
        [s \in Runs |-> IF s = r THEN StageOf(p) ELSE runStage[s]]
  BY <1>2
<1> QED
  BY <1>1, <1>3, <1>4

(* What an accepted run answers stays what it is.                          *)
LEMMA AnswersKept ==
  ASSUME \A s \in Runs : /\ StageOf(phase'[s]) = "new" <=> StageOf(phase[s]) = "new"
                         /\ StageOf(phase[s]) # "new" => call'[s] = call[s]
  PROVE  runAnswers' = runAnswers
<1>1. \A s \in Runs : runStage[s] = StageOf(phase[s]) /\ runStage'[s] = StageOf(phase'[s])
  BY DEF runStage
<1> QED
  BY <1>1 DEF runAnswers

(* A step that moves no run between the stages of a thread, and takes or   *)
(* gives back slots only for runs without a task.                          *)
LEMMA ThreadsSame ==
  ASSUME UNCHANGED <<pending, log, lastAssistant>>,
         \A s \in Runs : /\ StageOf(phase'[s]) = StageOf(phase[s])
                         /\ StageOf(phase[s]) # "new" => call'[s] = call[s],
         TypeOK, TypeOK',
         \A t \in Threads :
           \/ active'[t] = active[t]
           \/ /\ active[t] # NoRun => ~Tasked(active[t])
              /\ active'[t] # NoRun => ~Tasked(active'[t])
  PROVE  UNCHANGED Thread!threadVars
<1>1. runStage' = runStage
  BY DEF runStage
<1>2. runAnswers' = runAnswers
  BY AnswersKept
<1>3. \A s \in Runs : Tasked(s)' <=> Tasked(s)
  <2>1. \A s \in Runs : /\ Tasked(s) <=> StageOf(phase[s]) \in {"accepted", "running"}
                        /\ Tasked(s)' <=> StageOf(phase'[s]) \in {"accepted", "running"}
    BY DEF Tasked, StageOf
  <2> QED
    BY <2>1
<1>4. ASSUME NEW t \in Threads PROVE threadHolder'[t] = threadHolder[t]
  <2>1. active[t] \in Runs \cup {NoRun} /\ active'[t] \in Runs \cup {NoRun}
    BY DEF TypeOK
  <2>2. /\ threadHolder[t] =
             IF active[t] # NoRun /\ Tasked(active[t]) THEN active[t] ELSE NoRun
        /\ threadHolder'[t] =
             IF active'[t] # NoRun /\ phase'[active'[t]] \in {"scheduled", "streaming", "snapshot"}
             THEN active'[t] ELSE NoRun
    BY DEF threadHolder, Tasked
  <2> QED
    BY <1>3, <2>1, <2>2 DEF Tasked
<1>5. threadHolder' = threadHolder
  BY <1>4 DEF threadHolder
<1> QED
  BY <1>1, <1>2, <1>5 DEF Thread!threadVars

(* A start that is dispatched reserves a slot and is not seen.             *)
LEMMA DispatchUnseen ==
  ASSUME SlotInv, TypeOK', NEW r \in Runs, NEW t \in Threads, NEW a, NEW i, NEW c,
         Dispatch(r, t, a, i, c)
  PROVE  UNCHANGED Thread!threadVars
<1>1. /\ phase[r] = "unused" /\ phase'[r] \in {"resolving", "rejected"}
      /\ \A s \in Runs : s # r => phase'[s] = phase[s] /\ call'[s] = call[s]
      /\ active[t] # NoRun => phase[active[t]] = "ended"
      /\ active'[t] \in {NoRun, r}
      /\ \A u \in Threads : u # t => active'[u] = active[u]
      /\ UNCHANGED <<pending, log, lastAssistant>>
  BY DEF Dispatch, Free, SlotInv, TypeOK
<1>2. TypeOK
  BY DEF SlotInv
<1>3. \A s \in Runs : /\ StageOf(phase'[s]) = StageOf(phase[s])
                      /\ StageOf(phase[s]) # "new" => call'[s] = call[s]
  BY <1>1 DEF StageOf
<1>4. /\ active[t] # NoRun => ~Tasked(active[t])
      /\ active'[t] # NoRun => ~Tasked(active'[t])
  BY <1>1 DEF Tasked
<1> QED
  BY <1>1, <1>2, <1>3, <1>4, ThreadsSame

(* Runs without a task that end a start, or give their slot back.          *)
LEMMA ReleaseUnseen ==
  ASSUME SlotInv, TypeOK', NEW r \in Runs,
         NEW p, \/ phase[r] = "resolving" /\ p \in {"rejected", "abandoned"}
                \/ phase[r] = "ended" /\ p = "cleared",
         Goto(r, p), active' \in {active, Release(call[r].thread, r)},
         UNCHANGED <<call, pending, log, lastAssistant>>
  PROVE  UNCHANGED Thread!threadVars
<1>1. phase'[r] = p /\ \A s \in Runs : s # r => phase'[s] = phase[s]
  BY DEF SlotInv, TypeOK
<1>2. StageOf(phase[r]) = StageOf(p)
  BY DEF StageOf
<1>3. \A s \in Runs : StageOf(phase'[s]) = StageOf(phase[s])
  BY <1>1, <1>2
<1>4. \A t \in Threads : \/ active'[t] = active[t]
                         \/ active[t] = r /\ active'[t] = NoRun
  BY DEF SlotInv, TypeOK, Release
<1>5. ~Tasked(r) /\ TypeOK
  BY DEF Tasked, SlotInv
<1> QED
  BY <1>3, <1>4, <1>5, ThreadsSame

(* The await of the factory that ends well is the accepted start.          *)
LEMMA AcceptsThread ==
  ASSUME SlotInv, SlotInv', PendingInv, NEW r \in Runs, ResolveOk(r)
  PROVE  Thread!Accept(call[r].thread, r, call[r].assistant, runAnswers'[r])
<1> DEFINE t == call[r].thread
           i == IF call[r].answers \in Interrupts THEN call[r].answers ELSE NoAnswer
<1>1. /\ phase[r] = "resolving" /\ Goto(r, "scheduled") /\ UNCHANGED <<call, log>>
      /\ pending' = [pending EXCEPT ![t] = NoPending]
      /\ lastAssistant' = [lastAssistant EXCEPT ![t] = call[r].assistant]
      /\ active' = [active EXCEPT ![t] = r]
  BY DEF ResolveOk, Consume
<1>2. t \in Threads /\ active[t] = r /\ r # NoRun
  BY <1>1, NullAssumption DEF SlotInv, SlotsAndRunsAgree, TypeOK, Call
<1>3. /\ runStage' = [runStage EXCEPT ![r] = "accepted"] /\ runStage[r] = "new"
      /\ phase'[r] = "scheduled" /\ \A s \in Runs : s # r => phase'[s] = phase[s]
      /\ runStage'[r] = "accepted" /\ \A s \in Runs : s # r => runStage'[s] = runStage[s]
  <2>1. StageOf("scheduled") = "accepted" /\ runStage[r] = "new"
    BY <1>1 DEF StageOf, runStage
  <2>2. runStage \in [Runs -> {"new", "accepted", "running", "over"}]
    BY DEF runStage, StageOf
  <2>3. TypeOK
    BY DEF SlotInv
  <2>4. runStage' = [runStage EXCEPT ![r] = StageOf("scheduled")]
    BY <1>1, <2>3, StageMoved
  <2>5. phase'[r] = "scheduled" /\ \A s \in Runs : s # r => phase'[s] = phase[s]
    BY <1>1, <2>3, StageMoved
  <2> QED
    BY <2>1, <2>2, <2>4, <2>5
<1>4. /\ runAnswers'[r] = i
      /\ \A s \in Runs : s # r => runAnswers'[s] = runAnswers[s]
  BY <1>1, <1>3 DEF runAnswers
<1>5. runAnswers' = [runAnswers EXCEPT ![r] = i]
  BY <1>4 DEF runAnswers
<1>6. i # NoAnswer => Thread!Waits(t, i)
  BY <1>1 DEF PendingInv, Thread!Waits
<1>7. threadHolder[t] = NoRun
  BY <1>1, <1>2 DEF threadHolder, Tasked
<1>8. threadHolder' = [threadHolder EXCEPT ![t] = r]
  <2>1. active' = active
    BY <1>1, <1>2 DEF SlotInv, TypeOK
  <2>2. threadHolder'[t] = r
    BY <1>2, <1>3, <2>1 DEF threadHolder, Tasked
  <2>3. ASSUME NEW u \in Threads, u # t PROVE threadHolder'[u] = threadHolder[u]
    <3>1. active[u] # r /\ active[u] \in Runs \cup {NoRun}
      BY <1>2, <2>3 DEF SlotInv, SlotsAndRunsAgree, TypeOK
    <3> QED
      BY <1>3, <2>1, <3>1 DEF threadHolder, Tasked
  <2> QED
    BY <2>2, <2>3 DEF threadHolder
<1> HIDE DEF i, t
<1>9. Thread!Accept(t, r, call[r].assistant, i)
  BY <1>1, <1>3, <1>5, <1>6, <1>7, <1>8 DEF Thread!Accept
<1> QED
  BY <1>4, <1>9 DEF t

(* The first step of the task is the run's beginning.                      *)
LEMMA BeginsThread ==
  ASSUME SlotInv, NEW r \in Runs, Begin(r)
  PROVE  Thread!Begin(call[r].thread, r)
<1> DEFINE t == call[r].thread
<1>1. /\ phase[r] = "scheduled" /\ Goto(r, "streaming") /\ TypeOK
      /\ log' = [log EXCEPT ![t] =
                   @ \o <<Lifecycle(r, "started"), Lifecycle(r, "running")>>]
      /\ UNCHANGED <<active, pending, call, lastAssistant>>
  BY DEF Begin, Publish, SlotInv
<1>2. Tasked(r)
  BY <1>1 DEF Tasked
<1>3. threadHolder[t] = r
  BY <1>2, TaskHolds
<1>4. phase'[r] = "streaming" /\ \A s \in Runs : s # r => phase'[s] = phase[s]
  BY <1>1, StageMoved
<1>5. StageOf("scheduled") = "accepted" /\ StageOf("streaming") = "running"
  BY DEF StageOf
<1>6. runStage[r] = "accepted" /\ runStage' = [runStage EXCEPT ![r] = "running"]
  <2>1. runStage[r] = "accepted"
    BY <1>1, <1>5 DEF runStage
  <2>2. runStage' = [runStage EXCEPT ![r] = StageOf("streaming")]
    BY <1>1, StageMoved
  <2> QED
    BY <1>5, <2>1, <2>2
<1>7. runAnswers' = runAnswers
  BY <1>1, <1>4, <1>5, AnswersKept
<1>8. threadHolder' = threadHolder
  <2>1. \A s \in Runs : Tasked(s)' <=> Tasked(s)
    BY <1>1, <1>4 DEF Tasked
  <2>2. \A u \in Threads : active[u] \in Runs \cup {NoRun} /\ active'[u] = active[u]
    BY <1>1 DEF TypeOK
  <2>3. ASSUME NEW u \in Threads PROVE threadHolder'[u] = threadHolder[u]
    BY <2>1, <2>2 DEF threadHolder, Tasked
  <2> QED
    BY <2>3 DEF threadHolder
<1> HIDE DEF t
<1> QED
  BY <1>1, <1>3, <1>6, <1>7, <1>8
     DEF Thread!Begin, Thread!Tell, Thread!Told, Lifecycle, t

(* The end of a task gives the thread back.                                *)
LEMMA LeavesThread ==
  ASSUME SlotInv, NEW r \in Runs, Tasked(r), Goto(r, "ended"),
         UNCHANGED <<active, call, lastAssistant>>
  PROVE  Thread!Leave(call[r].thread, r)
<1> DEFINE t == call[r].thread
<1>1. /\ TypeOK /\ t \in Threads /\ active[t] = r /\ threadHolder[t] = r
      /\ \A u \in Threads : u # t => active[u] # r
  BY TaskHolds, NullAssumption DEF SlotInv, SlotsAndRunsAgree
<1>2. phase'[r] = "ended" /\ \A s \in Runs : s # r => phase'[s] = phase[s]
  BY <1>1, StageMoved
<1>3. runStage' = [runStage EXCEPT ![r] = "over"]
  <2>1. runStage' = [runStage EXCEPT ![r] = StageOf("ended")]
    BY <1>1, StageMoved
  <2>2. StageOf("ended") = "over"
    BY DEF StageOf
  <2> QED
    BY <2>1, <2>2
<1>4. runAnswers' = runAnswers
  <2>1. StageOf(phase[r]) # "new" /\ StageOf(phase'[r]) # "new"
    BY <1>2 DEF Tasked, StageOf
  <2> QED
    BY <1>2, <2>1, AnswersKept
<1>5. threadHolder' = [threadHolder EXCEPT ![t] = NoRun]
  <2>1. threadHolder'[t] = NoRun
    BY <1>1, <1>2 DEF threadHolder, Tasked
  <2>2. ASSUME NEW u \in Threads, u # t PROVE threadHolder'[u] = threadHolder[u]
    <3>1. active[u] # r /\ active[u] \in Runs \cup {NoRun}
      BY <1>1, <2>2 DEF TypeOK
    <3> QED
      BY <1>2, <3>1 DEF threadHolder, Tasked
  <2> QED
    BY <2>1, <2>2 DEF threadHolder
<1> HIDE DEF t
<1> QED
  BY <1>1, <1>3, <1>4, <1>5 DEF Thread!Leave, t

(* A task that is over before its first step is dropped.                   *)
LEMMA DropsThread ==
  ASSUME SlotInv, NEW r \in Runs, CancelUnstarted(r)
  PROVE  Thread!Drop(call[r].thread, r)
<1>1. /\ phase[r] = "scheduled" /\ Goto(r, "ended")
      /\ UNCHANGED <<active, pending, log, call, lastAssistant>>
  BY DEF CancelUnstarted
<1>2. runStage[r] = "accepted"
  BY <1>1 DEF runStage, StageOf
<1>3. Thread!Leave(call[r].thread, r)
  BY <1>1, LeavesThread DEF Tasked
<1> QED
  BY <1>1, <1>2, <1>3 DEF Thread!Drop

(* The one event an executing run ends with, if it does not ask for input. *)
LEMMA EndsThread ==
  ASSUME SlotInv, NEW r \in Runs, Executing(r), Goto(r, "ended"), NEW event,
         Publish(r, <<Lifecycle(r, event)>>),
         UNCHANGED <<active, call, lastAssistant, pending>>
  PROVE  Thread!End(call[r].thread, r, event)
<1>1. runStage[r] = "running"
  BY DEF runStage, StageOf
<1>2. Thread!Leave(call[r].thread, r)
  BY LeavesThread DEF Tasked
<1> QED
  BY <1>1, <1>2 DEF Thread!End, Thread!Tell, Thread!Told, Publish, Lifecycle

(* The end of a stream.                                                    *)
LEMMA SettlesThread ==
  ASSUME SlotInv, PendingInv, NEW r \in Runs, Executing(r),
         NEW ids \in SUBSET Interrupts, Settle(r, ids)
  PROVE  \/ Thread!End(call[r].thread, r, "completed")
         \/ ids # {} /\ Thread!Ask(call[r].thread, r, ids)
<1>1. Goto(r, "ended") /\ UNCHANGED <<active, call, lastAssistant>>
  BY DEF Settle
<1>2. CASE Publish(r, <<Lifecycle(r, "completed")>>) /\ UNCHANGED pending
  BY <1>1, <1>2, EndsThread
<1>3. CASE /\ ids # {} /\ Publish(r, Request(r, ids))
           /\ pending' = [pending EXCEPT ![call[r].thread] =
                            [assistant |-> call[r].assistant, ids |-> ids]]
  <2>1. runStage[r] = "running"
    BY DEF runStage, StageOf
  <2>2. Thread!Leave(call[r].thread, r)
    BY <1>1, LeavesThread DEF Tasked
  <2>3. lastAssistant[call[r].thread] = call[r].assistant
    BY DEF PendingInv, Tasked
  <2>4. Thread!Tell(call[r].thread, <<Thread!Told(r, "interrupted", {}),
                                      Thread!Told(r, "requested", ids)>>)
    BY <1>3 DEF Publish, Request, Lifecycle, Thread!Tell, Thread!Told
  <2> QED
    BY <1>3, <2>1, <2>2, <2>3, <2>4 DEF Thread!Ask
<1> QED
  BY <1>2, <1>3 DEF Settle

LEMMA ThreadsInit == Init => Thread!Init
<1> SUFFICES ASSUME Init PROVE Thread!Init
  OBVIOUS
<1>1. runStage = [r \in Runs |-> "new"]
  BY DEF Init, runStage, StageOf
<1>2. runAnswers = [r \in Runs |-> NoAnswer]
  BY <1>1 DEF runAnswers
<1>3. threadHolder = [t \in Threads |-> NoRun]
  BY DEF Init, threadHolder
<1> QED
  BY <1>1, <1>2, <1>3 DEF Init, Thread!Init

LEMMA ThreadsNext ==
  SlotInv /\ SlotInv' /\ PendingInv /\ [Next]_vars => [Thread!Next]_(Thread!threadVars)
<1> SUFFICES ASSUME SlotInv, SlotInv', PendingInv, [Next]_vars
             PROVE  Thread!Next \/ UNCHANGED Thread!threadVars
  OBVIOUS
<1>1. TypeOK /\ TypeOK'
  BY DEF SlotInv
<1>2. ASSUME UNCHANGED <<phase, active, call, pending, log, lastAssistant>>
      PROVE  UNCHANGED Thread!threadVars
  BY <1>1, <1>2, ThreadsSame
<1>3. ASSUME NEW r \in Runs, Executing(r), Goto(r, "ended"), NEW event \in Terminals,
             Publish(r, <<Lifecycle(r, event)>>),
             UNCHANGED <<active, call, lastAssistant, pending>>
      PROVE  Thread!Next
  <2>1. call[r].thread \in Threads
    BY <1>3, TaskHolds DEF Tasked
  <2>2. Thread!End(call[r].thread, r, event)
    BY <1>3, EndsThread
  <2> QED
    BY <2>1, <2>2 DEF Thread!Next, Terminals
<1>4. ASSUME NEW r \in Runs, Executing(r), NEW ids \in SUBSET Interrupts, Settle(r, ids)
      PROVE  Thread!Next
  <2>1. call[r].thread \in Threads
    BY <1>4, TaskHolds DEF Tasked
  <2>2. \/ Thread!End(call[r].thread, r, "completed")
        \/ ids # {} /\ Thread!Ask(call[r].thread, r, ids)
    BY <1>4, SettlesThread
  <2> QED
    BY <2>1, <2>2 DEF Thread!Next
<1>5. ASSUME NEW r \in Runs, Step(r) PROVE Thread!Next \/ UNCHANGED Thread!threadVars
  <2>1. ASSUME NEW t \in Threads, NEW a, NEW i, NEW c, Dispatch(r, t, a, i, c)
        PROVE  UNCHANGED Thread!threadVars
    BY <1>1, <2>1, DispatchUnseen
  <2>2. CASE \/ \E t \in Threads, a \in Assistants, c \in Config : Start(r, t, a, c)
             \/ \E t \in Threads, i \in Keys, a \in Assistants \cup {NoAssistant} :
                  Respond(r, t, i, a)
    BY <2>1, <2>2 DEF Start, Respond
  <2>3. ASSUME ResolveOk(r) PROVE Thread!Next
    <3>1. call[r].thread \in Threads /\ call[r].assistant \in Assistants
      BY <1>1, <2>3 DEF ResolveOk, TypeOK, Call
    <3>2. runAnswers'[r] \in Interrupts \cup {NoAnswer}
      BY DEF runAnswers
    <3>3. Thread!Accept(call[r].thread, r, call[r].assistant, runAnswers'[r])
      BY <2>3, AcceptsThread
    <3> QED
      BY <3>1, <3>2, <3>3 DEF Thread!Next
  <2>4. CASE StartRaises(r) \/ ResolveFail(r) \/ StartCancelled(r) \/ DoneCallback(r)
    BY <1>1, <2>4, ReleaseUnseen DEF StartRaises, ResolveFail, StartCancelled, DoneCallback
  <2>5. CASE Begin(r) \/ CancelUnstarted(r)
    <3>1. call[r].thread \in Threads
      BY <2>5, TaskHolds DEF Begin, CancelUnstarted, Tasked
    <3> QED
      BY <2>5, <3>1, BeginsThread, DropsThread DEF Thread!Next
  <2>6. CASE Message(r) \/ \E ids \in SUBSET Interrupts : Values(r, ids)
    BY <1>2, <2>6 DEF Message, Values
  <2>7. CASE StreamEnds(r)
    <3>1. CASE lastValues[r] # NoValues /\ Settle(r, lastValues[r])
      BY <1>1, <1>4, <2>7, <3>1 DEF StreamEnds, TypeOK
    <3>2. CASE Goto(r, "snapshot") /\ UNCHANGED <<active, pending, log, callVars, taskVars>>
      <4>1. \A s \in Runs : StageOf(phase'[s]) = StageOf(phase[s])
        BY <1>1, <2>7, <3>2 DEF StreamEnds, TypeOK, StageOf
      <4> QED
        BY <1>1, <3>2, <4>1, ThreadsSame
    <3> QED
      BY <2>7, <3>1, <3>2 DEF StreamEnds
  <2>8. CASE \E ids \in SUBSET Interrupts : SnapshotReturns(r, ids)
    BY <1>4, <2>8 DEF SnapshotReturns
  <2>9. CASE Fail(r) \/ Cancelled(r)
    BY <1>3, <2>9 DEF Fail, Cancelled, Terminals
  <2> QED
    BY <1>5, <2>2, <2>3, <2>4, <2>5, <2>6, <2>7, <2>8, <2>9 DEF Step
<1>6. CASE \E a \in Assistants : Register(a)
  BY <1>2, <1>6 DEF Register
<1>7. CASE \E t \in Threads, rid \in Runs \cup {NoRun} : Cancel(t, rid)
  BY <1>2, <1>7 DEF Cancel
<1>8. CASE UNCHANGED vars
  BY <1>2, <1>8 DEF vars
<1> QED
  BY <1>5, <1>6, <1>7, <1>8 DEF Next

(* The run manager implements the threads it promises (runner.py:5-18),    *)
(* for any number of threads and runs: with its reservations, callbacks    *)
(* and failed starts hidden, a thread is taken by one run at a time, in    *)
(* the step that consumes its question, and given back in the step that    *)
(* ends the run, which alone reports and asks.                             *)
THEOREM ManagerImplementsThreads == Spec => ImplementsThreads
<1>1. SlotInv /\ SlotInv' /\ PendingInv /\ [Next]_vars => [Thread!Next]_(Thread!threadVars)
  BY ThreadsNext
<1>2. Init => Thread!Init
  BY ThreadsInit
<1> QED
  BY <1>1, <1>2, PendingAlways, PTL DEF Spec, ImplementsThreads, Thread!Spec

-----------------------------------------------------------------------------
(* The log                                                                  *)

(* Only runs that have executed are in the log, each in its own thread's;  *)
(* the last entry of a thread is the executing run's, if there is one.     *)
Executed(r) == phase[r] \in {"streaming", "snapshot", "ended", "cleared"}
LogInv ==
  /\ \A t \in Threads : \A i \in 1 .. Len(log[t]) :
       Executed(log[t][i].run) /\ call[log[t][i].run].thread = t
  /\ \A r \in Runs : Executing(r) =>
       /\ log[call[r].thread] # <<>>
       /\ log[call[r].thread][Len(log[call[r].thread])].run = r
  /\ NoInterleaving

LEMMA LogInit == Init => LogInv
<1> SUFFICES ASSUME Init PROVE LogInv
  OBVIOUS
<1>1. \A t \in Threads : log[t] = <<>> /\ DOMAIN log[t] = {}
  BY DEF Init
<1> QED
  BY <1>1 DEF Init, LogInv, NoInterleaving

(* The log of a thread is a sequence of events of runs.                    *)
LEMMA LogRuns ==
  ASSUME TypeOK, NEW t \in Threads
  PROVE  /\ log[t] \in Seq(Event) /\ Len(log[t]) \in Nat
         /\ DOMAIN log[t] = 1 .. Len(log[t])
         /\ \A i \in 1 .. Len(log[t]) : log[t][i].run \in Runs
<1>1. log[t] \in Seq(Event)
  BY DEF TypeOK
<1>2. \A i \in 1 .. Len(log[t]) : log[t][i] \in Event
  BY <1>1, ElementOfSeq
<1> QED
  BY <1>1, <1>2, LenProperties DEF Event

(* What the log of every thread is after run r published es.               *)
LEMMA LogOf ==
  ASSUME TypeOK, NEW r \in Runs, phase[r] # "unused", NEW es \in Seq(Event), Publish(r, es)
  PROVE  LET t == call[r].thread IN
         /\ t \in Threads
         /\ \A u \in Threads : u # t => log'[u] = log[u]
         /\ Len(log'[t]) = Len(log[t]) + Len(es)
         /\ \A i \in 1 .. Len(log[t]) + Len(es) :
              log'[t][i] = IF i <= Len(log[t]) THEN log[t][i] ELSE es[i - Len(log[t])]
<1>1. call[r].thread \in Threads
  BY DEF TypeOK, Call
<1>2. log[call[r].thread] \in Seq(Event)
  BY <1>1 DEF TypeOK
<1>3. log'[call[r].thread] = log[call[r].thread] \o es
  BY <1>1 DEF TypeOK, Publish
<1>4. \A u \in Threads : u # call[r].thread => log'[u] = log[u]
  BY DEF TypeOK, Publish
<1> QED
  BY <1>1, <1>2, <1>3, <1>4, ConcatProperties

(* Events of a run that begins, or that has begun and so has the last      *)
(* entry, follow one another.                                              *)
LEMMA LogAppended ==
  ASSUME SlotInv, LogInv, NEW r \in Runs,
         phase[r] \in {"scheduled", "streaming", "snapshot"},
         NEW p \in {"streaming", "ended"}, Goto(r, p), UNCHANGED call,
         NEW es \in Seq(Event), es # <<>>, \A i \in 1 .. Len(es) : es[i].run = r,
         Publish(r, es)
  PROVE  LogInv'
<1> DEFINE t == call[r].thread
           n == Len(log[t])
<1>1. /\ t \in Threads /\ n \in Nat /\ Len(es) \in Nat /\ Len(es) > 0
      /\ \A u \in Threads : u # t => log'[u] = log[u]
      /\ Len(log'[t]) = n + Len(es)
      /\ \A i \in 1 .. n : log'[t][i] = log[t][i]
      /\ \A i \in n + 1 .. n + Len(es) : log'[t][i].run = r
  <2>1. Len(es) \in Nat /\ Len(es) > 0
    BY EmptySeq
  <2>2. t \in Threads /\ log[t] \in Seq(Event)
    BY DEF SlotInv, TypeOK, Call
  <2>3. n \in Nat
    BY <2>2
  <2>4. /\ \A u \in Threads : u # t => log'[u] = log[u]
        /\ Len(log'[t]) = n + Len(es)
        /\ \A i \in 1 .. n + Len(es) : log'[t][i] = IF i <= n THEN log[t][i] ELSE es[i - n]
    BY LogOf DEF SlotInv
  <2> HIDE DEF t, n
  <2>5. \A i \in n + 1 .. n + Len(es) : log'[t][i].run = r
    <3> TAKE i \in n + 1 .. n + Len(es)
    <3>1. i - n \in 1 .. Len(es) /\ i \in 1 .. n + Len(es) /\ ~(i <= n)
      BY <2>1, <2>3
    <3> QED
      BY <2>4, <3>1
  <2>6. \A i \in 1 .. n : log'[t][i] = log[t][i]
    BY <2>1, <2>3, <2>4
  <2> QED
    BY <2>1, <2>2, <2>3, <2>4, <2>5, <2>6
<1>2. phase'[r] = p /\ \A s \in Runs : s # r => phase'[s] = phase[s]
  BY DEF SlotInv, TypeOK
<1>3. \A u \in Threads : /\ log[u] \in Seq(Event) /\ Len(log[u]) \in Nat
                         /\ DOMAIN log[u] = 1 .. Len(log[u])
                         /\ \A i \in 1 .. Len(log[u]) : log[u][i].run \in Runs
  BY LogRuns DEF SlotInv
<1>4. log' \in [Threads -> Seq(Event)]
  BY PublishType DEF SlotInv
<1>5. \A u \in Threads : DOMAIN log'[u] = 1 .. Len(log'[u])
  <2> TAKE u \in Threads
  <2>1. log'[u] \in Seq(Event)
    BY <1>4
  <2> QED
    BY <2>1, LenProperties
<1> HIDE DEF t, n
<1>6. ASSUME NEW u \in Threads, NEW i \in 1 .. Len(log'[u])
      PROVE  (Executed(log[u][i].run) /\ call[log[u][i].run].thread = u)'
  <2>1. CASE u = t /\ i > n
    <3>1. log'[u][i].run = r
      BY <1>1, <2>1
    <3> QED
      BY <1>2, <2>1, <3>1 DEF Executed, t
  <2>2. CASE u # t \/ i <= n
    <3>1. i \in 1 .. Len(log[u]) /\ log'[u][i] = log[u][i]
      BY <1>1, <1>3, <2>2 DEF n
    <3>2. log[u][i].run \in Runs /\ Executed(log[u][i].run) /\ call[log[u][i].run].thread = u
      BY <1>3, <3>1 DEF LogInv
    <3> QED
      BY <1>2, <3>1, <3>2 DEF Executed
  <2> QED
    BY <1>1, <2>1, <2>2
<1>7. ASSUME NEW s \in Runs, Executing(s)'
      PROVE  /\ log'[call[s].thread] # <<>>
             /\ log'[call[s].thread][Len(log'[call[s].thread])].run = s
  <2>1. CASE s = r
    BY <1>1, <2>1 DEF t
  <2>2. CASE s # r
    <3>1. Executing(s)
      BY <1>2, <1>7, <2>2
    <3>2. call[s].thread # t /\ call[s].thread \in Threads
      BY <2>2, <3>1 DEF SlotInv, SlotsAndRunsAgree, TypeOK, Call, t
    <3> QED
      BY <1>1, <3>1, <3>2 DEF LogInv
  <2> QED
    BY <2>1, <2>2
<1>8. ASSUME NEW u \in Threads, NEW i \in 1 .. Len(log'[u]), NEW k \in 1 .. Len(log'[u]),
             i < k, log'[u][i].run = log'[u][k].run, NEW j \in i .. k
      PROVE  log'[u][j].run = log'[u][i].run
  <2>1. \A a, c \in 1 .. Len(log[u]) : a < c /\ log[u][a].run = log[u][c].run =>
          \A b \in a .. c : log[u][b].run = log[u][a].run
    BY <1>3 DEF LogInv, NoInterleaving
  <2>2. CASE u # t \/ k <= n
    <3>1. /\ \A a \in 1 .. k : a \in 1 .. Len(log[u]) /\ log'[u][a] = log[u][a]
          /\ i \in 1 .. k /\ k \in 1 .. k /\ j \in 1 .. k
      <4>1. CASE u # t
        BY <1>1, <1>3, <4>1
      <4>2. CASE u = t
        BY <1>1, <1>3, <2>2, <4>2 DEF n
      <4> QED
        BY <4>1, <4>2
    <3>2. log[u][i].run = log[u][k].run
      BY <1>8, <3>1
    <3>3. log[u][j].run = log[u][i].run
      BY <1>8, <2>1, <3>1, <3>2
    <3> QED
      BY <3>1, <3>3
  <2>3. CASE u = t /\ k > n /\ i > n
    <3>1. i \in n + 1 .. n + Len(es) /\ j \in n + 1 .. n + Len(es)
      BY <1>1, <1>8, <2>3
    <3> QED
      BY <1>1, <2>3, <3>1
  <2>4. CASE u = t /\ k > n /\ i <= n
    <3>1. i \in 1 .. n /\ n \in 1 .. n /\ log[t][i].run = r
      BY <1>1, <1>8, <2>4
    <3>2. Executed(r)
      BY <2>4, <3>1 DEF LogInv, n
    <3>3. log[t][n].run = r
      BY <3>2 DEF LogInv, Executed, t, n
    <3>4. \A b \in i .. n : log[t][b].run = r
      <4>1. CASE i = n
        BY <1>1, <3>1, <4>1
      <4>2. CASE i < n
        <5>1. i \in 1 .. Len(log[t]) /\ n \in 1 .. Len(log[t]) /\ log[t][i].run = log[t][n].run
          BY <3>1, <3>3 DEF n
        <5> QED
          BY <1>1, <2>1, <2>4, <3>1, <4>2, <5>1
      <4> QED
        BY <1>1, <3>1, <4>1, <4>2
    <3>5. CASE j <= n
      <4>1. j \in i .. n /\ j \in 1 .. n
        BY <1>1, <3>1, <3>5
      <4> QED
        BY <1>1, <2>4, <3>1, <3>4, <4>1
    <3>6. CASE j > n
      <4>1. j \in n + 1 .. n + Len(es)
        BY <1>1, <1>8, <2>4, <3>1, <3>6
      <4> QED
        BY <1>1, <2>4, <3>1, <4>1
    <3> QED
      BY <1>1, <3>1, <3>5, <3>6
  <2> QED
    BY <1>1, <2>2, <2>3, <2>4
<1>9. NoInterleaving'
  BY <1>5, <1>8 DEF NoInterleaving
<1>10. (\A u \in Threads : \A i \in 1 .. Len(log[u]) :
          Executed(log[u][i].run) /\ call[log[u][i].run].thread = u)'
  BY <1>6
<1> QED
  BY <1>7, <1>9, <1>10 DEF LogInv

(* A step that writes nothing to the log and moves a run on or ends it.    *)
LEMMA LogKept ==
  ASSUME SlotInv, LogInv, NEW r \in Runs,
         NEW p \in {"resolving", "rejected", "abandoned", "scheduled", "snapshot", "ended", "cleared"},
         Goto(r, p), UNCHANGED log, \A s \in Runs : Executed(s) => call'[s] = call[s],
         Executed(r) => p \in {"snapshot", "ended", "cleared"},
         p = "snapshot" => Executing(r)
  PROVE  LogInv'
<1>1. phase'[r] = p /\ \A s \in Runs : s # r => phase'[s] = phase[s]
  BY DEF SlotInv, TypeOK
<1>2. \A t \in Threads : \A i \in 1 .. Len(log[t]) : log[t][i].run \in Runs
  BY LogRuns DEF SlotInv
<1>3. \A s \in Runs : Executed(s) => Executed(s)'
  BY <1>1 DEF Executed
<1>4. \A s \in Runs : Executing(s)' => Executing(s) /\ Executed(s)
  BY <1>1 DEF Executed
<1>5. NoInterleaving'
  BY DEF LogInv, NoInterleaving
<1>6. (\A t \in Threads : \A i \in 1 .. Len(log[t]) :
         Executed(log[t][i].run) /\ call[log[t][i].run].thread = t)'
  BY <1>2, <1>3 DEF LogInv
<1>7. (\A s \in Runs : Executing(s) =>
         /\ log[call[s].thread] # <<>>
         /\ log[call[s].thread][Len(log[call[s].thread])].run = s)'
  BY <1>4 DEF LogInv
<1> QED
  BY <1>5, <1>6, <1>7 DEF LogInv

(* What an executing run publishes when it ends.                           *)
LEMMA LogEnded ==
  ASSUME SlotInv, LogInv, NEW r \in Runs, Executing(r), NEW status \in Terminals,
         Goto(r, "ended"), UNCHANGED call, Publish(r, <<Lifecycle(r, status)>>)
  PROVE  LogInv'
<1> DEFINE es == <<Lifecycle(r, status)>>
<1>1. Lifecycle(r, status) \in Event
  BY LifecycleType
<1>2. es \in Seq(Event) /\ es # <<>> /\ \A i \in 1 .. Len(es) : es[i].run = r
  BY <1>1 DEF Lifecycle
<1> HIDE DEF es
<1>3. Publish(r, es)
  BY DEF es
<1> QED
  BY <1>2, <1>3, LogAppended

LEMMA LogSettled ==
  ASSUME SlotInv, LogInv, NEW r \in Runs, Executing(r), NEW ids \in SUBSET Interrupts,
         Settle(r, ids)
  PROVE  LogInv'
<1>1. CASE Publish(r, Request(r, ids))
  <2> DEFINE es == Request(r, ids)
  <2>1. es \in Seq(Event)
    BY RequestType
  <2>2. es # <<>> /\ \A i \in 1 .. Len(es) : es[i].run = r
    BY DEF Request, Lifecycle
  <2> HIDE DEF es
  <2>3. Publish(r, es)
    BY <1>1 DEF es
  <2> QED
    BY <2>1, <2>2, <2>3, LogAppended DEF Settle
<1>2. CASE Publish(r, <<Lifecycle(r, "completed")>>)
  BY <1>2, LogEnded DEF Settle, Terminals
<1> QED
  BY <1>1, <1>2 DEF Settle

LEMMA LogStep == SlotInv /\ LogInv /\ [Next]_vars => LogInv'
<1> SUFFICES ASSUME SlotInv, LogInv, [Next]_vars PROVE LogInv'
  OBVIOUS
<1>1. ASSUME UNCHANGED <<phase, call, log>> PROVE LogInv'
  BY <1>1 DEF LogInv, NoInterleaving, Executed
<1>2. ASSUME NEW r \in Runs, NEW t \in Threads, NEW a, NEW i, NEW c,
             Dispatch(r, t, a, i, c)
      PROVE  LogInv'
  <2>1. phase[r] = "unused" /\ ~Executed(r) /\ UNCHANGED log
    BY <1>2 DEF Dispatch, Executed
  <2>2. \A s \in Runs : Executed(s) => call'[s] = call[s]
    BY <1>2, <2>1 DEF Dispatch, SlotInv, TypeOK
  <2> QED
    BY <1>2, <2>1, <2>2, LogKept DEF Dispatch
<1>3. ASSUME NEW r \in Runs, ResolveOk(r) PROVE LogInv'
  BY <1>3, LogKept DEF ResolveOk, Executed
<1>4. ASSUME NEW r \in Runs, ResolveFail(r) PROVE LogInv'
  BY <1>4, LogKept DEF ResolveFail, Executed
<1>5. ASSUME NEW r \in Runs, StartRaises(r) \/ StartCancelled(r) PROVE LogInv'
  BY <1>5, LogKept DEF StartRaises, StartCancelled, Executed
<1>6. ASSUME NEW r \in Runs, Begin(r) PROVE LogInv'
  <2> DEFINE es == <<Lifecycle(r, "started"), Lifecycle(r, "running")>>
  <2>1. es \in Seq(Event)
    BY LifecycleType
  <2>2. es # <<>> /\ \A i \in 1 .. Len(es) : es[i].run = r
    BY DEF Lifecycle
  <2> HIDE DEF es
  <2>3. Publish(r, es)
    BY <1>6 DEF Begin, es
  <2> QED
    BY <1>6, <2>1, <2>2, <2>3, LogAppended DEF Begin
<1>7. ASSUME NEW r \in Runs, CancelUnstarted(r) PROVE LogInv'
  BY <1>7, LogKept DEF CancelUnstarted, Executed
<1>8. ASSUME NEW r \in Runs, StreamEnds(r) PROVE LogInv'
  <2>1. CASE lastValues[r] # NoValues /\ Settle(r, lastValues[r])
    BY <1>8, <2>1, LogSettled DEF StreamEnds, SlotInv, TypeOK
  <2>2. CASE lastValues[r] = NoValues /\ Goto(r, "snapshot")
               /\ UNCHANGED <<active, pending, log, callVars, taskVars>>
    BY <1>8, <2>2, LogKept DEF StreamEnds
  <2> QED
    BY <1>8, <2>1, <2>2 DEF StreamEnds
<1>9. ASSUME NEW r \in Runs, NEW ids \in SUBSET Interrupts, SnapshotReturns(r, ids)
      PROVE LogInv'
  BY <1>9, LogSettled DEF SnapshotReturns
<1>10. ASSUME NEW r \in Runs, Fail(r) PROVE LogInv'
  BY <1>10, LogEnded DEF Fail, Terminals
<1>11. ASSUME NEW r \in Runs, Cancelled(r) PROVE LogInv'
  BY <1>11, LogEnded DEF Cancelled, Terminals
<1>12. ASSUME NEW r \in Runs, DoneCallback(r) PROVE LogInv'
  BY <1>12, LogKept DEF DoneCallback, Executed
<1>13. CASE \E r \in Runs : Step(r)
  <2> PICK r \in Runs : Step(r)
    BY <1>13
  <2>1. ASSUME NEW t \in Threads, NEW a, NEW c, Start(r, t, a, c) PROVE LogInv'
    BY <1>2, <2>1 DEF Start
  <2>2. ASSUME NEW t \in Threads, NEW i, NEW a, Respond(r, t, i, a) PROVE LogInv'
    BY <1>2, <2>2 DEF Respond
  <2>3. ASSUME Message(r) \/ \E ids : Values(r, ids) PROVE LogInv'
    BY <1>1, <2>3 DEF Message, Values
  <2> QED
    BY <1>3, <1>4, <1>5, <1>6, <1>7, <1>8, <1>9, <1>10, <1>11, <1>12, <2>1, <2>2, <2>3 DEF Step
<1>14. CASE \E a \in Assistants : Register(a)
  BY <1>1, <1>14 DEF Register
<1>15. CASE \E t \in Threads, rid \in Runs \cup {NoRun} : Cancel(t, rid)
  BY <1>1, <1>15 DEF Cancel
<1>16. CASE UNCHANGED vars
  BY <1>1, <1>16 DEF vars
<1> QED
  BY <1>13, <1>14, <1>15, <1>16 DEF Next

LEMMA LogAlways == Spec => [](SlotInv /\ PendingInv /\ LogInv)
<1>1. SlotInv /\ LogInv /\ [Next]_vars => LogInv'
  BY LogStep
<1> QED
  BY <1>1, PendingAlways, LogInit, PTL DEF Spec

(* The events of two runs of one thread never interleave: an executing run *)
(* has the last entry of its thread's log and, holding the slot, is the    *)
(* only one that appends.                                                  *)
THEOREM Attribution == Spec => []NoInterleaving
  BY LogAlways, PTL DEF LogInv

-----------------------------------------------------------------------------
(* The pending map and the log                                              *)

AnswerInv == SlotInv /\ PendingInv /\ LogInv /\ PendingIsLastRequest

LEMMA LastRequestInit == Init => PendingIsLastRequest
  BY DEF Init, PendingIsLastRequest

(* A run publishes in a thread that has nothing pending before and after.  *)
LEMMA LastRequestPublished ==
  ASSUME AnswerInv, NEW r \in Runs, Tasked(r), NEW es \in Seq(Event), Publish(r, es),
         UNCHANGED <<pending, call, lastAssistant>>
  PROVE  PendingIsLastRequest'
<1>1. phase[r] # "unused" /\ pending[call[r].thread] = NoPending
  BY DEF AnswerInv, PendingInv, Tasked
<1>2. \A t \in Threads : t # call[r].thread => log'[t] = log[t]
  BY <1>1, LogOf DEF AnswerInv, SlotInv
<1> QED
  BY <1>1, <1>2 DEF AnswerInv, PendingIsLastRequest

LEMMA LastRequestSettled ==
  ASSUME AnswerInv, NEW r \in Runs, Executing(r), NEW ids \in SUBSET Interrupts,
         Settle(r, ids)
  PROVE  PendingIsLastRequest'
<1>1. CASE /\ pending' = [pending EXCEPT ![call[r].thread] =
                            [assistant |-> call[r].assistant, ids |-> ids]]
           /\ Publish(r, Request(r, ids))
  <2> DEFINE t == call[r].thread
             es == Request(r, ids)
             n == Len(log[t])
  <2>1. es \in Seq(Event) /\ Len(es) = 2
        /\ es[2] = [run |-> r, event |-> "requested", ids |-> ids]
    BY RequestType DEF Request
  <2>2. t \in Threads /\ n \in Nat
    BY LogRuns DEF AnswerInv, SlotInv, TypeOK, Call
  <2>3. lastAssistant[t] = call[r].assistant /\ UNCHANGED <<call, lastAssistant>>
    BY DEF AnswerInv, PendingInv, Tasked, Settle
  <2>4. /\ pending'[t] = [assistant |-> call[r].assistant, ids |-> ids]
        /\ \A u \in Threads : u # t => pending'[u] = pending[u]
    BY <1>1, <2>2 DEF AnswerInv, SlotInv, TypeOK
  <2> HIDE DEF es
  <2>5. /\ \A u \in Threads : u # t => log'[u] = log[u]
        /\ Len(log'[t]) = n + Len(es)
        /\ \A i \in 1 .. n + Len(es) : log'[t][i] = IF i <= n THEN log[t][i] ELSE es[i - n]
    BY <1>1, <2>1, LogOf DEF AnswerInv, SlotInv, es
  <2> HIDE DEF t, n
  <2>6. /\ Len(log'[t]) = n + 2
        /\ log'[t][n + 2] = [run |-> r, event |-> "requested", ids |-> ids]
    <3>1. n + 2 \in 1 .. n + Len(es) /\ ~(n + 2 <= n) /\ (n + 2) - n = 2
      BY <2>1, <2>2
    <3> QED
      BY <2>1, <2>2, <2>5, <3>1
  <2>7. log'[t] # <<>> /\ Len(log'[t]) = n + 2
    BY <2>2, <2>6
  <2>8. /\ log'[t][Len(log'[t])].event = "requested"
        /\ log'[t][Len(log'[t])].ids = pending'[t].ids
        /\ call'[log'[t][Len(log'[t])].run].assistant = pending'[t].assistant
        /\ lastAssistant'[t] = pending'[t].assistant
    BY <2>3, <2>4, <2>6, <2>7
  <2> QED
    BY <2>3, <2>4, <2>5, <2>7, <2>8 DEF AnswerInv, PendingIsLastRequest
<1>2. CASE Publish(r, <<Lifecycle(r, "completed")>>) /\ UNCHANGED pending
  <2>1. <<Lifecycle(r, "completed")>> \in Seq(Event)
    BY LifecycleType DEF Terminals
  <2> QED
    BY <1>2, <2>1, LastRequestPublished DEF Settle, Tasked
<1> QED
  BY <1>1, <1>2 DEF Settle

LEMMA LastRequestStep == AnswerInv /\ [Next]_vars => PendingIsLastRequest'
<1> SUFFICES ASSUME AnswerInv, [Next]_vars PROVE PendingIsLastRequest'
  OBVIOUS
<1>1. ASSUME UNCHANGED <<pending, log, call, lastAssistant>> PROVE PendingIsLastRequest'
  BY <1>1 DEF AnswerInv, PendingIsLastRequest
<1>2. ASSUME NEW r \in Runs, NEW t \in Threads, NEW a, NEW i, NEW c,
             Dispatch(r, t, a, i, c)
      PROVE  PendingIsLastRequest'
  <2>1. /\ UNCHANGED <<pending, log, lastAssistant>>
        /\ \A s \in Runs : s # r => call'[s] = call[s]
        /\ ~Executed(r)
    BY <1>2 DEF Dispatch, AnswerInv, SlotInv, TypeOK, Executed
  <2>2. ASSUME NEW u \in Threads, log[u] # <<>>
        PROVE  log[u][Len(log[u])].run \in Runs \ {r}
    <3>1. Len(log[u]) \in 1 .. Len(log[u])
      BY <2>2, LogRuns, EmptySeq DEF AnswerInv, SlotInv
    <3> QED
      BY <2>1, <3>1, LogRuns DEF AnswerInv, SlotInv, LogInv
  <2> QED
    BY <2>1, <2>2 DEF AnswerInv, PendingIsLastRequest
<1>3. ASSUME NEW r \in Runs, ResolveOk(r) PROVE PendingIsLastRequest'
  <2>1. /\ UNCHANGED <<log, call>>
        /\ pending'[call[r].thread] = NoPending
        /\ \A u \in Threads : u # call[r].thread =>
             pending'[u] = pending[u] /\ lastAssistant'[u] = lastAssistant[u]
    BY <1>3 DEF ResolveOk, Consume, AnswerInv, SlotInv, TypeOK, Call
  <2> QED
    BY <2>1 DEF AnswerInv, PendingIsLastRequest
<1>4. ASSUME NEW r \in Runs, Begin(r) PROVE PendingIsLastRequest'
  <2>1. <<Lifecycle(r, "started"), Lifecycle(r, "running")>> \in Seq(Event)
    BY LifecycleType
  <2> QED
    BY <1>4, <2>1, LastRequestPublished DEF Begin, Tasked
<1>5. ASSUME NEW r \in Runs, StreamEnds(r) PROVE PendingIsLastRequest'
  <2>1. CASE lastValues[r] # NoValues /\ Settle(r, lastValues[r])
    BY <1>5, <2>1, LastRequestSettled DEF StreamEnds, AnswerInv, SlotInv, TypeOK
  <2>2. CASE UNCHANGED <<active, pending, log, callVars, taskVars>>
    BY <1>1, <2>2
  <2> QED
    BY <1>5, <2>1, <2>2 DEF StreamEnds
<1>6. ASSUME NEW r \in Runs, NEW ids \in SUBSET Interrupts, SnapshotReturns(r, ids)
      PROVE PendingIsLastRequest'
  BY <1>6, LastRequestSettled DEF SnapshotReturns
<1>7. ASSUME NEW r \in Runs, NEW status \in Terminals, Executing(r),
             Publish(r, <<Lifecycle(r, status)>>), UNCHANGED <<pending, call, lastAssistant>>
      PROVE PendingIsLastRequest'
  <2>1. <<Lifecycle(r, status)>> \in Seq(Event)
    BY LifecycleType
  <2> QED
    BY <1>7, <2>1, LastRequestPublished DEF Tasked
<1>8. CASE \E r \in Runs : Step(r)
  <2> PICK r \in Runs : Step(r)
    BY <1>8
  <2>1. ASSUME NEW t \in Threads, NEW a, NEW c, Start(r, t, a, c) PROVE PendingIsLastRequest'
    BY <1>2, <2>1 DEF Start
  <2>2. ASSUME NEW t \in Threads, NEW i, NEW a, Respond(r, t, i, a)
        PROVE PendingIsLastRequest'
    BY <1>2, <2>2 DEF Respond
  <2>3. ASSUME \/ StartRaises(r) \/ ResolveFail(r) \/ StartCancelled(r) \/ CancelUnstarted(r)
               \/ DoneCallback(r) \/ Message(r) \/ \E ids : Values(r, ids)
        PROVE PendingIsLastRequest'
    BY <1>1, <2>3 DEF StartRaises, ResolveFail, StartCancelled, CancelUnstarted, DoneCallback,
                      Message, Values
  <2>4. ASSUME Fail(r) \/ Cancelled(r) PROVE PendingIsLastRequest'
    BY <1>7, <2>4 DEF Fail, Cancelled, Terminals
  <2> QED
    BY <1>3, <1>4, <1>5, <1>6, <2>1, <2>2, <2>3, <2>4 DEF Step
<1>9. CASE \E a \in Assistants : Register(a)
  BY <1>1, <1>9 DEF Register
<1>10. CASE \E t \in Threads, rid \in Runs \cup {NoRun} : Cancel(t, rid)
  BY <1>1, <1>10 DEF Cancel
<1>11. CASE UNCHANGED vars
  BY <1>1, <1>11 DEF vars
<1> QED
  BY <1>8, <1>9, <1>10, <1>11 DEF Next

(* The pending map of a thread is the request its last run ended with, and *)
(* the assistant a resume would run is the one that asked, for any number  *)
(* of runs and threads.                                                    *)
THEOREM LastRequest == Spec => []PendingIsLastRequest
<1>1. /\ SlotInv /\ PendingInv /\ LogInv /\ PendingIsLastRequest /\ [Next]_vars
      => PendingIsLastRequest'
  BY LastRequestStep DEF AnswerInv
<1> QED
  BY <1>1, LogAlways, LastRequestInit, PTL DEF Spec

-----------------------------------------------------------------------------
(* Which runs leave a message open: a run closes its messages in the step  *)
(* that ends it, or publishes its request for input there; its log keeps   *)
(* that request, and a run that is over streams nothing more.              *)

(* The run is over and asked for input.                                    *)
Over(r) == phase[r] \in {"ended", "cleared"}
Asked(r) ==
  \E i \in DOMAIN log[call[r].thread] :
    log[call[r].thread][i].run = r /\ log[call[r].thread][i].event = "requested"

(* Before its task runs a run has no message.                              *)
OpenInv ==
  /\ \A r \in Runs : phase[r] \in {"unused", "resolving", "scheduled"} => ~open[r]
  /\ \A r \in Runs : Over(r) /\ open[r] => Asked(r)

(* Nothing is taken from a log, and nothing in it changes.                 *)
LogExtended ==
  \A t \in Threads : \A i \in DOMAIN log[t] : i \in DOMAIN log'[t] /\ log'[t][i] = log[t][i]

LEMMA PublishExtends ==
  ASSUME TypeOK, NEW r \in Runs, phase[r] # "unused", NEW es \in Seq(Event), Publish(r, es)
  PROVE  LogExtended
<1> DEFINE t == call[r].thread
<1>1. Len(es) \in Nat
  OBVIOUS
<1>2. /\ t \in Threads
      /\ \A u \in Threads : u # t => log'[u] = log[u]
      /\ Len(log'[t]) = Len(log[t]) + Len(es)
      /\ \A i \in 1 .. Len(log[t]) + Len(es) :
           log'[t][i] = IF i <= Len(log[t]) THEN log[t][i] ELSE es[i - Len(log[t])]
  BY LogOf
<1>3. log' \in [Threads -> Seq(Event)]
  BY PublishType
<1>4. DOMAIN log[t] = 1 .. Len(log[t]) /\ Len(log[t]) \in Nat
  BY <1>2, LogRuns
<1>5. DOMAIN log'[t] = 1 .. Len(log'[t])
  BY <1>2, <1>3
<1>6. \A i \in DOMAIN log[t] : i \in DOMAIN log'[t] /\ log'[t][i] = log[t][i]
  BY <1>1, <1>2, <1>4, <1>5
<1> HIDE DEF t
<1> QED
  BY <1>2, <1>6 DEF LogExtended

(* The request that Settle publishes is in the log after it.               *)
LEMMA RequestIsLogged ==
  ASSUME SlotInv, NEW r \in Runs, phase[r] # "unused", NEW ids \in SUBSET Interrupts,
         Publish(r, Request(r, ids)), UNCHANGED call
  PROVE  Asked(r)'
<1> DEFINE t == call[r].thread
           es == Request(r, ids)
           n == Len(log[t])
<1>1. es \in Seq(Event) /\ Len(es) = 2 /\ es[2].run = r /\ es[2].event = "requested"
  BY RequestType DEF Request
<1> HIDE DEF es
<1>2. /\ t \in Threads
      /\ Len(log'[t]) = n + Len(es)
      /\ \A i \in 1 .. n + Len(es) : log'[t][i] = IF i <= n THEN log[t][i] ELSE es[i - n]
  BY <1>1, LogOf DEF SlotInv, es
<1>3. n \in Nat
  BY <1>2, LogRuns DEF SlotInv
<1>4. log' \in [Threads -> Seq(Event)]
  BY <1>1, PublishType DEF SlotInv, es
<1>5. DOMAIN log'[t] = 1 .. Len(log'[t])
  BY <1>2, <1>4
<1> HIDE DEF t, n
<1>6. n + 2 \in 1 .. n + Len(es) /\ ~(n + 2 <= n) /\ (n + 2) - n = 2
  BY <1>1, <1>3
<1>7. n + 2 \in DOMAIN log'[t] /\ log'[t][n + 2] = es[2]
  BY <1>1, <1>2, <1>5, <1>6
<1>8. call'[r].thread = t
  BY DEF t
<1> QED
  BY <1>1, <1>7, <1>8 DEF Asked

(* A step of run r of which the others see only a longer log.              *)
LEMMA OpenKept ==
  ASSUME SlotInv, OpenInv, NEW r \in Runs,
         LogExtended, \A s \in Runs : Over(s) => call'[s] = call[s],
         \A s \in Runs : s # r => phase'[s] = phase[s] /\ open'[s] = open[s],
         phase'[r] \in {"unused", "resolving", "scheduled"} => ~open'[r],
         Over(r)' /\ open'[r] => (Over(r) /\ open[r]) \/ Asked(r)'
  PROVE  OpenInv'
<1>1. ASSUME NEW s \in Runs, Over(s), Asked(s) PROVE Asked(s)'
  <2>1. call[s].thread \in Threads /\ call'[s] = call[s]
    BY <1>1 DEF Over, SlotInv, TypeOK, Call
  <2> QED
    BY <1>1, <2>1 DEF Asked, LogExtended
<1>2. ASSUME NEW s \in Runs, Over(s)', open'[s] PROVE Asked(s)'
  <2>1. CASE s = r
    BY <1>1, <1>2, <2>1 DEF OpenInv
  <2>2. CASE s # r
    BY <1>1, <1>2, <2>2 DEF OpenInv, Over
  <2> QED
    BY <2>1, <2>2
<1>3. ASSUME NEW s \in Runs, phase'[s] \in {"unused", "resolving", "scheduled"}
      PROVE  ~open'[s]
  BY <1>3 DEF OpenInv
<1> QED
  BY <1>2, <1>3 DEF OpenInv

LEMMA OpenInitial == Init => OpenInv
  BY DEF Init, OpenInv, Over

(* A run goes on, or is over, without touching its messages or the log.    *)
LEMMA OpenMoved ==
  ASSUME SlotInv, OpenInv, NEW r \in Runs, NEW p \in Phases, Goto(r, p),
         UNCHANGED <<log, open>>, \A s \in Runs : Over(s) => call'[s] = call[s],
         p \in {"resolving", "scheduled"} => phase[r] \in {"unused", "resolving"},
         p = "ended" => phase[r] = "scheduled", p = "cleared" => phase[r] = "ended",
         p # "unused"
  PROVE  OpenInv'
<1>1. phase'[r] = p /\ \A s \in Runs : s # r => phase'[s] = phase[s]
  BY DEF SlotInv, TypeOK
<1>2. LogExtended
  BY DEF LogExtended
<1>3. phase'[r] \in {"unused", "resolving", "scheduled"} => ~open'[r]
  BY <1>1 DEF OpenInv
<1>4. Over(r)' /\ open'[r] => Over(r) /\ open[r]
  BY <1>1 DEF OpenInv, Over
<1> QED
  BY <1>1, <1>2, <1>3, <1>4, OpenKept

(* A run that executes publishes es and is over, its messages closed.      *)
LEMMA OpenClosed ==
  ASSUME SlotInv, OpenInv, NEW r \in Runs, Executing(r), Goto(r, "ended"),
         open' = FinishMessages(r), NEW es \in Seq(Event), Publish(r, es), UNCHANGED call
  PROVE  OpenInv'
<1>1. phase'[r] = "ended" /\ ~open'[r]
      /\ \A s \in Runs : s # r => phase'[s] = phase[s] /\ open'[s] = open[s]
  BY DEF FinishMessages, SlotInv, TypeOK
<1>2. LogExtended
  BY PublishExtends DEF SlotInv
<1> QED
  BY <1>1, <1>2, OpenKept

LEMMA OpenSettled ==
  ASSUME SlotInv, OpenInv, NEW r \in Runs, Executing(r), NEW ids \in SUBSET Interrupts,
         Settle(r, ids)
  PROVE  OpenInv'
<1>1. CASE Publish(r, Request(r, ids)) /\ UNCHANGED open
  <2>1. phase'[r] = "ended" /\ \A s \in Runs : s # r => phase'[s] = phase[s]
    BY DEF Settle, SlotInv, TypeOK
  <2>2. LogExtended
    BY <1>1, RequestType, PublishExtends DEF SlotInv
  <2>3. Asked(r)'
    BY <1>1, RequestIsLogged DEF Settle
  <2> QED
    BY <1>1, <2>1, <2>2, <2>3, OpenKept DEF Settle
<1>2. CASE Publish(r, <<Lifecycle(r, "completed")>>) /\ open' = FinishMessages(r)
  <2>1. <<Lifecycle(r, "completed")>> \in Seq(Event)
    BY LifecycleType DEF Terminals
  <2> QED
    BY <1>2, <2>1, OpenClosed DEF Settle
<1> QED
  BY <1>1, <1>2 DEF Settle

LEMMA OpenStep == SlotInv /\ OpenInv /\ [Next]_vars => OpenInv'
<1> SUFFICES ASSUME SlotInv, OpenInv, [Next]_vars PROVE OpenInv'
  OBVIOUS
<1>1. ASSUME UNCHANGED <<phase, call, log, open>> PROVE OpenInv'
  BY <1>1 DEF OpenInv, Over, Asked
<1>2. ASSUME NEW r \in Runs, NEW t \in Threads, NEW a, NEW i, NEW c,
             Dispatch(r, t, a, i, c)
      PROVE  OpenInv'
  <2>1. UNCHANGED <<log, open>> /\ phase[r] = "unused"
        /\ \A s \in Runs : Over(s) => call'[s] = call[s]
    BY <1>2 DEF Dispatch, Over, SlotInv, TypeOK
  <2> QED
    BY <1>2, <2>1, OpenMoved DEF Dispatch, Phases
<1>3. ASSUME NEW r \in Runs, \/ ResolveOk(r) \/ StartRaises(r) \/ ResolveFail(r)
                             \/ StartCancelled(r) \/ CancelUnstarted(r) \/ DoneCallback(r)
      PROVE  OpenInv'
  BY <1>3, OpenMoved
  DEF ResolveOk, StartRaises, ResolveFail, StartCancelled, CancelUnstarted, DoneCallback, Phases
<1>4. ASSUME NEW r \in Runs, Begin(r) PROVE OpenInv'
  <2> DEFINE es == <<Lifecycle(r, "started"), Lifecycle(r, "running")>>
  <2>1. es \in Seq(Event)
    BY LifecycleType
  <2>2. LogExtended
    BY <1>4, <2>1, PublishExtends DEF Begin, SlotInv
  <2>3. phase'[r] = "streaming" /\ \A s \in Runs : s # r => phase'[s] = phase[s]
    BY <1>4 DEF Begin, SlotInv, TypeOK
  <2> QED
    BY <1>4, <2>2, <2>3, OpenKept DEF Begin, Over
<1>5. ASSUME NEW r \in Runs, Message(r) PROVE OpenInv'
  <2>1. /\ phase'[r] = "streaming" /\ UNCHANGED <<phase, call, log>>
        /\ \A s \in Runs : s # r => open'[s] = open[s]
    BY <1>5 DEF Message, SlotInv, TypeOK
  <2>2. LogExtended
    BY <2>1 DEF LogExtended
  <2> QED
    BY <2>1, <2>2, OpenKept DEF Over
<1>6. ASSUME NEW r \in Runs, StreamEnds(r) PROVE OpenInv'
  <2>1. CASE lastValues[r] # NoValues /\ Settle(r, lastValues[r])
    BY <1>6, <2>1, OpenSettled DEF StreamEnds, SlotInv, TypeOK
  <2>2. CASE Goto(r, "snapshot") /\ UNCHANGED <<active, pending, log, callVars, taskVars>>
    BY <2>2, OpenMoved DEF Phases
  <2> QED
    BY <1>6, <2>1, <2>2 DEF StreamEnds
<1>7. ASSUME NEW r \in Runs, NEW ids \in SUBSET Interrupts, SnapshotReturns(r, ids)
      PROVE  OpenInv'
  BY <1>7, OpenSettled DEF SnapshotReturns
<1>8. ASSUME NEW r \in Runs, Fail(r) \/ Cancelled(r) PROVE OpenInv'
  <2>1. PICK status \in Terminals : Publish(r, <<Lifecycle(r, status)>>)
    BY <1>8 DEF Fail, Cancelled, Terminals
  <2>2. <<Lifecycle(r, status)>> \in Seq(Event)
    BY LifecycleType
  <2> QED
    BY <1>8, <2>1, <2>2, OpenClosed DEF Fail, Cancelled
<1>9. CASE \E r \in Runs : Step(r)
  <2> PICK r \in Runs : Step(r)
    BY <1>9
  <2>1. ASSUME NEW t \in Threads, NEW a, NEW c, Start(r, t, a, c) PROVE OpenInv'
    BY <1>2, <2>1 DEF Start
  <2>2. ASSUME NEW t \in Threads, NEW i, NEW a, Respond(r, t, i, a) PROVE OpenInv'
    BY <1>2, <2>2 DEF Respond
  <2>3. ASSUME NEW ids, Values(r, ids) PROVE OpenInv'
    BY <1>1, <2>3 DEF Values
  <2> QED
    BY <1>3, <1>4, <1>5, <1>6, <1>7, <1>8, <2>1, <2>2, <2>3 DEF Step
<1>10. CASE \E a \in Assistants : Register(a)
  BY <1>1, <1>10 DEF Register
<1>11. CASE \E t \in Threads, rid \in Runs \cup {NoRun} : Cancel(t, rid)
  BY <1>1, <1>11 DEF Cancel
<1>12. CASE UNCHANGED vars
  BY <1>1, <1>12 DEF vars
<1> QED
  BY <1>9, <1>10, <1>11, <1>12 DEF Next

(* A run that failed, was cancelled or completed has closed the message it *)
(* was streaming (translator.finish(None) on those paths of _execute); one *)
(* that left a message open asked for input.                               *)
THEOREM Closing == Spec => []EndedRunsCloseMessages
<1>1. SlotInv /\ OpenInv /\ [Next]_vars => OpenInv'
  BY OpenStep
<1>2. OpenInv => EndedRunsCloseMessages
  BY DEF OpenInv, Over, Asked, EndedRunsCloseMessages
<1> QED
  BY <1>1, <1>2, SlotAlways, OpenInitial, PTL DEF Spec

-----------------------------------------------------------------------------
(* What a run reports: the events of a run are a fold over its thread's    *)
(* log, to which a step adds at its end.                                   *)

AddOwn(r, seen, e) == IF e.run = r THEN Append(seen, e.event) ELSE seen
OwnFold == INSTANCE FoldFacts WITH op <- AddOwn
Seen(r, q) == OwnFold!Fold(r, <<>>, q, DOMAIN q)

LEMMA EventsAreSeen ==
  ASSUME NEW r, phase[r] # "unused" PROVE EventsOf(r) = Seen(r, log[call[r].thread])
  BY DEF EventsOf, Seen, FoldLeft, MapThenFoldSet, Max, OwnFold!Fold, OwnFold!Largest, AddOwn

LEMMA SeenMore ==
  ASSUME NEW r, NEW q \in Seq(Event), NEW e \in Event
  PROVE  Seen(r, Append(q, e)) = IF e.run = r THEN Append(Seen(r, q), e.event) ELSE Seen(r, q)
<1>1. Seen(r, Append(q, e)) = AddOwn(r, Seen(r, q), e)
  BY OwnFold!FoldAppend DEF Seen
<1> QED
  BY <1>1 DEF AddOwn

LEMMA SeenNone ==
  ASSUME NEW r, NEW q \in Seq(Event), \A i \in 1 .. Len(q) : q[i].run # r
  PROVE  Seen(r, q) = <<>>
<1> DEFINE D == DOMAIN q
           J == (SUBSET D) \X {<<>>}
<1>1. Len(q) \in Nat /\ D = 1 .. Len(q) /\ D \subseteq 0 .. Len(q)
  OBVIOUS
<1>2. <<{}, <<>>>> \in J
  OBVIOUS
<1>3. OwnFold!Keeps(r, q, D, J)
  BY <1>1 DEF OwnFold!Keeps, AddOwn
<1>4. <<D, Seen(r, q)>> \in J
  <2> HIDE DEF J, D
  <2>1. <<D, OwnFold!Fold(r, <<>>, q, D)>> \in J
    BY <1>1, <1>2, <1>3, OwnFold!FoldKeeps
  <2> QED
    BY <2>1 DEF Seen, D
<1> QED
  BY <1>4

(* An entry, or two, of run x.                                             *)
LEMMA SeenOne ==
  ASSUME NEW r, NEW q \in Seq(Event), NEW a \in Event
  PROVE  Seen(r, q \o <<a>>) = IF r = a.run THEN Append(Seen(r, q), a.event) ELSE Seen(r, q)
<1>1. q \o <<a>> = Append(q, a)
  OBVIOUS
<1>2. Seen(r, Append(q, a)) = IF a.run = r THEN Append(Seen(r, q), a.event) ELSE Seen(r, q)
  BY SeenMore
<1>3. Seen(r, q \o <<a>>) = Seen(r, Append(q, a))
  BY <1>1
<1> QED
  BY <1>2, <1>3

LEMMA SeenTwo ==
  ASSUME NEW r, NEW q \in Seq(Event), NEW a \in Event, NEW b \in Event, b.run = a.run
  PROVE  Seen(r, q \o <<a, b>>) =
           IF r = a.run THEN Append(Append(Seen(r, q), a.event), b.event) ELSE Seen(r, q)
<1>1. Append(q, a) \in Seq(Event) /\ q \o <<a, b>> = Append(Append(q, a), b)
  OBVIOUS
<1>2. Seen(r, Append(q, a)) = IF r = a.run THEN Append(Seen(r, q), a.event) ELSE Seen(r, q)
  BY SeenMore
<1>3. Seen(r, Append(Append(q, a), b)) =
        IF r = a.run THEN Append(Seen(r, Append(q, a)), b.event) ELSE Seen(r, Append(q, a))
  BY <1>1, SeenMore
<1> QED
  BY <1>1, <1>2, <1>3

LEMMA AppendToOne ==
  ASSUME NEW a, NEW b PROVE Append(<<a>>, b) = <<a, b>>
<1> DEFINE S == {a, b}
<1>1. a \in S /\ b \in S
  OBVIOUS
<1> HIDE DEF S
<1>2. <<a>> \in Seq(S) /\ <<a, b>> \in Seq(S) /\ Append(<<a>>, b) \in Seq(S)
  BY <1>1
<1>3. Len(<<a>>) = 1 /\ Len(<<a, b>>) = 2 /\ Len(Append(<<a>>, b)) = 2
  BY <1>1, <1>2
<1>4. \A i \in 1 .. 2 : Append(<<a>>, b)[i] = <<a, b>>[i]
  BY <1>1, <1>2, <1>3
<1> QED
  BY <1>2, <1>3, <1>4, SeqEqual

(* A run reports what its phase allows; it asks the checkpointer only when *)
(* it streamed no values.                                                  *)
TraceInv ==
  \A r \in Runs :
    /\ phase[r] # "unused" =>
         Seen(r, log[call[r].thread]) \in Reports(phase[r], cancelReq[r], lastValues[r])
    /\ phase[r] = "snapshot" => lastValues[r] = NoValues

LEMMA TraceInit == Init => TraceInv
  BY DEF Init, TraceInv

(* Until a run is over, neither its cancellation nor its values matter.    *)
LEMMA ReportsBefore ==
  ASSUME NEW p, p \notin {"ended", "cleared"}, NEW c, NEW v
  PROVE  Reports(p, c, v) = IF p \in {"streaming", "snapshot"} THEN {<<"started", "running">>}
                            ELSE {<<>>}
  BY DEF Reports

LEMMA ReportsAfter ==
  ASSUME NEW c, NEW v
  PROVE  Reports("ended", c, v) = Reports("cleared", c, v)
  BY DEF Reports

LEMMA ReportsNothing ==
  ASSUME NEW v PROVE <<>> \in Reports("ended", TRUE, v)
  BY DEF Reports

LEMMA ReportsEnding ==
  ASSUME NEW c, NEW v, NEW e \in Endings(c, v)
  PROVE  <<"started", "running">> \o e \in Reports("ended", c, v)
<1> DEFINE pre == <<"started", "running">>
<1>1. Reports("ended", c, v) = {pre \o d : d \in Endings(c, v)} \cup {d \in {<<>>} : c}
  BY DEF Reports
<1> HIDE DEF pre
<1>2. pre \o e \in Reports("ended", c, v)
  BY <1>1
<1> QED
  BY <1>2 DEF pre

(* A step of run x that does not change why it ends.                       *)
LEMMA TracePublished ==
  ASSUME SlotInv, TraceInv, UNCHANGED <<call, cancelReq, lastValues>>,
         NEW x \in Runs, phase[x] # "unused",
         NEW p, p \notin {"unused", "snapshot"}, Goto(x, p),
         NEW es \in Seq(Event), Publish(x, es),
         \A r \in Runs : r # x =>
           Seen(r, log[call[x].thread] \o es) = Seen(r, log[call[x].thread]),
         Seen(x, log[call[x].thread] \o es) \in Reports(p, cancelReq[x], lastValues[x])
  PROVE  TraceInv'
<1> DEFINE t == call[x].thread
<1>1. /\ t \in Threads /\ log'[t] = log[t] \o es
      /\ \A u \in Threads : u # t => log'[u] = log[u]
      /\ phase'[x] = p /\ \A r \in Runs : r # x => phase'[r] = phase[r]
      /\ \A r \in Runs : phase[r] # "unused" => call[r].thread \in Threads
      /\ call' = call
  BY DEF SlotInv, TypeOK, Call, Publish
<1>2. ASSUME NEW r \in Runs, phase'[r] # "unused"
      PROVE  Seen(r, log'[call'[r].thread]) \in Reports(phase'[r], cancelReq[r], lastValues[r])
  <2>1. CASE r = x
    BY <1>1, <2>1
  <2>2. CASE r # x
    <3>1. phase'[r] = phase[r] /\ phase[r] # "unused"
      BY <1>1, <1>2, <2>2
    <3>2. Seen(r, log[call[r].thread]) \in Reports(phase[r], cancelReq[r], lastValues[r])
      BY <3>1 DEF TraceInv
    <3>3. Seen(r, log'[call[r].thread]) = Seen(r, log[call[r].thread])
      <4>1. CASE call[r].thread = t
        BY <1>1, <2>2, <4>1
      <4>2. CASE call[r].thread # t
        BY <1>1, <3>1, <4>2
      <4> QED
        BY <4>1, <4>2
    <3> QED
      BY <1>1, <3>1, <3>2, <3>3
  <2> QED
    BY <2>1, <2>2
<1> QED
  BY <1>1, <1>2 DEF TraceInv

(* The end of a run with one event, one that its end calls for.            *)
LEMMA TraceEnded ==
  ASSUME SlotInv, TraceInv, UNCHANGED <<call, cancelReq, lastValues>>,
         NEW x \in Runs, Executing(x), Goto(x, "ended"),
         NEW status \in Terminals, Publish(x, <<Lifecycle(x, status)>>),
         <<status>> \in Endings(cancelReq[x], lastValues[x])
  PROVE  TraceInv'
<1> DEFINE e == Lifecycle(x, status)
           q == log[call[x].thread]
<1>1. e \in Event /\ e.run = x /\ e.event = status /\ <<e>> \in Seq(Event)
  BY LifecycleType DEF Lifecycle
<1>2. q \in Seq(Event)
  BY DEF SlotInv, TypeOK, Call
<1>3. Seen(x, q) = <<"started", "running">>
  BY ReportsBefore DEF TraceInv
<1> HIDE DEF e, q
<1>4. /\ \A r \in Runs : r # x => Seen(r, q \o <<e>>) = Seen(r, q)
      /\ Seen(x, q \o <<e>>) = Append(Seen(x, q), status)
  <2>1. \A r : Seen(r, q \o <<e>>) = IF r = e.run THEN Append(Seen(r, q), e.event) ELSE Seen(r, q)
    BY <1>1, <1>2, SeenOne
  <2> QED
    BY <1>1, <2>1
<1>5. Append(<<"started", "running">>, status) = <<"started", "running">> \o <<status>>
  OBVIOUS
<1>6. Seen(x, q \o <<e>>) \in Reports("ended", cancelReq[x], lastValues[x])
  <2>1. <<"started", "running">> \o <<status>>
          \in Reports("ended", cancelReq[x], lastValues[x])
    BY ReportsEnding
  <2>2. Seen(x, q \o <<e>>) = <<"started", "running">> \o <<status>>
    BY <1>3, <1>4, <1>5, Zenon
  <2> QED
    BY <2>1, <2>2, Zenon
<1> QED
  BY <1>1, <1>4, <1>6, TracePublished DEF e, q

LEMMA TraceAsked ==
  ASSUME SlotInv, TraceInv, UNCHANGED <<call, cancelReq, lastValues>>,
         NEW x \in Runs, Executing(x), Goto(x, "ended"),
         NEW ids \in SUBSET Interrupts, Publish(x, Request(x, ids)),
         <<"interrupted", "requested">> \in Endings(cancelReq[x], lastValues[x])
  PROVE  TraceInv'
<1> DEFINE a == Lifecycle(x, "interrupted")
           b == [run |-> x, event |-> "requested", ids |-> ids]
           q == log[call[x].thread]
<1>1. /\ a \in Event /\ a.run = x /\ a.event = "interrupted"
      /\ b \in Event /\ b.run = x /\ b.event = "requested"
  BY LifecycleType DEF Lifecycle, Terminals, Event
<1>2. q \in Seq(Event) /\ Request(x, ids) = <<a, b>> /\ <<a, b>> \in Seq(Event)
  BY <1>1 DEF SlotInv, TypeOK, Call, Request
<1>3. Seen(x, q) = <<"started", "running">>
  BY ReportsBefore DEF TraceInv
<1> HIDE DEF a, b, q
<1>4. /\ \A r \in Runs : r # x => Seen(r, q \o <<a, b>>) = Seen(r, q)
      /\ Seen(x, q \o <<a, b>>) = Append(Append(Seen(x, q), "interrupted"), "requested")
  <2>1. \A r : Seen(r, q \o <<a, b>>) =
                IF r = a.run THEN Append(Append(Seen(r, q), a.event), b.event) ELSE Seen(r, q)
    BY <1>1, <1>2, SeenTwo
  <2> QED
    BY <1>1, <2>1
<1>5. Append(Append(<<"started", "running">>, "interrupted"), "requested")
        = <<"started", "running">> \o <<"interrupted", "requested">>
  OBVIOUS
<1>6. Seen(x, q \o <<a, b>>) \in Reports("ended", cancelReq[x], lastValues[x])
  <2>1. <<"started", "running">> \o <<"interrupted", "requested">>
          \in Reports("ended", cancelReq[x], lastValues[x])
    BY ReportsEnding
  <2>2. Seen(x, q \o <<a, b>>) = <<"started", "running">> \o <<"interrupted", "requested">>
    BY <1>3, <1>4, <1>5, Zenon
  <2> QED
    BY <2>1, <2>2, Zenon
<1> QED
  BY <1>2, <1>4, <1>6, TracePublished DEF q

LEMMA TraceSettled ==
  ASSUME SlotInv, TraceInv, NEW r \in Runs, Executing(r), NEW ids \in SUBSET Interrupts,
         Settle(r, ids),
         \/ ~cancelReq[r] /\ lastValues[r] = ids
         \/ lastValues[r] = NoValues /\ (~cancelReq[r] \/ ids = {})
  PROVE  TraceInv'
<1>0. {} # NoValues
  BY NullAssumption
<1>1. CASE ids # {} /\ Publish(r, Request(r, ids))
  <2>1. <<"interrupted", "requested">> \in Endings(cancelReq[r], lastValues[r])
    BY <1>0, <1>1 DEF Endings
  <2> QED
    BY <1>1, <2>1, TraceAsked DEF Settle
<1>2. CASE ids = {} /\ Publish(r, <<Lifecycle(r, "completed")>>)
  <2>1. <<"completed">> \in Endings(cancelReq[r], lastValues[r])
    BY <1>2 DEF Endings
  <2> QED
    BY <1>2, <2>1, TraceEnded DEF Settle, Terminals
<1> QED
  BY <1>1, <1>2 DEF Settle

LEMMA TraceBegun ==
  ASSUME SlotInv, TraceInv, NEW x \in Runs, Begin(x)
  PROVE  TraceInv'
<1> DEFINE a == Lifecycle(x, "started")
           b == Lifecycle(x, "running")
           q == log[call[x].thread]
<1>1. /\ a \in Event /\ a.run = x /\ a.event = "started"
      /\ b \in Event /\ b.run = x /\ b.event = "running"
  BY LifecycleType DEF Lifecycle
<1>2. q \in Seq(Event) /\ <<a, b>> \in Seq(Event) /\ Publish(x, <<a, b>>)
  BY <1>1 DEF SlotInv, TypeOK, Call, Begin
<1>3. Seen(x, q) = <<>>
  BY ReportsBefore DEF TraceInv, Begin
<1> HIDE DEF a, b, q
<1>4. /\ \A r \in Runs : r # x => Seen(r, q \o <<a, b>>) = Seen(r, q)
      /\ Seen(x, q \o <<a, b>>) = Append(Append(Seen(x, q), "started"), "running")
  <2>1. \A r : Seen(r, q \o <<a, b>>) =
                IF r = a.run THEN Append(Append(Seen(r, q), a.event), b.event) ELSE Seen(r, q)
    BY <1>1, <1>2, SeenTwo
  <2> QED
    BY <1>1, <2>1
<1>5. Append(Append(<<>>, "started"), "running") = <<"started", "running">>
  BY AppendToOne
<1>6. Seen(x, q \o <<a, b>>) \in Reports("streaming", cancelReq[x], lastValues[x])
  BY <1>3, <1>4, <1>5, ReportsBefore
<1> QED
  BY <1>2, <1>4, <1>6, TracePublished DEF q, Begin

(* A step of run x that publishes nothing.                                 *)
LEMMA TraceMoved ==
  ASSUME SlotInv, TraceInv, NEW x \in Runs, NEW p, Goto(x, p),
         UNCHANGED <<log, call, cancelReq, lastValues>>,
         phase[x] # "unused", p = "snapshot" => lastValues[x] = NoValues,
         Reports(phase[x], cancelReq[x], lastValues[x])
           \subseteq Reports(p, cancelReq[x], lastValues[x])
  PROVE  TraceInv'
<1>1. phase'[x] = p /\ \A r \in Runs : r # x => phase'[r] = phase[r]
  BY DEF SlotInv, TypeOK
<1> QED
  BY <1>1 DEF TraceInv

(* A run that starts has nothing in the log yet.                           *)
LEMMA TraceDispatched ==
  ASSUME SlotInv, LogInv, TraceInv, NEW x \in Runs, NEW t \in Threads, NEW a, NEW i, NEW c,
         Dispatch(x, t, a, i, c)
  PROVE  TraceInv'
<1>1. /\ phase[x] = "unused" /\ phase'[x] \in {"resolving", "rejected"} /\ call'[x].thread = t
      /\ UNCHANGED <<log, cancelReq, lastValues>>
      /\ \A r \in Runs : r # x => phase'[r] = phase[r] /\ call'[r] = call[r]
  BY DEF Dispatch, SlotInv, TypeOK
<1>2. log[t] \in Seq(Event) /\ \A k \in 1 .. Len(log[t]) : log[t][k].run # x
  BY <1>1 DEF SlotInv, TypeOK, LogInv, Executed
<1>3. Seen(x, log[t]) = <<>>
  BY <1>2, SeenNone
<1>4. Reports(phase'[x], cancelReq[x], lastValues[x]) = {<<>>}
  BY <1>1, ReportsBefore
<1> QED
  BY <1>1, <1>3, <1>4 DEF TraceInv

LEMMA TraceStep == SlotInv /\ LogInv /\ TraceInv /\ [Next]_vars => TraceInv'
<1> SUFFICES ASSUME SlotInv, LogInv, TraceInv, [Next]_vars PROVE TraceInv'
  OBVIOUS
<1>1. ASSUME UNCHANGED <<phase, call, log>>,
             \A r \in Runs : phase[r] \in {"ended", "cleared"} => cancelReq'[r] = cancelReq[r],
             \A r \in Runs : phase[r] # "streaming" => lastValues'[r] = lastValues[r]
      PROVE  TraceInv'
  <2> SUFFICES ASSUME NEW r \in Runs
               PROVE  /\ phase[r] # "unused" =>
                           Seen(r, log[call[r].thread])
                             \in Reports(phase[r], cancelReq'[r], lastValues'[r])
                      /\ phase[r] = "snapshot" => lastValues'[r] = NoValues
    BY <1>1 DEF TraceInv
  <2>1. Reports(phase[r], cancelReq'[r], lastValues'[r])
          = Reports(phase[r], cancelReq[r], lastValues[r])
    <3>1. CASE phase[r] \in {"ended", "cleared"}
      BY <1>1, <3>1
    <3>2. CASE phase[r] \notin {"ended", "cleared"}
      BY <3>2, ReportsBefore
    <3> QED
      BY <3>1, <3>2
  <2> QED
    BY <1>1, <2>1 DEF TraceInv
<1>2. ASSUME NEW r \in Runs, \/ ResolveOk(r) \/ StartRaises(r) \/ ResolveFail(r)
                             \/ StartCancelled(r) \/ CancelUnstarted(r) \/ DoneCallback(r)
      PROVE  TraceInv'
  <2>1. PICK p \in {"scheduled", "rejected", "abandoned", "ended", "cleared"} :
          /\ Goto(r, p) /\ UNCHANGED <<log, call, cancelReq, lastValues>>
          /\ \/ phase[r] = "resolving" /\ p \notin {"ended", "cleared"}
             \/ phase[r] = "scheduled" /\ p = "ended" /\ cancelReq[r]
             \/ phase[r] = "ended" /\ p = "cleared"
    BY <1>2 DEF ResolveOk, StartRaises, ResolveFail, StartCancelled, CancelUnstarted,
                DoneCallback
  <2>2. Reports(phase[r], cancelReq[r], lastValues[r])
          \subseteq Reports(p, cancelReq[r], lastValues[r])
    <3>1. CASE phase[r] = "resolving" /\ p \notin {"ended", "cleared"}
      BY <2>1, <3>1, ReportsBefore
    <3>2. CASE phase[r] = "scheduled" /\ p = "ended" /\ cancelReq[r]
      <4>1. cancelReq[r] = TRUE
        BY <3>2 DEF SlotInv, TypeOK
      <4>2. Reports("scheduled", cancelReq[r], lastValues[r]) = {<<>>}
        BY ReportsBefore
      <4> QED
        BY <3>2, <4>1, <4>2, ReportsNothing
    <3>3. CASE phase[r] = "ended" /\ p = "cleared"
      BY <3>3, ReportsAfter
    <3> QED
      BY <2>1, <3>1, <3>2, <3>3
  <2> QED
    BY <2>1, <2>2, TraceMoved
<1>3. ASSUME NEW r \in Runs, StreamEnds(r) PROVE TraceInv'
  <2>1. CASE lastValues[r] # NoValues /\ Settle(r, lastValues[r])
    BY <1>3, <2>1, TraceSettled DEF StreamEnds, SlotInv, TypeOK
  <2>2. CASE lastValues[r] = NoValues /\ Goto(r, "snapshot")
               /\ UNCHANGED <<active, pending, log, callVars, taskVars>>
    <3>1. Reports("streaming", cancelReq[r], lastValues[r])
            = Reports("snapshot", cancelReq[r], lastValues[r])
      BY ReportsBefore
    <3> QED
      BY <1>3, <2>2, <3>1, TraceMoved DEF StreamEnds
  <2> QED
    BY <1>3, <2>1, <2>2 DEF StreamEnds
<1>4. ASSUME NEW r \in Runs, NEW ids \in SUBSET Interrupts, SnapshotReturns(r, ids)
      PROVE  TraceInv'
  BY <1>4, TraceSettled DEF SnapshotReturns, TraceInv
<1>5. ASSUME NEW r \in Runs, Fail(r) \/ Cancelled(r) PROVE TraceInv'
  <2>1. Executing(r) /\ Goto(r, "ended") /\ UNCHANGED <<call, cancelReq, lastValues>>
    BY <1>5 DEF Fail, Cancelled
  <2>2. PICK status \in Terminals : /\ Publish(r, <<Lifecycle(r, status)>>)
                                    /\ <<status>> \in Endings(cancelReq[r], lastValues[r])
    BY <1>5 DEF Fail, Cancelled, Terminals, Endings
  <2> QED
    BY <2>1, <2>2, TraceEnded
<1>6. CASE \E r \in Runs : Step(r)
  <2> PICK r \in Runs : Step(r)
    BY <1>6
  <2>1. ASSUME NEW t \in Threads, NEW a, NEW c, Start(r, t, a, c) PROVE TraceInv'
    BY <2>1, TraceDispatched DEF Start
  <2>2. ASSUME NEW t \in Threads, NEW i, NEW a, Respond(r, t, i, a) PROVE TraceInv'
    BY <2>2, TraceDispatched DEF Respond
  <2>3. ASSUME NEW ids, Values(r, ids) \/ Message(r) PROVE TraceInv'
    BY <1>1, <2>3 DEF Values, Message, SlotInv, TypeOK
  <2> QED
    BY <1>2, <1>3, <1>4, <1>5, TraceBegun, <2>1, <2>2, <2>3 DEF Step
<1>7. CASE \E a \in Assistants : Register(a)
  BY <1>1, <1>7 DEF Register
<1>8. CASE \E t \in Threads, rid \in Runs \cup {NoRun} : Cancel(t, rid)
  BY <1>1, <1>8 DEF Cancel, SlotInv, TypeOK
<1>9. CASE UNCHANGED vars
  BY <1>1, <1>9 DEF vars
<1> QED
  BY <1>6, <1>7, <1>8, <1>9 DEF Next

(* A run that executed reports started, running and exactly one end, the   *)
(* one that its cancellation, its exception or its last values call for; a *)
(* run that never executed reports nothing, and if it had a task it was    *)
(* cancelled (runner.py:6-7).                                              *)
THEOREM Lifecycles == Spec => []LifecycleTrace
<1>1. SlotInv /\ LogInv /\ TraceInv /\ [Next]_vars => TraceInv'
  BY TraceStep
<1>2. TraceInv => LifecycleTrace
  <2> SUFFICES ASSUME TraceInv, NEW r \in Runs
               PROVE  EventsOf(r) \in Reports(phase[r], cancelReq[r], lastValues[r])
    BY DEF LifecycleTrace
  <2>1. CASE phase[r] = "unused"
    BY <2>1, ReportsBefore DEF EventsOf
  <2>2. CASE phase[r] # "unused"
    BY <2>2, EventsAreSeen DEF TraceInv
  <2> QED
    BY <2>1, <2>2
<1> QED
  BY <1>1, <1>2, LogAlways, TraceInit, PTL DEF Spec
=============================================================================
