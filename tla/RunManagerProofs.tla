-------------------------- MODULE RunManagerProofs --------------------------
(***************************************************************************)
(* Proofs about RunManager, for any threads, runs, assistants and          *)
(* interrupts.                                                             *)
(***************************************************************************)
EXTENDS RunManager, SequenceTheorems, TLAPS

USE DEF Live, Executing, Keys, Goto, callVars, taskVars

(* The variables of a start's call have the shape the code gives them.     *)
LEMMA TypeInit == Init => TypeOK
  BY NullAssumption DEF Init, TypeOK, Phases, Call, Pending, Event

LEMMA DispatchType ==
  ASSUME TypeOK, NEW r \in Runs, NEW t \in Threads, NEW a \in Assistants,
         NEW i \in Keys \cup {NoAnswer}, NEW c \in Config, Dispatch(r, t, a, i, c)
  PROVE  TypeOK'
<1> DEFINE new == [thread |-> t, assistant |-> a, answers |-> i, config |-> c]
<1>1. new \in Call
  BY DEF Call
<1>2. call' = [call EXCEPT ![r] = new]
  BY DEF Dispatch
<1> HIDE DEF new
<1>3. call' \in [Runs -> Call \cup {NoCall}]
  BY <1>1, <1>2 DEF TypeOK
<1>4. phase' \in [Runs -> Phases] /\ \A s \in Runs : s # r => phase'[s] = phase[s]
  BY DEF TypeOK, Dispatch, Phases
<1>5. \A s \in Runs : phase'[s] # "unused" => call'[s] \in Call
  BY <1>1, <1>2, <1>4 DEF TypeOK
<1>6. active' \in [Threads -> Runs \cup {NoRun}]
  BY DEF TypeOK, Dispatch
<1> QED
  BY <1>3, <1>4, <1>5, <1>6 DEF TypeOK, Dispatch

LEMMA NoConfigType == \A t \in Threads : NoConfig(t) \in Config
  BY DEF NoConfig, Config

LEMMA PublishType ==
  ASSUME TypeOK, NEW r \in Runs, phase[r] # "unused", NEW es \in Seq(Event), Publish(r, es)
  PROVE  log' \in [Threads -> Seq(Event)]
  BY ConcatProperties DEF TypeOK, Publish, Call

LEMMA LifecycleType ==
  ASSUME NEW r \in Runs, NEW status \in Terminals \cup {"started", "running"}
  PROVE  Lifecycle(r, status) \in Event
  BY DEF Lifecycle, Event

LEMMA RequestType ==
  ASSUME NEW r \in Runs, NEW ids \in SUBSET Interrupts
  PROVE  Request(r, ids) \in Seq(Event)
<1>1. Lifecycle(r, "interrupted") \in Event
  BY LifecycleType DEF Terminals
<1>2. [run |-> r, event |-> "requested", ids |-> ids] \in Event
  BY DEF Event
<1> QED
  BY <1>1, <1>2 DEF Request

LEMMA SettleType ==
  ASSUME TypeOK, NEW r \in Runs, phase[r] # "unused", NEW ids \in SUBSET Interrupts, Settle(r, ids)
  PROVE  TypeOK'
<1>1. call[r] \in Call
  BY DEF TypeOK
<1>2. phase' \in [Runs -> Phases] /\ \A s \in Runs : s # r => phase'[s] = phase[s]
  BY DEF TypeOK, Settle, Phases
<1>3. pending' \in [Threads -> Pending \cup {NoPending}]
  <2>1. [assistant |-> call[r].assistant, ids |-> ids] \in Pending
    BY <1>1 DEF Call, Pending
  <2> QED
    BY <2>1 DEF TypeOK, Settle
<1>4. log' \in [Threads -> Seq(Event)]
  <2>1. <<Lifecycle(r, "completed")>> \in Seq(Event)
    BY LifecycleType DEF Terminals
  <2> QED
    BY <2>1, RequestType, PublishType DEF Settle
<1>5. open' \in [Runs -> BOOLEAN]
  BY DEF TypeOK, Settle, FinishMessages
<1> QED
  BY <1>1, <1>2, <1>3, <1>4, <1>5 DEF TypeOK, Settle

(* Every step keeps the shape of every variable.                           *)
LEMMA TypeStep == TypeOK /\ [Next]_vars => TypeOK'
<1> SUFFICES ASSUME TypeOK, [Next]_vars PROVE TypeOK'
  OBVIOUS
<1>1. ASSUME NEW a \in Assistants, Register(a) PROVE TypeOK'
  BY <1>1 DEF TypeOK, Register
<1>2. ASSUME NEW t \in Threads, NEW rid \in Runs \cup {NoRun}, Cancel(t, rid) PROVE TypeOK'
  BY <1>2 DEF TypeOK, Cancel
<1>3. ASSUME NEW r \in Runs, NEW t \in Threads, NEW a \in Assistants, NEW c \in Config,
             Start(r, t, a, c)
      PROVE TypeOK'
  BY <1>3, DispatchType DEF Start
<1>4. ASSUME NEW r \in Runs, NEW t \in Threads, NEW i \in Keys,
             NEW a \in Assistants \cup {NoAssistant}, Respond(r, t, i, a)
      PROVE TypeOK'
  <2>1. pending[t] # NoPending => pending[t].assistant \in Assistants
    BY DEF TypeOK, Pending
  <2> QED
    BY <1>4, <2>1, DispatchType, NoConfigType DEF Respond, Accepts
<1>5. ASSUME NEW r \in Runs, ResolveOk(r) PROVE TypeOK'
  BY <1>5 DEF TypeOK, ResolveOk, Consume, Phases, Call
<1>6. ASSUME NEW r \in Runs, ResolveFail(r) PROVE TypeOK'
  BY <1>6 DEF TypeOK, ResolveFail, Release, Phases
<1>7. ASSUME NEW r \in Runs, StartRaises(r) \/ StartCancelled(r) PROVE TypeOK'
  BY <1>7 DEF TypeOK, StartRaises, StartCancelled, Phases
<1>8. ASSUME NEW r \in Runs, Begin(r) PROVE TypeOK'
  <2>1. <<Lifecycle(r, "started"), Lifecycle(r, "running")>> \in Seq(Event)
    BY LifecycleType
  <2>2. log' \in [Threads -> Seq(Event)]
    BY <1>8, <2>1, PublishType DEF Begin
  <2> QED
    BY <1>8, <2>2 DEF TypeOK, Begin, Phases
<1>9. ASSUME NEW r \in Runs, CancelUnstarted(r) PROVE TypeOK'
  BY <1>9 DEF TypeOK, CancelUnstarted, Phases
<1>10. ASSUME NEW r \in Runs, Message(r) PROVE TypeOK'
  BY <1>10 DEF TypeOK, Message
<1>11. ASSUME NEW r \in Runs, NEW ids \in SUBSET Interrupts, Values(r, ids) PROVE TypeOK'
  BY <1>11 DEF TypeOK, Values
<1>12. ASSUME NEW r \in Runs, StreamEnds(r) PROVE TypeOK'
  <2>1. CASE lastValues[r] # NoValues /\ Settle(r, lastValues[r])
    BY <1>12, <2>1, SettleType DEF TypeOK, StreamEnds
  <2>2. CASE lastValues[r] = NoValues /\ Goto(r, "snapshot")
               /\ UNCHANGED <<active, pending, log, callVars, taskVars>>
    BY <1>12, <2>2 DEF TypeOK, StreamEnds, Phases
  <2> QED
    BY <1>12, <2>1, <2>2 DEF StreamEnds
<1>13. ASSUME NEW r \in Runs, NEW ids \in SUBSET Interrupts, SnapshotReturns(r, ids)
       PROVE TypeOK'
  BY <1>13, SettleType DEF SnapshotReturns
<1>14. ASSUME NEW r \in Runs, Fail(r) PROVE TypeOK'
  <2>1. <<Lifecycle(r, "failed")>> \in Seq(Event)
    BY LifecycleType DEF Terminals
  <2>2. log' \in [Threads -> Seq(Event)]
    BY <1>14, <2>1, PublishType DEF Fail
  <2> QED
    BY <1>14, <2>2 DEF TypeOK, Fail, FinishMessages, Phases
<1>15. ASSUME NEW r \in Runs, Cancelled(r) PROVE TypeOK'
  <2>1. <<Lifecycle(r, "interrupted")>> \in Seq(Event)
    BY LifecycleType DEF Terminals
  <2>2. log' \in [Threads -> Seq(Event)]
    BY <1>15, <2>1, PublishType DEF Cancelled
  <2> QED
    BY <1>15, <2>2 DEF TypeOK, Cancelled, FinishMessages, Phases
<1>16. ASSUME NEW r \in Runs, DoneCallback(r) PROVE TypeOK'
  BY <1>16 DEF TypeOK, DoneCallback, Release, Phases
<1>17. CASE UNCHANGED vars
  BY <1>17 DEF TypeOK, vars
<1> QED
  BY <1>1, <1>2, <1>3, <1>4, <1>5, <1>6, <1>7, <1>8, <1>9, <1>10, <1>11, <1>12, <1>13,
     <1>14, <1>15, <1>16, <1>17 DEF Next, Step

(* Every variable of the run manager always has the shape the code gives   *)
(* it; in particular the run in a slot and the pending map are what the    *)
(* types of runner.py say, for any number of threads and runs.             *)
THEOREM Typing == Spec => []TypeOK
<1>1. TypeOK /\ [Next]_vars => TypeOK'
  BY TypeStep
<1> QED
  BY <1>1, TypeInit, PTL DEF Spec

-----------------------------------------------------------------------------
(* Slots                                                                    *)

SlotInv == TypeOK /\ SlotsAndRunsAgree

LEMMA SlotInit == Init => SlotInv
  BY TypeInit DEF Init, SlotInv, SlotsAndRunsAgree

(* A live run that goes on, ends, or fails unseen under its slot.          *)
LEMMA SlotKept ==
  ASSUME SlotInv, NEW r \in Runs, Live(r),
         NEW p \in {"resolving", "scheduled", "streaming", "snapshot", "ended", "abandoned"},
         p = "abandoned" => CallerCancels \/ ~call[r].config.merges,
         Goto(r, p), UNCHANGED <<active, call>>
  PROVE  SlotsAndRunsAgree'
  BY DEF SlotInv, SlotsAndRunsAgree, Unseen, TypeOK

(* A run that gives its slot back, if it still holds it.                   *)
LEMMA SlotReleased ==
  ASSUME SlotInv, NEW r \in Runs, phase[r] \in {"resolving", "ended"},
         NEW p \in {"rejected", "cleared"},
         Goto(r, p), active' = Release(call[r].thread, r), UNCHANGED call
  PROVE  SlotsAndRunsAgree'
  BY NullAssumption DEF SlotInv, SlotsAndRunsAgree, Unseen, TypeOK, Release, Call

(* A start takes a slot that is free: no live run of the thread exists,    *)
(* and no start of it failed unseen, because it would hold that slot.      *)
LEMMA SlotTaken ==
  ASSUME SlotInv, NEW r \in Runs, NEW t \in Threads, NEW a \in Assistants,
         NEW i \in Keys \cup {NoAnswer}, NEW c \in Config, Dispatch(r, t, a, i, c)
  PROVE  SlotsAndRunsAgree'
<1>1. /\ call' = [call EXCEPT ![r] = [thread |-> t, assistant |-> a, answers |-> i,
                                      config |-> c]]
      /\ \A s \in Runs : s # r => call'[s] = call[s]
      /\ call'[r].thread = t
  BY DEF Dispatch, SlotInv, TypeOK
<1>2. \A s \in Runs : Live(s) \/ phase[s] = "abandoned" => call[s].thread # t
  BY NullAssumption DEF Dispatch, Free, SlotInv, SlotsAndRunsAgree, TypeOK
<1>3. \A u \in Threads : active[u] # r
  <2>1. phase[r] = "unused" /\ r # NoRun
    BY NullAssumption DEF Dispatch
  <2>2. \A u \in Threads : active[u] # NoRun =>
          Live(active[u]) \/ phase[active[u]] \in {"ended", "abandoned"}
    BY DEF SlotInv, SlotsAndRunsAgree, Unseen
  <2> QED
    BY <2>1, <2>2
<1>4. CASE Goto(r, "resolving") /\ active' = [active EXCEPT ![t] = r]
  BY <1>1, <1>2, <1>3, <1>4 DEF SlotInv, SlotsAndRunsAgree, Unseen, TypeOK
<1>5. CASE Goto(r, "rejected") /\ active' = [active EXCEPT ![t] = NoRun]
  BY <1>1, <1>2, <1>3, <1>5 DEF SlotInv, SlotsAndRunsAgree, Unseen, TypeOK
<1> QED
  BY <1>4, <1>5 DEF Dispatch

LEMMA SlotStep == SlotInv /\ [Next]_vars => SlotInv'
<1> SUFFICES ASSUME SlotInv, [Next]_vars PROVE SlotsAndRunsAgree'
  BY TypeStep DEF SlotInv
<1>1. ASSUME NEW a \in Assistants, Register(a) PROVE SlotsAndRunsAgree'
  BY <1>1 DEF SlotInv, SlotsAndRunsAgree, Unseen, Register
<1>2. ASSUME NEW t \in Threads, NEW rid \in Runs \cup {NoRun}, Cancel(t, rid)
      PROVE SlotsAndRunsAgree'
  BY <1>2 DEF SlotInv, SlotsAndRunsAgree, Unseen, Cancel
<1>3. ASSUME NEW r \in Runs, NEW t \in Threads, NEW a \in Assistants, NEW c \in Config,
             Start(r, t, a, c)
      PROVE SlotsAndRunsAgree'
  BY <1>3, SlotTaken DEF Start
<1>4. ASSUME NEW r \in Runs, NEW t \in Threads, NEW i \in Keys,
             NEW a \in Assistants \cup {NoAssistant}, Respond(r, t, i, a)
      PROVE SlotsAndRunsAgree'
  <2>1. pending[t] # NoPending => pending[t].assistant \in Assistants
    BY DEF SlotInv, TypeOK, Pending
  <2> QED
    BY <1>4, <2>1, SlotTaken, NoConfigType DEF Respond, Accepts
<1>5. ASSUME NEW r \in Runs, ResolveOk(r) PROVE SlotsAndRunsAgree'
  <2>1. active[call[r].thread] = r /\ call[r].thread \in Threads
    BY <1>5 DEF ResolveOk, SlotInv, SlotsAndRunsAgree, TypeOK, Call
  <2>2. UNCHANGED <<active, call>>
    BY <1>5, <2>1 DEF ResolveOk, SlotInv, TypeOK
  <2> QED
    BY <1>5, <2>2, SlotKept DEF ResolveOk
<1>6. ASSUME NEW r \in Runs, ResolveFail(r) PROVE SlotsAndRunsAgree'
  BY <1>6, SlotReleased DEF ResolveFail
<1>7. ASSUME NEW r \in Runs, StartRaises(r) \/ StartCancelled(r) PROVE SlotsAndRunsAgree'
  BY <1>7, SlotKept DEF StartRaises, StartCancelled
<1>8. ASSUME NEW r \in Runs, Begin(r) PROVE SlotsAndRunsAgree'
  BY <1>8, SlotKept DEF Begin
<1>9. ASSUME NEW r \in Runs, CancelUnstarted(r) PROVE SlotsAndRunsAgree'
  BY <1>9, SlotKept DEF CancelUnstarted
<1>10. ASSUME NEW r \in Runs, Message(r) PROVE SlotsAndRunsAgree'
  BY <1>10 DEF SlotInv, SlotsAndRunsAgree, Unseen, Message
<1>11. ASSUME NEW r \in Runs, NEW ids \in SUBSET Interrupts, Values(r, ids)
       PROVE SlotsAndRunsAgree'
  BY <1>11 DEF SlotInv, SlotsAndRunsAgree, Unseen, Values
<1>12. ASSUME NEW r \in Runs, StreamEnds(r) PROVE SlotsAndRunsAgree'
  BY <1>12, SlotKept DEF StreamEnds, Settle
<1>13. ASSUME NEW r \in Runs, NEW ids \in SUBSET Interrupts, SnapshotReturns(r, ids)
       PROVE SlotsAndRunsAgree'
  BY <1>13, SlotKept DEF SnapshotReturns, Settle
<1>14. ASSUME NEW r \in Runs, Fail(r) PROVE SlotsAndRunsAgree'
  BY <1>14, SlotKept DEF Fail
<1>15. ASSUME NEW r \in Runs, Cancelled(r) PROVE SlotsAndRunsAgree'
  BY <1>15, SlotKept DEF Cancelled
<1>16. ASSUME NEW r \in Runs, DoneCallback(r) PROVE SlotsAndRunsAgree'
  BY <1>16, SlotReleased DEF DoneCallback
<1>17. CASE UNCHANGED vars
  BY <1>17 DEF SlotInv, SlotsAndRunsAgree, Unseen, vars
<1> QED
  BY <1>1, <1>2, <1>3, <1>4, <1>5, <1>6, <1>7, <1>8, <1>9, <1>10, <1>11, <1>12, <1>13,
     <1>14, <1>15, <1>16, <1>17 DEF Next, Step

LEMMA SlotAlways == Spec => []SlotInv
<1>1. SlotInv /\ [Next]_vars => SlotInv'
  BY SlotStep
<1> QED
  BY <1>1, SlotInit, PTL DEF Spec

(* Every live run holds its thread's slot, and so does, for ever, a start  *)
(* that failed unseen: its caller was cancelled at the await, or it raised *)
(* over its metadata (runner.py:149).  A slot names no other run than one  *)
(* of these, of its own thread, or one that is done and not cleared.       *)
THEOREM Slots == Spec => []SlotsAndRunsAgree
  BY SlotAlways, PTL DEF SlotInv

(* Exactly one run may be active per thread (runner.py:5): two live runs   *)
(* of a thread would both hold its one slot.                               *)
THEOREM OneRunPerThread == Spec => []SingleFlight
<1>1. SlotInv => SingleFlight
  BY DEF SlotInv, SlotsAndRunsAgree, SingleFlight
<1> QED
  BY <1>1, SlotAlways, PTL

(* Where "failed starts release the slot" (runner.py:15) is right: without *)
(* cancelled callers, a start whose metadata merges holds no slot once it  *)
(* failed, however its thread's other starts and late done-callbacks went  *)
(* on.  Without that premise run_failed_start refutes it.                  *)
THEOREM FailedStarts ==
  ASSUME ~CallerCancels
  PROVE  Spec => [](\A r \in Runs :
           phase[r] \in {"rejected", "abandoned"} /\ call[r].config.merges =>
             active[call[r].thread] # r)
<1>1. SlotInv => \A r \in Runs :
        phase[r] \in {"rejected", "abandoned"} /\ call[r].config.merges =>
          active[call[r].thread] # r
  <2> SUFFICES ASSUME SlotInv, NEW r \in Runs, phase[r] \in {"rejected", "abandoned"},
                      call[r].config.merges
               PROVE  active[call[r].thread] # r
    OBVIOUS
  <2>1. call[r].thread \in Threads /\ r # NoRun
    BY NullAssumption DEF SlotInv, TypeOK, Call
  <2>2. ~Live(r) /\ ~Unseen(r) /\ phase[r] # "ended"
    BY DEF Unseen
  <2> QED
    BY <2>1, <2>2 DEF SlotInv, SlotsAndRunsAgree
<1> QED
  BY <1>1, SlotAlways, PTL
=============================================================================
