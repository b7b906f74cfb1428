------------------------------ MODULE ThreadRuns ------------------------------
(***************************************************************************)
(* What the run manager promises the clients of its threads (runner.py:    *)
(* 5-18), with a start, a run's last step and a question each one atomic   *)
(* step.  A thread is held by one run at a time, from the moment its start *)
(* is accepted until the run is over; only its holder writes to its trace; *)
(* a question is put by the run that ends with it, to the assistant it     *)
(* ran, and only the next accepted start takes it away, answering it or    *)
(* superseding it.  A start that is refused or fails is not seen.          *)
(***************************************************************************)
EXTENDS Sequences

CONSTANTS
  Threads, Runs, Assistants, Interrupts,
  NoRun, NoAssistant, NoQuestion, NoAnswer

VARIABLES
  stage,     \* of a run: "new", "accepted", "running" or "over"
  answers,   \* of a run: the interrupt it answers
  holder,    \* of a thread: the run that has it
  bound,     \* of a thread: the assistant it last accepted a run of
  question,  \* of a thread: the interrupts that wait for an answer, and of whom
  trace      \* of a thread: what its clients were told

threadVars == <<stage, answers, holder, bound, question, trace>>

Init ==
  /\ stage = [r \in Runs |-> "new"]
  /\ answers = [r \in Runs |-> NoAnswer]
  /\ holder = [t \in Threads |-> NoRun]
  /\ bound = [t \in Threads |-> NoAssistant]
  /\ question = [t \in Threads |-> NoQuestion]
  /\ trace = [t \in Threads |-> <<>>]

(* Interrupt i waits for an answer on thread t.                            *)
Waits(t, i) == question[t] # NoQuestion /\ i \in question[t].ids

Accept(t, r, a, i) ==
  /\ holder[t] = NoRun
  /\ stage[r] = "new"
  /\ i # NoAnswer => Waits(t, i)
  /\ holder' = [holder EXCEPT ![t] = r]
  /\ stage' = [stage EXCEPT ![r] = "accepted"]
  /\ answers' = [answers EXCEPT ![r] = i]
  /\ bound' = [bound EXCEPT ![t] = a]
  /\ question' = [question EXCEPT ![t] = NoQuestion]
  /\ UNCHANGED trace

(* The clients of thread t are told es.                                    *)
Tell(t, es) == trace' = [trace EXCEPT ![t] = @ \o es]
Told(r, event, ids) == [run |-> r, event |-> event, ids |-> ids]

Begin(t, r) ==
  /\ holder[t] = r
  /\ stage[r] = "accepted"
  /\ stage' = [stage EXCEPT ![r] = "running"]
  /\ Tell(t, <<Told(r, "started", {}), Told(r, "running", {})>>)
  /\ UNCHANGED <<answers, holder, bound, question>>

(* The holder is over and gives the thread back.                           *)
Leave(t, r) ==
  /\ holder[t] = r
  /\ holder' = [holder EXCEPT ![t] = NoRun]
  /\ stage' = [stage EXCEPT ![r] = "over"]
  /\ UNCHANGED <<answers, bound>>

(* Cancelled before it ran: the clients are told nothing.                  *)
Drop(t, r) == stage[r] = "accepted" /\ Leave(t, r) /\ UNCHANGED <<question, trace>>

End(t, r, event) ==
  /\ stage[r] = "running"
  /\ Leave(t, r)
  /\ Tell(t, <<Told(r, event, {})>>)
  /\ UNCHANGED question

Ask(t, r, ids) ==
  /\ stage[r] = "running"
  /\ Leave(t, r)
  /\ Tell(t, <<Told(r, "interrupted", {}), Told(r, "requested", ids)>>)
  /\ question' = [question EXCEPT ![t] = [assistant |-> bound[t], ids |-> ids]]

Next ==
  \E t \in Threads, r \in Runs :
    \/ \E a \in Assistants, i \in Interrupts \cup {NoAnswer} : Accept(t, r, a, i)
    \/ Begin(t, r) \/ Drop(t, r)
    \/ \E event \in {"completed", "failed", "interrupted"} : End(t, r, event)
    \/ \E ids \in (SUBSET Interrupts) \ {{}} : Ask(t, r, ids)

Spec == Init /\ [][Next]_threadVars
=============================================================================
