------------------------------ MODULE EventFeed ------------------------------
(***************************************************************************)
(* What the event hub promises one thread's stream consumers (hub.py:3-8): *)
(* each gets the events it wants that are newer than its cursor, in order  *)
(* and at most once.  It may miss an event only if ReplaySize newer ones   *)
(* have been published, or if more than MaxQueue events were published     *)
(* from the moment it subscribed up to that one.                           *)
(***************************************************************************)
EXTENDS Integers, Sequences

CONSTANTS
  Subs,        \* stream consumers
  Contents,    \* what tells events apart
  Cursors,     \* cursors a consumer may open with
  ReplaySize,  \* events kept for replay
  MaxQueue     \* events kept for one consumer

VARIABLES
  events,      \* events[n] is the n-th event published
  state,       \* of a consumer: "absent", "open" or "gone"
  want,        \* the contents a consumer asked for
  cursor,      \* last event it was given, or where it asked to begin
  joined       \* how many events had been published when it subscribed

feedVars == <<events, state, want, cursor, joined>>

Init ==
  /\ events = <<>>
  /\ state = [s \in Subs |-> "absent"]
  /\ want = [s \in Subs |-> {}]
  /\ cursor = [s \in Subs |-> 0]
  /\ joined = [s \in Subs |-> 0]

Publish ==
  /\ \E c \in Contents : events' = Append(events, c)
  /\ UNCHANGED <<state, want, cursor, joined>>

Open(s) ==
  /\ state[s] = "absent"
  /\ state' = [state EXCEPT ![s] = "open"]
  /\ \E w \in SUBSET Contents : want' = [want EXCEPT ![s] = w]
  /\ \E c \in Cursors : cursor' = [cursor EXCEPT ![s] = c]
  /\ joined' = [joined EXCEPT ![s] = Len(events)]
  /\ UNCHANGED events

MayMiss(s, n) ==
  \/ Len(events) - n >= ReplaySize
  \/ n - joined[s] > MaxQueue

Deliver(s) ==
  /\ state[s] = "open"
  /\ \E n \in cursor[s] + 1 .. Len(events) :
       /\ events[n] \in want[s]
       /\ \A k \in cursor[s] + 1 .. n - 1 : events[k] \in want[s] => MayMiss(s, k)
       /\ cursor' = [cursor EXCEPT ![s] = n]
  /\ UNCHANGED <<events, state, want, joined>>

Close(s) ==
  /\ state[s] = "open"
  /\ state' = [state EXCEPT ![s] = "gone"]
  /\ UNCHANGED <<events, want, cursor, joined>>

Next == Publish \/ \E s \in Subs : Open(s) \/ Deliver(s) \/ Close(s)

Spec == Init /\ [][Next]_feedVars
=============================================================================
