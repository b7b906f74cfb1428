------------------------------- MODULE EventHub -------------------------------
(***************************************************************************)
(* One thread's event hub (hub.py) and the server-sent event streams that  *)
(* read it (router.py, _stream).  publish stamps an event, keeps it in a   *)
(* ring of ReplaySize events and puts it on the queue of each subscriber   *)
(* it matches; a stream first replays the ring, then takes events from its *)
(* queue.                                                                  *)
(*                                                                         *)
(* An envelope is its seq: events[n] is the content of the envelope        *)
(* stamped n, and the ring, the queues and the streams hold seqs.  The     *)
(* generator of a stream is suspended at each of its yields, so publishers *)
(* run between them; the ends of these stretches are the stages below.     *)
(* A heartbeat changes nothing and is no action: a get cancelled by its    *)
(* timeout leaves its item in the asyncio.Queue.                           *)
(***************************************************************************)
EXTENDS Integers, Sequences, FiniteSets
LOCAL INSTANCE SequencesExt

CONSTANTS
  Subs,        \* one id per POST .../stream
  Contents,    \* [method, namespace] of the events published
  Filters,     \* [channels, namespaces] a stream may ask for
  Sinces,      \* values of the request's since
  ReplaySize,  \* replay_size (DEFAULT_REPLAY_SIZE is 500)
  MaxQueue,    \* MAX_QUEUE (4096)
  MaxSeq       \* bound on the number of events, for TLC

ASSUME HubAssumption ==
  /\ ReplaySize \in Nat
  /\ MaxQueue \in Nat \ {0}
  /\ MaxSeq \in Nat
  /\ Sinces \subseteq Int

VARIABLES
  events,      \* every event published; _seq is its length
  buffer,      \* _buffer: the ring
  subscribers, \* _subscribers
  stage,       \* where a stream's request, then its generator, stands
  filter,      \* channels and namespaces of its Subscription
  since,       \* the cursor it was opened with
  lastSeq,     \* last_seq of its Subscription
  queue,       \* queue of its Subscription
  outbox,      \* the list replay returned, as far as it is not yielded;
               \* events the stream does not want are skipped when read
  delivered,   \* history: what the stream yielded
  joined,      \* history: _seq when it subscribed
  floor,       \* history: newest event evicted when it replayed
  dropped      \* history: events refused by its full queue

requestVars == <<filter, since, joined>>
vars == <<events, buffer, subscribers, stage, lastSeq, queue, outbox,
          delivered, floor, dropped, requestVars>>

(* opened: subscribed, the generator has not started.  connected: it       *)
(* yielded its first comment.  orphaned: the client went away before the   *)
(* generator started.                                                      *)
Stages == {"idle", "opened", "connected", "replaying", "live", "closed", "orphaned"}

Init ==
  /\ events = <<>>
  /\ buffer = <<>>
  /\ subscribers = {}
  /\ stage = [s \in Subs |-> "idle"]
  /\ filter = [s \in Subs |-> [channels |-> {}, namespaces |-> {}]]
  /\ since = [s \in Subs |-> 0]
  /\ lastSeq = [s \in Subs |-> 0]
  /\ queue = [s \in Subs |-> <<>>]
  /\ outbox = [s \in Subs |-> <<>>]
  /\ delivered = [s \in Subs |-> <<>>]
  /\ joined = [s \in Subs |-> 0]
  /\ floor = [s \in Subs |-> 0]
  /\ dropped = [s \in Subs |-> {}]

Goto(s, p) == stage' = [stage EXCEPT ![s] = p]

-----------------------------------------------------------------------------
(* Matching                                                                 *)

ChannelOf(method) == IF method = "input.requested" THEN "input" ELSE method

(* No channels, no namespaces: everything.  The empty prefix selects the   *)
(* root namespace only.                                                    *)
Accepts(f, c) ==
  /\ f.channels # {} => ChannelOf(c.method) \in f.channels
  /\ f.namespaces # {} =>
       \E p \in f.namespaces : IF p = <<>> THEN c.namespace = <<>> ELSE IsPrefix(p, c.namespace)

(* Subscription.matches, against the cursor the code keeps.                *)
Matches_NoCursor(s, n) == Accepts(filter[s], events[n])
Matches(s, n) == n > lastSeq[s] /\ Accepts(filter[s], events[n])

(* What a stream asked for: until it has replayed, its cursor is since.    *)
Wanted(s, n) == n > since[s] /\ Accepts(filter[s], events[n])

-----------------------------------------------------------------------------
(* The hub                                                                  *)

(* deque(maxlen=ReplaySize).append                                         *)
Retain_DropsNewest(b, n) == IF Len(b) < ReplaySize THEN Append(b, n) ELSE b
Retain(b, n) == IF Len(b) < ReplaySize THEN Append(b, n) ELSE Tail(Append(b, n))

(* The subscribers envelope n with content c matches.                      *)
Reached_LiveOnly(n, c) ==
  {s \in subscribers : stage[s] = "live" /\ n > lastSeq[s] /\ Accepts(filter[s], c)}
Reached(n, c) == {s \in subscribers : n > lastSeq[s] /\ Accepts(filter[s], c)}

Full_OffByOne(s) == Len(queue[s]) > MaxQueue
Full(s) == Len(queue[s]) >= MaxQueue

(* put_nowait on the queue of every subscriber reached; a full queue       *)
(* refuses the event and publish suppresses QueueFull.                     *)
Publish(c) ==
  LET n == Len(events) + 1
      reached == Reached(n, c)
      full == {s \in reached : Full(s)}
  IN
  /\ n <= MaxSeq
  /\ events' = Append(events, c)
  /\ buffer' = Retain(buffer, n)
  /\ queue' = [s \in Subs |-> IF s \in reached \ full THEN Append(queue[s], n) ELSE queue[s]]
  /\ dropped' = [s \in Subs |-> IF s \in full THEN dropped[s] \cup {n} ELSE dropped[s]]
  /\ UNCHANGED <<subscribers, stage, lastSeq, outbox, delivered, floor, requestVars>>

(* The cursor a subscription starts with: since, 0 if none or negative.    *)
Clamp(n) == IF n > 0 THEN n ELSE 0

(* POST .../stream up to its StreamingResponse.                            *)
Subscribe(s, f, n) ==
  /\ stage[s] = "idle"
  /\ Goto(s, "opened")
  /\ filter' = [filter EXCEPT ![s] = f]
  /\ since' = [since EXCEPT ![s] = Clamp(n)]
  /\ lastSeq' = [lastSeq EXCEPT ![s] = Clamp(n)]
  /\ joined' = [joined EXCEPT ![s] = Len(events)]
  /\ subscribers' = subscribers \cup {s}
  /\ UNCHANGED <<events, buffer, queue, outbox, delivered, floor, dropped>>

-----------------------------------------------------------------------------
(* The generator of a stream                                                *)

(* Its first step yields ": connected" and is suspended in the send.       *)
Connect(s) ==
  /\ stage[s] = "opened"
  /\ Goto(s, "connected")
  /\ UNCHANGED <<events, buffer, subscribers, lastSeq, queue, outbox, delivered,
                 floor, dropped, requestVars>>

(* hub.replay: the matching events of the ring, and the cursor moved to    *)
(* the last of them, if any.                                               *)
ReplayCursor_NotMoved(s) == lastSeq[s]
ReplayCursor(s) ==
  LET found == {n \in {buffer[i] : i \in DOMAIN buffer} : Wanted(s, n)} IN
  IF found = {} THEN lastSeq[s] ELSE CHOOSE n \in found : \A m \in found : m <= n
Replay(s) ==
  /\ stage[s] = "connected"
  /\ Goto(s, "replaying")
  /\ outbox' = [outbox EXCEPT ![s] = buffer]
  /\ lastSeq' = [lastSeq EXCEPT ![s] = ReplayCursor(s)]
  /\ floor' = [floor EXCEPT ![s] = Len(events) - Len(buffer)]
  /\ UNCHANGED <<events, buffer, subscribers, queue, delivered, dropped, requestVars>>

(* The next replayed event is yielded.                                     *)
ReplayYield(s) ==
  /\ stage[s] = "replaying"
  /\ \E i \in DOMAIN outbox[s] :
       /\ Wanted(s, outbox[s][i])
       /\ \A j \in 1 .. i - 1 : ~Wanted(s, outbox[s][j])
       /\ delivered' = [delivered EXCEPT ![s] = Append(@, outbox[s][i])]
       /\ outbox' = [outbox EXCEPT ![s] = SubSeq(@, i + 1, Len(@))]
  /\ UNCHANGED <<events, buffer, subscribers, stage, lastSeq, queue, floor, dropped, requestVars>>

ReplayEnd(s) ==
  /\ stage[s] = "replaying"
  /\ \A i \in DOMAIN outbox[s] : ~Wanted(s, outbox[s][i])
  /\ Goto(s, "live")
  /\ outbox' = [outbox EXCEPT ![s] = <<>>]
  /\ UNCHANGED <<events, buffer, subscribers, lastSeq, queue, delivered, floor,
                 dropped, requestVars>>

(* queue.get, then dedup: an event still matching is yielded and moves the *)
(* cursor, one that was replayed is skipped.                               *)
LiveYield(s) ==
  /\ stage[s] = "live"
  /\ queue[s] # <<>>
  /\ Matches(s, Head(queue[s]))
  /\ queue' = [queue EXCEPT ![s] = Tail(@)]
  /\ lastSeq' = [lastSeq EXCEPT ![s] = Head(queue[s])]
  /\ delivered' = [delivered EXCEPT ![s] = Append(@, Head(queue[s]))]
  /\ UNCHANGED <<events, buffer, subscribers, stage, outbox, floor, dropped, requestVars>>

LiveSkip(s) ==
  /\ stage[s] = "live"
  /\ queue[s] # <<>>
  /\ ~Matches(s, Head(queue[s]))
  /\ queue' = [queue EXCEPT ![s] = Tail(@)]
  /\ UNCHANGED <<events, buffer, subscribers, stage, lastSeq, outbox, delivered,
                 floor, dropped, requestVars>>

(* The client goes away: the generator's finally unsubscribes.             *)
Disconnect(s) ==
  /\ stage[s] \in {"connected", "replaying", "live"}
  /\ Goto(s, "closed")
  /\ subscribers' = subscribers \ {s}
  /\ UNCHANGED <<events, buffer, lastSeq, queue, outbox, delivered, floor,
                 dropped, requestVars>>

(* It goes away before the generator started: there is no finally to run.  *)
DisconnectUnstarted(s) ==
  /\ stage[s] = "opened"
  /\ Goto(s, "orphaned")
  /\ UNCHANGED <<events, buffer, subscribers, lastSeq, queue, outbox, delivered,
                 floor, dropped, requestVars>>

-----------------------------------------------------------------------------
GenStep(s) ==
  Connect(s) \/ Replay(s) \/ ReplayYield(s) \/ ReplayEnd(s) \/ LiveYield(s) \/ LiveSkip(s)

Next ==
  \/ \E c \in Contents : Publish(c)
  \/ \E s \in Subs :
       \/ \E f \in Filters, n \in Sinces : Subscribe(s, f, n)
       \/ GenStep(s) \/ Disconnect(s) \/ DisconnectUnstarted(s)

Spec == Init /\ [][Next]_vars

(* A client that stays connected keeps reading, so its generator runs on.  *)
FairSpec == Spec /\ \A s \in Subs : WF_vars(GenStep(s))

-----------------------------------------------------------------------------
(* Properties                                                               *)

(* Every variable has the shape the code gives it.                         *)
TypeOK ==
  /\ events \in Seq(Contents)
  /\ buffer \in Seq(Nat)
  /\ subscribers \subseteq Subs
  /\ stage \in [Subs -> Stages]
  /\ DOMAIN filter = Subs
  /\ since \in [Subs -> Nat] /\ lastSeq \in [Subs -> Nat]
  /\ queue \in [Subs -> Seq(Nat)]
  /\ \A s \in Subs : Len(queue[s]) <= MaxQueue
  /\ outbox \in [Subs -> Seq(Nat)]
  /\ delivered \in [Subs -> Seq(Nat)]
  /\ joined \in [Subs -> Nat] /\ floor \in [Subs -> Nat]
  /\ dropped \in [Subs -> SUBSET Nat]

(* The ring holds the newest events, in order and without holes, however   *)
(* many were published.                                                    *)
BufferIsRecent ==
  /\ Len(buffer) = IF Len(events) < ReplaySize THEN Len(events) ELSE ReplaySize
  /\ \A i \in DOMAIN buffer : buffer[i] = Len(events) - Len(buffer) + i

(* What a stream yields is in order, newer than the since it asked for,    *)
(* and never twice: an event that is both in the ring and in the queue at  *)
(* the handoff is yielded once (hub.py:47, router.py:332).                 *)
InOrderAtMostOnce ==
  \A s \in Subs :
    /\ \A i \in DOMAIN delivered[s] : delivered[s][i] > since[s]
    /\ \A i, j \in DOMAIN delivered[s] : i < j => delivered[s][i] < delivered[s][j]

(* A stream that has replayed loses nothing it wants but what the ring had *)
(* evicted when it replayed and what its own full queue refused.           *)
NoOtherGap ==
  \A s \in Subs : stage[s] \in {"replaying", "live"} =>
    \A n \in DOMAIN events :
      Wanted(s, n) /\ n > floor[s] /\ n \notin dropped[s] =>
        \/ \E i \in DOMAIN delivered[s] : delivered[s][i] = n
        \/ \E i \in DOMAIN outbox[s] : outbox[s][i] = n
        \/ \E i \in DOMAIN queue[s] : queue[s][i] = n /\ Matches(s, n)

(* What a consumer of the feed sees of a stream.                           *)
feedState ==
  [s \in Subs |-> CASE stage[s] = "idle" -> "absent"
                    [] stage[s] \in {"closed", "orphaned"} -> "gone"
                    [] OTHER -> "open"]
feedWant == [s \in Subs |-> {c \in Contents : stage[s] # "idle" /\ Accepts(filter[s], c)}]
feedCursor ==
  [s \in Subs |-> IF delivered[s] = <<>> THEN since[s] ELSE delivered[s][Len(delivered[s])]]

(* The hub implements the feed it promises.                                *)
Feed == INSTANCE EventFeed WITH
  Cursors <- {Clamp(n) : n \in Sinces},
  state <- feedState, want <- feedWant, cursor <- feedCursor
ImplementsFeed == Feed!Spec

(* An event neither evicted nor refused reaches every stream that wants it *)
(* and stays connected: the cursor the replay moved never swallows it.     *)
EventuallyDelivered ==
  \A s \in Subs, n \in 1 .. MaxSeq :
    (n \in DOMAIN events /\ stage[s] = "live" /\ Wanted(s, n) /\ n > floor[s]
       /\ n \notin dropped[s])
      ~> (stage[s] = "closed" \/ \E i \in DOMAIN delivered[s] : delivered[s][i] = n)

(* "exact-once handoff" (README.md:25): every event published after the    *)
(* stream subscribed, wanted and not refused by a full queue, reaches it.  *)
ExactOnceHandoff ==
  \A s \in Subs : stage[s] = "live" /\ queue[s] = <<>> =>
    \A n \in DOMAIN events :
      (n > joined[s] /\ Wanted(s, n) /\ n \notin dropped[s]) =>
        \E i \in DOMAIN delivered[s] : delivered[s][i] = n
=============================================================================
