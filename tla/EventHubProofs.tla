--------------------------- MODULE EventHubProofs ---------------------------
(***************************************************************************)
(* Proofs about EventHub, for any streams, filters, cursors, publishers    *)
(* and any sizes of the ring and the queues: what a stream yields, what it *)
(* may lose, and that the hub implements the feed of EventFeed.            *)
(***************************************************************************)
EXTENDS EventHub, Induction, SequenceTheorems, TLAPS

-----------------------------------------------------------------------------
(* The ring                                                                 *)

RingInv ==
  /\ events \in Seq(Contents)
  /\ buffer \in Seq(Nat)
  /\ BufferIsRecent

LEMMA RingInit == Init => RingInv
  BY HubAssumption DEF Init, RingInv, BufferIsRecent

(* One more event: the ring grows, or drops its oldest.                    *)
LEMMA RingPublished ==
  ASSUME RingInv, NEW c \in Contents, Publish(c)
  PROVE  RingInv'
<1> DEFINE n == Len(events) + 1
           b == Append(buffer, n)
<1>1. /\ n \in Nat /\ ReplaySize \in Nat /\ Len(buffer) \in Nat
      /\ events' = Append(events, c) /\ Len(events') = n
      /\ buffer' = IF Len(buffer) < ReplaySize THEN b ELSE Tail(b)
  BY HubAssumption DEF RingInv, Publish, Retain
<1>2. /\ b \in Seq(Nat) /\ b # <<>> /\ Len(b) = Len(buffer) + 1
      /\ \A i \in 1 .. Len(b) : b[i] = n - Len(b) + i
  <2>1. /\ b \in Seq(Nat) /\ Len(b) = Len(buffer) + 1
        /\ \A i \in 1 .. Len(buffer) : b[i] = buffer[i]
        /\ b[Len(b)] = n
    BY <1>1 DEF RingInv
  <2>2. \A i \in 1 .. Len(buffer) : buffer[i] = Len(events) - Len(buffer) + i
    BY DEF RingInv, BufferIsRecent
  <2>3. Len(events) \in Nat
    BY DEF RingInv
  <2> HIDE DEF b
  <2>4. ASSUME NEW i \in 1 .. Len(b) PROVE b[i] = n - Len(b) + i
    <3>1. CASE i = Len(b)
      BY <1>1, <2>1, <3>1
    <3>2. CASE i # Len(b)
      <4>1. i \in 1 .. Len(buffer)
        BY <1>1, <2>1, <3>2
      <4> QED
        BY <1>1, <2>1, <2>2, <2>3, <4>1
    <3> QED
      BY <3>1, <3>2
  <2>5. b # <<>>
    BY <1>1, <2>1
  <2> QED
    BY <2>1, <2>4, <2>5
<1>3. Len(buffer) = IF n - 1 < ReplaySize THEN n - 1 ELSE ReplaySize
  BY DEF RingInv, BufferIsRecent
<1> HIDE DEF b
<1>4. events' \in Seq(Contents)
  BY <1>1 DEF RingInv
<1>5. CASE Len(buffer) < ReplaySize
  <2>1. buffer' = b /\ Len(buffer') = n
    BY <1>1, <1>2, <1>3, <1>5
  <2>2. DOMAIN b = 1 .. Len(b)
    BY <1>2
  <2>3. Len(buffer') = IF Len(events') < ReplaySize THEN Len(events') ELSE ReplaySize
    BY <1>1, <1>3, <1>5, <2>1
  <2>4. \A i \in DOMAIN buffer' : buffer'[i] = Len(events') - Len(buffer') + i
    BY <1>1, <1>2, <2>1, <2>2
  <2> HIDE DEF n
  <2> QED
    BY <1>2, <1>4, <2>1, <2>3, <2>4 DEF RingInv, BufferIsRecent
<1>6. CASE ~(Len(buffer) < ReplaySize)
  <2>1. Len(buffer) = ReplaySize /\ Len(b) = ReplaySize + 1
    BY <1>1, <1>2, <1>3, <1>6
  <2>2. buffer' = Tail(b)
    BY <1>1, <1>6
  <2>3. /\ buffer' \in Seq(Nat) /\ Len(buffer') = ReplaySize
        /\ \A i \in 1 .. ReplaySize : buffer'[i] = b[i + 1]
    BY <1>1, <1>2, <2>1, <2>2, HeadTailProperties
  <2>4. \A i \in 1 .. ReplaySize : buffer'[i] = n - ReplaySize + i
    <3> TAKE i \in 1 .. ReplaySize
    <3>1. i + 1 \in 1 .. Len(b)
      BY <1>1, <2>1
    <3>2. b[i + 1] = n - Len(b) + (i + 1)
      BY <1>2, <3>1
    <3> QED
      BY <1>1, <2>1, <2>3, <3>2
  <2>5. DOMAIN buffer' = 1 .. ReplaySize
    BY <2>3
  <2>6. ~(n < ReplaySize)
    BY <1>1, <1>3, <2>1
  <2>7. Len(buffer') = IF Len(events') < ReplaySize THEN Len(events') ELSE ReplaySize
    BY <1>1, <2>3, <2>6
  <2>8. \A i \in DOMAIN buffer' : buffer'[i] = Len(events') - Len(buffer') + i
    BY <1>1, <2>3, <2>4, <2>5
  <2> HIDE DEF n
  <2> QED
    BY <1>4, <2>3, <2>7, <2>8 DEF RingInv, BufferIsRecent
<1> QED
  BY <1>5, <1>6

(* The events of the ring, by position.                                    *)
LEMMA RingPositions ==
  ASSUME RingInv
  PROVE  /\ Len(events) \in Nat /\ Len(buffer) \in Nat /\ Len(buffer) <= Len(events)
         /\ DOMAIN buffer = 1 .. Len(buffer)
         /\ \A i \in 1 .. Len(buffer) : buffer[i] = Len(events) - Len(buffer) + i
<1>1. /\ Len(events) \in Nat /\ Len(buffer) \in Nat
      /\ DOMAIN buffer = 1 .. Len(buffer)
  BY LenProperties DEF RingInv
<1>2. Len(buffer) <= Len(events)
  BY <1>1, HubAssumption DEF RingInv, BufferIsRecent
<1> QED
  BY <1>1, <1>2 DEF RingInv, BufferIsRecent

LEMMA RingStep == RingInv /\ [Next]_vars => RingInv'
<1>1. RingInv /\ UNCHANGED <<events, buffer>> => RingInv'
  BY DEF RingInv, BufferIsRecent
<1>2. [Next]_vars => UNCHANGED <<events, buffer>> \/ \E c \in Contents : Publish(c)
  BY DEF Next, vars, Subscribe, GenStep, Connect, Replay, ReplayYield, ReplayEnd,
         LiveYield, LiveSkip, Disconnect, DisconnectUnstarted
<1> QED
  BY <1>1, <1>2, RingPublished

LEMMA RingAlways == Spec => []RingInv
<1>1. RingInv /\ [Next]_vars => RingInv'
  BY RingStep
<1> QED
  BY <1>1, RingInit, PTL DEF Spec

(* The ring of the hub (hub.py:85) always holds the newest events, in      *)
(* order and without holes, for any replay size and number of events.      *)
THEOREM Ring == Spec => []BufferIsRecent
  BY RingAlways, PTL DEF RingInv

-----------------------------------------------------------------------------
(* The streams                                                              *)

Increasing(q) == \A i, j \in 1 .. Len(q) : i < j => q[i] < q[j]
Below(q, n) == \A i \in 1 .. Len(q) : q[i] < n

(* The cursor of a stream is behind nothing it has yielded.  While it      *)
(* replays, what it still has to yield comes after what it yielded, and    *)
(* the cursor is already past all of that it wants.                        *)
StreamTypes ==
  /\ stage \in [Subs -> Stages]
  /\ DOMAIN filter = Subs
  /\ since \in [Subs -> Nat]
  /\ lastSeq \in [Subs -> Nat]
  /\ queue \in [Subs -> Seq(Nat)]
  /\ outbox \in [Subs -> Seq(Nat)]
  /\ delivered \in [Subs -> Seq(Nat)]
Yielded(s) ==
  /\ Increasing(delivered[s])
  /\ \A i \in 1 .. Len(delivered[s]) : delivered[s][i] > since[s]
Fresh(s) == stage[s] \in {"idle", "opened", "connected"} =>
  lastSeq[s] = since[s] /\ delivered[s] = <<>>
Replaying(s) == stage[s] = "replaying" =>
  /\ Increasing(outbox[s])
  /\ \A i \in 1 .. Len(outbox[s]) :
       /\ outbox[s][i] \in 1 .. Len(events)
       /\ Below(delivered[s], outbox[s][i])
       /\ Wanted(s, outbox[s][i]) => outbox[s][i] <= lastSeq[s]
Cursor(s) == stage[s] \in {"replaying", "live"} =>
  since[s] <= lastSeq[s] /\ Below(delivered[s], lastSeq[s] + 1)
StreamOk(s) == Yielded(s) /\ Fresh(s) /\ Replaying(s) /\ Cursor(s)
StreamInv ==
  /\ RingInv
  /\ StreamTypes
  /\ \A s \in Subs : StreamOk(s)

LEMMA StreamInit == Init => StreamInv
<1> SUFFICES ASSUME Init PROVE StreamInv
  OBVIOUS
<1>1. StreamTypes
  BY DEF Init, StreamTypes, Stages
<1>2. ASSUME NEW s \in Subs PROVE StreamOk(s)
  BY <1>2 DEF Init, StreamOk, Yielded, Fresh, Replaying, Cursor, Increasing
<1> QED
  BY <1>1, <1>2, RingInit DEF StreamInv

(* A step of stream s disturbs no other stream.                            *)
LEMMA OtherStreams ==
  ASSUME StreamInv, NEW s \in Subs, UNCHANGED <<events, buffer>>, StreamTypes', StreamOk(s)',
         \A u \in Subs : u # s =>
           /\ stage'[u] = stage[u] /\ since'[u] = since[u] /\ filter'[u] = filter[u]
           /\ lastSeq'[u] = lastSeq[u] /\ outbox'[u] = outbox[u]
           /\ delivered'[u] = delivered[u]
  PROVE  StreamInv'
<1>1. RingInv'
  BY DEF StreamInv, RingInv, BufferIsRecent
<1>2. ASSUME NEW u \in Subs, u # s PROVE StreamOk(u)'
  BY <1>2 DEF StreamInv, StreamOk, Yielded, Fresh, Replaying, Cursor, Increasing, Below,
     Wanted, Accepts
<1> QED
  BY <1>1, <1>2 DEF StreamInv

(* Only the stage or the queue of s changes.                               *)
LEMMA StreamMoved ==
  ASSUME StreamInv, NEW s \in Subs, NEW p \in {"connected", "closed", "orphaned"},
         Goto(s, p), p = "connected" => stage[s] = "opened",
         UNCHANGED <<events, buffer, filter, since, lastSeq, queue, outbox, delivered>>
  PROVE  StreamInv'
<1>1. StreamTypes'
  BY DEF StreamInv, StreamTypes, Goto, Stages
<1>2. stage'[s] = p /\ \A u \in Subs : u # s => stage'[u] = stage[u]
  BY DEF StreamInv, StreamTypes, Goto
<1>3. StreamOk(s)'
  BY <1>2 DEF StreamInv, StreamOk, Yielded, Fresh, Replaying, Cursor, Increasing, Below
<1> QED
  BY <1>1, <1>2, <1>3, OtherStreams

LEMMA StreamSkipped ==
  ASSUME StreamInv, NEW s \in Subs, LiveSkip(s)
  PROVE  StreamInv'
<1>1. StreamTypes'
  BY DEF StreamInv, StreamTypes, LiveSkip, requestVars
<1>2. StreamOk(s)'
  BY DEF StreamInv, StreamOk, Yielded, Fresh, Replaying, Cursor, Increasing, Below,
     Wanted, Accepts, LiveSkip, requestVars
<1> QED
  BY <1>1, <1>2, OtherStreams DEF LiveSkip, requestVars

(* Publishing adds to queues only.                                         *)
LEMMA StreamPublished ==
  ASSUME StreamInv, NEW c \in Contents, Publish(c)
  PROVE  StreamInv'
<1>1. RingInv'
  BY RingPublished DEF StreamInv
<1>2. StreamTypes'
  <2>1. queue' \in [Subs -> Seq(Nat)]
    BY DEF Publish, StreamInv, StreamTypes, RingInv
  <2> QED
    BY <2>1 DEF Publish, StreamInv, StreamTypes, requestVars
<1>3. /\ Len(events) \in Nat /\ Len(events') = Len(events) + 1
      /\ \A n \in 1 .. Len(events) : events'[n] = events[n]
  BY DEF StreamInv, RingInv, Publish
<1>4. UNCHANGED <<stage, filter, since, lastSeq, outbox, delivered>>
  BY DEF Publish, requestVars
<1>5. ASSUME NEW s \in Subs PROVE StreamOk(s)'
  <2>1. StreamOk(s)
    BY DEF StreamInv
  <2>2. \A n \in 1 .. Len(events) : Wanted(s, n)' <=> Wanted(s, n)
    BY <1>3, <1>4 DEF Wanted, Accepts
  <2>3. Replaying(s)'
    BY <1>3, <1>4, <2>1, <2>2 DEF StreamOk, Replaying, Increasing, Below
  <2> QED
    BY <1>4, <2>1, <2>3 DEF StreamOk, Yielded, Fresh, Cursor, Increasing, Below
<1> QED
  BY <1>1, <1>2, <1>5 DEF StreamInv

LEMMA StreamOpened ==
  ASSUME StreamInv, NEW s \in Subs, NEW f, NEW n \in Sinces, Subscribe(s, f, n)
  PROVE  StreamInv'
<1>1. Clamp(n) \in Nat
  BY HubAssumption DEF Clamp
<1>2. StreamTypes'
  BY <1>1 DEF StreamInv, StreamTypes, Subscribe, Goto, Stages
<1>3. /\ stage'[s] = "opened" /\ since'[s] = Clamp(n) /\ lastSeq'[s] = Clamp(n)
      /\ delivered'[s] = <<>>
      /\ \A u \in Subs : u # s => stage'[u] = stage[u] /\ since'[u] = since[u]
           /\ filter'[u] = filter[u] /\ lastSeq'[u] = lastSeq[u]
  BY DEF StreamInv, StreamTypes, StreamOk, Fresh, Subscribe, Goto
<1>4. StreamOk(s)'
  BY <1>3 DEF StreamOk, Yielded, Fresh, Replaying, Cursor, Increasing
<1> QED
  BY <1>2, <1>3, <1>4, OtherStreams DEF Subscribe

(* The cursor replay leaves is behind nothing it found in the ring.        *)
LEMMA CursorReached ==
  ASSUME RingInv, StreamTypes, NEW s \in Subs
  PROVE  /\ ReplayCursor(s) \in Nat
         /\ \/ ReplayCursor(s) = lastSeq[s]
            \/ ReplayCursor(s) > since[s] /\ ReplayCursor(s) <= Len(events)
         /\ \A i \in 1 .. Len(buffer) : Wanted(s, buffer[i]) => buffer[i] <= ReplayCursor(s)
<1> DEFINE found == {n \in {buffer[i] : i \in DOMAIN buffer} : Wanted(s, n)}
<1>1. /\ Len(events) \in Nat
      /\ DOMAIN buffer = 1 .. Len(buffer)
      /\ \A i \in 1 .. Len(buffer) : buffer[i] \in 1 .. Len(events)
  BY RingPositions
<1>2. found \subseteq 0 .. Len(events) /\ \A n \in found : n > since[s]
  BY <1>1 DEF Wanted
<1>3. ReplayCursor(s) = IF found = {} THEN lastSeq[s]
                        ELSE CHOOSE n \in found : \A m \in found : m <= n
  BY DEF ReplayCursor
<1>4. \A i \in 1 .. Len(buffer) : Wanted(s, buffer[i]) => buffer[i] \in found
  BY <1>1
<1> HIDE DEF found
<1>5. CASE found = {}
  BY <1>3, <1>4, <1>5 DEF StreamTypes
<1>6. CASE found # {}
  <2>1. \E n \in found : \A m \in found : m <= n
    BY <1>1, <1>2, <1>6, LargestOfBounded
  <2>2. ReplayCursor(s) \in found /\ \A m \in found : m <= ReplayCursor(s)
    BY <1>3, <1>6, <2>1
  <2>3. ReplayCursor(s) \in 0 .. Len(events) /\ ReplayCursor(s) > since[s]
    BY <1>2, <2>2
  <2> QED
    BY <1>1, <1>4, <2>2, <2>3
<1> QED
  BY <1>5, <1>6

LEMMA StreamReplays ==
  ASSUME StreamInv, NEW s \in Subs, Replay(s)
  PROVE  StreamInv'
<1>1. /\ ReplayCursor(s) \in Nat
      /\ ReplayCursor(s) = lastSeq[s] \/ ReplayCursor(s) > since[s]
      /\ \A i \in 1 .. Len(buffer) : Wanted(s, buffer[i]) => buffer[i] <= ReplayCursor(s)
  BY CursorReached DEF StreamInv
<1>2. /\ stage'[s] = "replaying" /\ lastSeq'[s] = ReplayCursor(s) /\ outbox'[s] = buffer
      /\ UNCHANGED <<events, buffer, filter, since, queue, delivered>>
      /\ \A u \in Subs : u # s => /\ stage'[u] = stage[u] /\ lastSeq'[u] = lastSeq[u]
                                  /\ outbox'[u] = outbox[u]
  BY DEF Replay, Goto, StreamInv, StreamTypes, requestVars
<1>3. StreamTypes'
  <2>1. stage' \in [Subs -> Stages] /\ outbox' \in [Subs -> Seq(Nat)]
    BY DEF Replay, Goto, StreamInv, StreamTypes, RingInv, Stages
  <2>2. lastSeq' \in [Subs -> Nat]
    BY <1>1 DEF Replay, StreamInv, StreamTypes
  <2> QED
    BY <1>2, <2>1, <2>2 DEF StreamInv, StreamTypes
<1>4. delivered[s] = <<>> /\ lastSeq[s] = since[s] /\ since[s] \in Nat
  BY DEF Replay, StreamInv, StreamOk, Fresh, StreamTypes
<1>5. Replaying(s)'
  <2>1. /\ Len(events) \in Nat /\ Len(buffer) \in Nat /\ Len(buffer) <= Len(events)
        /\ \A i \in 1 .. Len(buffer) : buffer[i] = Len(events) - Len(buffer) + i
    BY RingPositions DEF StreamInv
  <2>2. \A i, j \in 1 .. Len(buffer) : i < j => buffer[i] < buffer[j]
    BY <2>1
  <2>3. \A i \in 1 .. Len(buffer) : buffer[i] \in 1 .. Len(events)
    BY <2>1
  <2>4. \A n : Wanted(s, n)' <=> Wanted(s, n)
    BY <1>2 DEF Wanted, Accepts
  <2>5. \A n : Below(delivered'[s], n)
    BY <1>2, <1>4 DEF Below
  <2> QED
    BY <1>1, <1>2, <2>2, <2>3, <2>4, <2>5 DEF Replaying, Increasing
<1>6. StreamOk(s)'
  BY <1>1, <1>2, <1>4, <1>5 DEF StreamOk, Yielded, Fresh, Cursor, Increasing, Below
<1> QED
  BY <1>2, <1>3, <1>6, OtherStreams

(* A longer list of what was yielded.                                      *)
LEMMA YieldedMore ==
  ASSUME StreamInv, NEW s \in Subs, NEW n \in Nat, Below(delivered[s], n), n > since[s],
         delivered' = [delivered EXCEPT ![s] = Append(@, n)], UNCHANGED since
  PROVE  /\ delivered' \in [Subs -> Seq(Nat)]
         /\ Yielded(s)'
         /\ \A m \in Nat : n < m => Below(delivered'[s], m)
         /\ \A u \in Subs : u # s => delivered'[u] = delivered[u]
<1> DEFINE d == delivered[s]
<1>1. d \in Seq(Nat) /\ Len(d) \in Nat /\ \A i \in 1 .. Len(d) : d[i] \in Nat
  BY ElementOfSeq DEF StreamInv, StreamTypes
<1>2. /\ delivered' \in [Subs -> Seq(Nat)]
      /\ delivered'[s] = Append(d, n)
      /\ \A u \in Subs : u # s => delivered'[u] = delivered[u]
  BY DEF StreamInv, StreamTypes
<1>3. /\ Len(delivered'[s]) = Len(d) + 1
      /\ \A i \in 1 .. Len(d) : delivered'[s][i] = d[i]
      /\ delivered'[s][Len(d) + 1] = n
  BY <1>1, <1>2
<1>4. /\ \A i, j \in 1 .. Len(d) : i < j => d[i] < d[j]
      /\ \A i \in 1 .. Len(d) : d[i] > since[s] /\ d[i] < n
  BY DEF StreamInv, StreamOk, Yielded, Increasing, Below
<1> HIDE DEF d
<1>5. ASSUME NEW i \in 1 .. Len(d) + 1
      PROVE  delivered'[s][i] \in Nat /\ delivered'[s][i] > since[s] /\ delivered'[s][i] <= n
  BY <1>1, <1>3, <1>4
<1>6. ASSUME NEW i \in 1 .. Len(d) + 1, NEW j \in 1 .. Len(d) + 1, i < j
      PROVE  delivered'[s][i] < delivered'[s][j]
  <2>1. i \in 1 .. Len(d)
    BY <1>1, <1>6
  <2>2. CASE j = Len(d) + 1
    BY <1>3, <1>4, <2>1, <2>2
  <2>3. CASE j # Len(d) + 1
    <3>1. j \in 1 .. Len(d)
      BY <1>1, <2>3
    <3> QED
      BY <1>3, <1>4, <1>6, <2>1, <3>1
  <2> QED
    BY <2>2, <2>3
<1>7. Yielded(s)'
  BY <1>3, <1>5, <1>6 DEF Yielded, Increasing
<1>8. \A m \in Nat : n < m => Below(delivered'[s], m)
  BY <1>3, <1>5 DEF Below
<1> QED
  BY <1>2, <1>7, <1>8

(* What remains of a sequence after its k-th element.                      *)
LEMMA RestOf ==
  ASSUME NEW q \in Seq(Nat), NEW k \in 1 .. Len(q)
  PROVE  LET rest == SubSeq(q, k + 1, Len(q)) IN
         /\ rest \in Seq(Nat)
         /\ Len(rest) = Len(q) - k
         /\ \A i \in 1 .. Len(rest) : rest[i] = q[k + i]
<1>1. Len(q) \in Nat /\ k + 1 \in Int
  OBVIOUS
<1>2. \A i \in k + 1 .. Len(q) : q[i] \in Nat
  BY ElementOfSeq
<1>3. /\ SubSeq(q, k + 1, Len(q)) \in Seq(Nat)
      /\ Len(SubSeq(q, k + 1, Len(q))) = IF k + 1 <= Len(q) THEN Len(q) - (k + 1) + 1 ELSE 0
      /\ \A i \in 1 .. Len(q) - (k + 1) + 1 :
           SubSeq(q, k + 1, Len(q))[i] = q[(k + 1) + i - 1]
  BY <1>1, <1>2, SubSeqProperties
<1>4. Len(SubSeq(q, k + 1, Len(q))) = Len(q) - k
  BY <1>1, <1>3
<1>5. \A i \in 1 .. Len(q) - k : SubSeq(q, k + 1, Len(q))[i] = q[k + i]
  BY <1>1, <1>3
<1> QED
  BY <1>3, <1>4, <1>5

LEMMA StreamYieldsReplayed ==
  ASSUME StreamInv, NEW s \in Subs, ReplayYield(s)
  PROVE  StreamInv'
<1> DEFINE o == outbox[s]
<1>1. PICK k \in DOMAIN o :
        /\ Wanted(s, o[k])
        /\ delivered' = [delivered EXCEPT ![s] = Append(@, o[k])]
        /\ outbox' = [outbox EXCEPT ![s] = SubSeq(@, k + 1, Len(@))]
  BY DEF ReplayYield
<1>2. /\ stage[s] = "replaying"
      /\ UNCHANGED <<events, buffer, stage, filter, since, lastSeq, queue>>
  BY DEF ReplayYield, requestVars
<1>3. o \in Seq(Nat) /\ Len(o) \in Nat /\ k \in 1 .. Len(o)
      /\ \A i \in 1 .. Len(o) : o[i] \in Nat
  <2>1. o \in Seq(Nat)
    BY DEF StreamInv, StreamTypes
  <2> HIDE DEF o
  <2> QED
    BY <1>1, <2>1, ElementOfSeq, LenProperties
<1>4. /\ \A i, j \in 1 .. Len(o) : i < j => o[i] < o[j]
      /\ \A i \in 1 .. Len(o) : /\ o[i] \in 1 .. Len(events)
                                /\ Below(delivered[s], o[i])
                                /\ Wanted(s, o[i]) => o[i] <= lastSeq[s]
      /\ since[s] <= lastSeq[s]
  BY <1>2 DEF StreamInv, StreamOk, Replaying, Cursor, Increasing
<1> DEFINE n == o[k]
           rest == SubSeq(o, k + 1, Len(o))
<1>5. /\ rest \in Seq(Nat) /\ Len(rest) = Len(o) - k
      /\ \A i \in 1 .. Len(rest) : rest[i] = o[k + i]
  BY <1>3, RestOf
<1>6. /\ outbox' \in [Subs -> Seq(Nat)] /\ outbox'[s] = rest
      /\ \A u \in Subs : u # s => outbox'[u] = outbox[u]
  BY <1>1, <1>5 DEF StreamInv, StreamTypes
<1>7. n \in Nat /\ Below(delivered[s], n) /\ n > since[s] /\ n <= lastSeq[s]
  BY <1>1, <1>3, <1>4 DEF Wanted
<1>8. delivered' = [delivered EXCEPT ![s] = Append(@, n)]
  BY <1>1
<1> HIDE DEF n, rest, o
<1>9. /\ delivered' \in [Subs -> Seq(Nat)] /\ Yielded(s)'
      /\ \A m \in Nat : n < m => Below(delivered'[s], m)
      /\ \A u \in Subs : u # s => delivered'[u] = delivered[u]
  BY <1>2, <1>7, <1>8, YieldedMore
<1>10. StreamTypes'
  BY <1>2, <1>6, <1>9 DEF StreamInv, StreamTypes
<1>11. \A i \in 1 .. Len(rest) : k + i \in 1 .. Len(o) /\ k < k + i
  <2>1. /\ k \in 1 .. Len(o) /\ Len(o) \in Nat /\ Len(rest) = Len(o) - k
    BY <1>3, <1>5
  <2> QED
    BY ONLY <2>1
<1>12. Replaying(s)'
  <2>1. ASSUME NEW i \in 1 .. Len(rest), NEW j \in 1 .. Len(rest), i < j
        PROVE  rest[i] < rest[j]
    <3>1. k + i \in 1 .. Len(o) /\ k + j \in 1 .. Len(o) /\ k + i < k + j
      BY <1>3, <1>5, <1>11, <2>1
    <3>2. o[k + i] < o[k + j]
      BY <1>4, <3>1
    <3> QED
      BY <1>5, <3>2
  <2>2. ASSUME NEW i \in 1 .. Len(rest)
        PROVE  /\ rest[i] \in 1 .. Len(events) /\ Below(delivered'[s], rest[i])
               /\ Wanted(s, rest[i]) => rest[i] <= lastSeq[s]
    <3>1. rest[i] = o[k + i] /\ k + i \in 1 .. Len(o) /\ n < rest[i]
      BY <1>3, <1>4, <1>5, <1>11 DEF n
    <3>2. rest[i] \in Nat /\ Below(delivered'[s], rest[i])
      BY <1>3, <1>9, <3>1
    <3> QED
      BY <1>4, <3>1, <3>2
  <2>3. \A m : Wanted(s, m)' <=> Wanted(s, m)
    BY <1>2 DEF Wanted, Accepts
  <2> QED
    BY <1>2, <1>6, <2>1, <2>2, <2>3 DEF Replaying, Increasing
<1>13. Cursor(s)'
  <2>1. lastSeq[s] \in Nat /\ lastSeq[s] + 1 \in Nat /\ n < lastSeq[s] + 1
    BY <1>7 DEF StreamInv, StreamTypes
  <2>2. Below(delivered'[s], lastSeq[s] + 1)
    BY <1>2, <1>9, <2>1
  <2> QED
    BY <1>2, <1>4, <2>2 DEF Cursor
<1>14. StreamOk(s)'
  BY <1>2, <1>9, <1>12, <1>13 DEF StreamOk, Fresh
<1> QED
  BY <1>2, <1>6, <1>9, <1>10, <1>14, OtherStreams

LEMMA StreamReplayed ==
  ASSUME StreamInv, NEW s \in Subs, ReplayEnd(s)
  PROVE  StreamInv'
<1>1. StreamTypes'
  BY DEF StreamInv, StreamTypes, ReplayEnd, Goto, Stages, requestVars
<1>2. /\ stage[s] = "replaying" /\ stage'[s] = "live"
      /\ UNCHANGED <<events, buffer, filter, since, lastSeq, queue, delivered>>
      /\ \A u \in Subs : u # s => stage'[u] = stage[u] /\ outbox'[u] = outbox[u]
  BY DEF StreamInv, StreamTypes, ReplayEnd, Goto, requestVars
<1>3. StreamOk(s)'
  BY <1>2 DEF StreamInv, StreamOk, Yielded, Fresh, Replaying, Cursor, Increasing, Below
<1> QED
  BY <1>1, <1>2, <1>3, OtherStreams

LEMMA StreamYieldsLive ==
  ASSUME StreamInv, NEW s \in Subs, LiveYield(s)
  PROVE  StreamInv'
<1> DEFINE n == Head(queue[s])
<1>1. /\ stage[s] = "live" /\ Matches(s, n)
      /\ delivered' = [delivered EXCEPT ![s] = Append(@, n)]
      /\ lastSeq' = [lastSeq EXCEPT ![s] = n]
      /\ UNCHANGED <<events, buffer, stage, filter, since, outbox>>
  BY DEF LiveYield, requestVars
<1>2. n \in Nat
  BY HeadTailProperties DEF LiveYield, StreamInv, StreamTypes
<1>3. queue' \in [Subs -> Seq(Nat)]
  BY HeadTailProperties DEF LiveYield, StreamInv, StreamTypes
<1> HIDE DEF n
<1>4. /\ lastSeq' \in [Subs -> Nat] /\ lastSeq'[s] = n
      /\ \A u \in Subs : u # s => lastSeq'[u] = lastSeq[u]
  BY <1>1, <1>2 DEF StreamInv, StreamTypes
<1>5. /\ since[s] \in Nat /\ lastSeq[s] \in Nat /\ since[s] <= lastSeq[s] /\ n > lastSeq[s]
      /\ Below(delivered[s], lastSeq[s] + 1)
  BY <1>1 DEF Matches, StreamInv, StreamOk, Cursor, StreamTypes
<1>6. Below(delivered[s], n) /\ n > since[s]
  <2>1. \A i \in 1 .. Len(delivered[s]) : delivered[s][i] \in Nat
    BY ElementOfSeq DEF StreamInv, StreamTypes
  <2> QED
    BY <1>2, <1>5, <2>1 DEF Below
<1>7. /\ delivered' \in [Subs -> Seq(Nat)] /\ Yielded(s)'
      /\ \A m \in Nat : n < m => Below(delivered'[s], m)
      /\ \A u \in Subs : u # s => delivered'[u] = delivered[u]
  BY <1>1, <1>2, <1>6, YieldedMore
<1>8. StreamTypes'
  BY <1>1, <1>3, <1>4, <1>7 DEF StreamInv, StreamTypes
<1>9. Cursor(s)'
  <2>1. n + 1 \in Nat /\ n < n + 1
    BY <1>2
  <2>2. Below(delivered'[s], n + 1)
    BY <1>7, <2>1
  <2> QED
    BY <1>1, <1>2, <1>4, <1>5, <2>2 DEF Cursor, Below
<1>10. StreamOk(s)'
  BY <1>1, <1>7, <1>9 DEF StreamOk, Fresh, Replaying
<1> QED
  BY <1>1, <1>4, <1>7, <1>8, <1>10, OtherStreams

LEMMA StreamStep == StreamInv /\ [Next]_vars => StreamInv'
<1> SUFFICES ASSUME StreamInv, [Next]_vars PROVE StreamInv'
  OBVIOUS
<1>1. ASSUME NEW c \in Contents, Publish(c) PROVE StreamInv'
  BY <1>1, StreamPublished
<1>2. ASSUME NEW s \in Subs, NEW f, NEW n \in Sinces, Subscribe(s, f, n) PROVE StreamInv'
  BY <1>2, StreamOpened
<1>3. ASSUME NEW s \in Subs, Connect(s) PROVE StreamInv'
  BY <1>3, StreamMoved DEF Connect, requestVars
<1>4. ASSUME NEW s \in Subs, Disconnect(s) PROVE StreamInv'
  BY <1>4, StreamMoved DEF Disconnect, requestVars
<1>5. ASSUME NEW s \in Subs, DisconnectUnstarted(s) PROVE StreamInv'
  BY <1>5, StreamMoved DEF DisconnectUnstarted, requestVars
<1>6. ASSUME NEW s \in Subs, GenStep(s) PROVE StreamInv'
  BY <1>3, <1>6, StreamReplays, StreamYieldsReplayed, StreamReplayed, StreamYieldsLive,
     StreamSkipped DEF GenStep
<1>7. CASE UNCHANGED vars
  <2>1. RingInv' /\ StreamTypes'
    BY <1>7 DEF vars, requestVars, StreamInv, RingInv, BufferIsRecent, StreamTypes
  <2>2. \A s, n : Wanted(s, n)' <=> Wanted(s, n)
    BY <1>7 DEF vars, requestVars, Wanted, Accepts
  <2>3. ASSUME NEW s \in Subs PROVE StreamOk(s)'
    BY <1>7, <2>2 DEF vars, requestVars, StreamInv, StreamOk, Yielded, Fresh, Replaying,
       Cursor, Increasing, Below
  <2> QED
    BY <2>1, <2>3 DEF StreamInv
<1> QED
  BY <1>1, <1>2, <1>4, <1>5, <1>6, <1>7 DEF Next

(* What a stream yields is in order, newer than its since, and never       *)
(* twice: an event in the ring and in the queue at the handoff from replay *)
(* to live delivery is yielded once (hub.py:47, router.py:332), for any    *)
(* filters, cursors, publishers and sizes of the ring and the queues.      *)
THEOREM Delivery == Spec => []InOrderAtMostOnce
<1>1. StreamInv /\ [Next]_vars => StreamInv'
  BY StreamStep
<1>2. StreamInv => InOrderAtMostOnce
  <2> SUFFICES ASSUME StreamInv, NEW s \in Subs
               PROVE  /\ \A i \in DOMAIN delivered[s] : delivered[s][i] > since[s]
                      /\ \A i, j \in DOMAIN delivered[s] :
                           i < j => delivered[s][i] < delivered[s][j]
    BY DEF InOrderAtMostOnce
  <2>1. DOMAIN delivered[s] = 1 .. Len(delivered[s])
    BY LenProperties DEF StreamInv, StreamTypes
  <2> QED
    BY <2>1 DEF StreamInv, StreamOk, Yielded, Increasing
<1> QED
  BY <1>1, <1>2, StreamInit, PTL DEF Spec

-----------------------------------------------------------------------------
(* What a stream may lose: the invariant                                    *)

QueueTypes ==
  /\ subscribers \subseteq Subs
  /\ \A s \in Subs : Len(queue[s]) <= MaxQueue
  /\ joined \in [Subs -> Nat]
  /\ floor \in [Subs -> Nat]
  /\ dropped \in [Subs -> SUBSET Nat]

(* A queue holds published events, in the order they were published.       *)
Queued(s) ==
  /\ Increasing(queue[s])
  /\ \A i \in 1 .. Len(queue[s]) : queue[s][i] <= Len(events)

(* A stream that reads is subscribed, so it is reached by what it wants:   *)
(* its cursor is the one it asked for or that of a published event.        *)
Reading(s) == stage[s] \in {"opened", "connected", "replaying", "live"}
Reachable(s) ==
  /\ Reading(s) => s \in subscribers
  /\ Reading(s) => lastSeq[s] = since[s] \/ lastSeq[s] <= Len(events)

(* Where an event the stream wants is, if it is not lost.                  *)
Holds(s, n) ==
  \/ \E i \in 1 .. Len(delivered[s]) : delivered[s][i] = n
  \/ \E i \in 1 .. Len(outbox[s]) : outbox[s][i] = n
  \/ (\E i \in 1 .. Len(queue[s]) : queue[s][i] = n) /\ Matches(s, n)
NoGap(s) == stage[s] \in {"replaying", "live"} =>
  \A n \in 1 .. Len(events) :
    Wanted(s, n) /\ n > floor[s] /\ n \notin dropped[s] => Holds(s, n)

GapOk(s) == Queued(s) /\ Reachable(s) /\ NoGap(s)
GapInv == QueueTypes /\ \A s \in Subs : GapOk(s)

LEMMA GapInit == Init => GapInv
<1> SUFFICES ASSUME Init PROVE GapInv
  OBVIOUS
<1>1. QueueTypes
  BY HubAssumption DEF Init, QueueTypes
<1>2. ASSUME NEW s \in Subs PROVE GapOk(s)
  BY <1>2 DEF Init, GapOk, Queued, Increasing, Reachable, Reading, NoGap
<1> QED
  BY <1>1, <1>2 DEF GapInv

(* What the steps below use of the state they start from.                  *)
LEMMA GapState ==
  ASSUME StreamInv, GapInv, NEW s \in Subs
  PROVE  /\ Len(events) \in Nat
         /\ queue[s] \in Seq(Nat) /\ Len(queue[s]) \in Nat
         /\ delivered[s] \in Seq(Nat) /\ Len(delivered[s]) \in Nat
         /\ outbox[s] \in Seq(Nat) /\ Len(outbox[s]) \in Nat
         /\ lastSeq[s] \in Nat /\ since[s] \in Nat /\ floor[s] \in Nat
         /\ dropped[s] \subseteq Nat
         /\ \A i \in 1 .. Len(queue[s]) : queue[s][i] \in Nat
  BY LenProperties, ElementOfSeq DEF StreamInv, RingInv, StreamTypes, GapInv, QueueTypes

(* A step of stream s disturbs no other stream.                            *)
LEMMA OtherGaps ==
  ASSUME GapInv, NEW s \in Subs, UNCHANGED events, QueueTypes', GapOk(s)',
         \A u \in Subs : u # s =>
           /\ stage'[u] = stage[u] /\ filter'[u] = filter[u] /\ since'[u] = since[u]
           /\ lastSeq'[u] = lastSeq[u]
           /\ outbox'[u] = outbox[u] /\ delivered'[u] = delivered[u] /\ queue'[u] = queue[u]
           /\ floor'[u] = floor[u] /\ dropped'[u] = dropped[u]
           /\ u \in subscribers => u \in subscribers'
  PROVE  GapInv'
<1>1. ASSUME NEW u \in Subs, u # s PROVE GapOk(u)'
  <2>1. Queued(u) /\ Reachable(u) /\ NoGap(u)
    BY DEF GapInv, GapOk
  <2>2. Queued(u)'
    BY <1>1, <2>1 DEF Queued, Increasing
  <2>3. Reachable(u)'
    BY <1>1, <2>1 DEF Reachable, Reading
  <2>4. NoGap(u)'
    <3>1. ASSUME NEW n PROVE /\ Wanted(u, n)' = Wanted(u, n) /\ Holds(u, n)' = Holds(u, n)
      BY <1>1 DEF Holds, Matches, Wanted, Accepts
    <3>2. stage'[u] = stage[u] /\ floor'[u] = floor[u] /\ dropped'[u] = dropped[u]
      BY <1>1
    <3> QED
      BY <2>1, <3>1, <3>2 DEF NoGap
  <2> QED
    BY <2>2, <2>3, <2>4 DEF GapOk
<1> QED
  BY <1>1 DEF GapInv

-----------------------------------------------------------------------------
(* Steps that move no event                                                 *)

LEMMA GapOpened ==
  ASSUME StreamInv, GapInv, NEW s \in Subs, NEW f, NEW n \in Sinces, Subscribe(s, f, n)
  PROVE  GapInv'
<1>1. Len(events) \in Nat /\ Clamp(n) \in Nat
  BY GapState, HubAssumption DEF Clamp
<1>2. QueueTypes'
  BY <1>1 DEF Subscribe, GapInv, QueueTypes
<1>3. /\ stage'[s] = "opened" /\ lastSeq'[s] = since'[s] /\ s \in subscribers'
      /\ UNCHANGED <<events, outbox, delivered, queue, floor, dropped>>
      /\ \A u \in Subs : u # s =>
           /\ stage'[u] = stage[u] /\ filter'[u] = filter[u]
           /\ since'[u] = since[u] /\ lastSeq'[u] = lastSeq[u]
           /\ u \in subscribers => u \in subscribers'
  BY DEF Subscribe, Goto, StreamInv, StreamTypes
<1>4. GapOk(s)'
  BY <1>3 DEF GapInv, GapOk, Queued, Increasing, Reachable, NoGap
<1> QED
  BY <1>2, <1>3, <1>4, OtherGaps

LEMMA GapMoved ==
  ASSUME StreamInv, GapInv, NEW s \in Subs, Connect(s) \/ Disconnect(s) \/ DisconnectUnstarted(s)
  PROVE  GapInv'
<1>1. /\ UNCHANGED <<events, outbox, delivered, queue, floor, dropped, filter, since, joined,
                     lastSeq>>
      /\ stage'[s] \in {"connected", "closed", "orphaned"}
      /\ stage'[s] = "connected" => stage[s] = "opened" /\ subscribers' = subscribers
      /\ subscribers' \subseteq subscribers
      /\ \A u \in Subs : u # s => /\ stage'[u] = stage[u]
                                  /\ u \in subscribers => u \in subscribers'
  BY DEF Connect, Disconnect, DisconnectUnstarted, Goto, StreamInv, StreamTypes, requestVars
<1>2. QueueTypes'
  BY <1>1 DEF GapInv, QueueTypes
<1>3. GapOk(s)'
  BY <1>1 DEF GapInv, GapOk, Queued, Increasing, Reachable, Reading, NoGap
<1> QED
  BY <1>1, <1>2, <1>3, OtherGaps

-----------------------------------------------------------------------------
(* Steps that move events                                                   *)

(* A new event that the stream wants is in its queue or refused by it.     *)
LEMMA GapPublished ==
  ASSUME StreamInv, GapInv, NEW c \in Contents, Publish(c)
  PROVE  GapInv'
<1>0. PICK n \in Nat : n = Len(events) + 1
  BY DEF StreamInv, RingInv
<1> DEFINE reached == Reached(n, c)
           full == {u \in reached : Full(u)}
<1>1. /\ Len(events) \in Nat /\ Len(events') = n /\ events'[n] = c
      /\ \A m \in 1 .. Len(events) : events'[m] = events[m]
  BY <1>0 DEF Publish, StreamInv, RingInv
<1>2. /\ queue' = [u \in Subs |-> IF u \in reached \ full THEN Append(queue[u], n) ELSE queue[u]]
      /\ dropped' = [u \in Subs |-> IF u \in full THEN dropped[u] \cup {n} ELSE dropped[u]]
      /\ UNCHANGED <<subscribers, stage, lastSeq, outbox, delivered, floor, filter, since, joined>>
  BY <1>0 DEF Publish, requestVars
<1>3. \A u \in Subs : u \in reached <=> u \in subscribers /\ n > lastSeq[u] /\ Accepts(filter[u], c)
  BY DEF Reached
<1>4. \A u \in reached : u \in full <=> Len(queue[u]) >= MaxQueue
  BY DEF Full
<1>5. ASSUME NEW s \in Subs
      PROVE  /\ queue'[s] = IF s \in reached \ full THEN Append(queue[s], n) ELSE queue[s]
             /\ dropped'[s] = IF s \in full THEN dropped[s] \cup {n} ELSE dropped[s]
  BY <1>2
<1> HIDE DEF reached, full
<1>6. n = Len(events) + 1 /\ n \in Nat
  BY <1>0
<1>7. ASSUME NEW s \in Subs, s \in reached \ full
      PROVE  /\ Len(queue'[s]) = Len(queue[s]) + 1
             /\ \A i \in 1 .. Len(queue[s]) : queue'[s][i] = queue[s][i]
             /\ queue'[s][Len(queue[s]) + 1] = n
  <2>1. queue'[s] = Append(queue[s], n)
    BY <1>5, <1>7
  <2>2. queue[s] \in Seq(Nat)
    BY GapState
  <2> QED
    BY <2>1, <2>2, AppendProperties
<1>8. QueueTypes'
  <2>1. ASSUME NEW s \in Subs PROVE Len(queue'[s]) <= MaxQueue
    <3>1. Len(queue[s]) \in Nat /\ Len(queue[s]) <= MaxQueue /\ MaxQueue \in Nat
      BY GapState, HubAssumption DEF GapInv, QueueTypes
    <3>2. CASE s \in reached \ full
      BY <1>4, <1>7, <3>1, <3>2
    <3>3. CASE s \notin reached \ full
      BY <1>5, <3>1, <3>3
    <3> QED
      BY <3>2, <3>3
  <2>2. dropped' \in [Subs -> SUBSET Nat]
    BY <1>2, <1>6 DEF GapInv, QueueTypes
  <2> QED
    BY <1>2, <2>1, <2>2 DEF GapInv, QueueTypes
<1>9. ASSUME NEW s \in Subs PROVE GapOk(s)'
  <2>1. /\ Queued(s) /\ Reachable(s) /\ NoGap(s)
        /\ Len(queue[s]) \in Nat /\ lastSeq[s] \in Nat /\ since[s] \in Nat
        /\ \A i \in 1 .. Len(queue[s]) : queue[s][i] \in Nat
    BY GapState DEF GapInv, GapOk
  <2>2. Queued(s)'
    <3>1. CASE s \in reached \ full
      <4>1. \A i \in 1 .. Len(queue[s]) : queue[s][i] < n
        BY <1>1, <1>6, <2>1 DEF Queued
      <4>2. ASSUME NEW i \in 1 .. Len(queue'[s]), NEW j \in 1 .. Len(queue'[s]), i < j
            PROVE  queue'[s][i] < queue'[s][j]
        <5>1. i \in 1 .. Len(queue[s])
          BY <1>7, <2>1, <3>1, <4>2
        <5>2. CASE j = Len(queue[s]) + 1
          BY <1>7, <3>1, <4>1, <5>1, <5>2
        <5>3. CASE j # Len(queue[s]) + 1
          <6>1. j \in 1 .. Len(queue[s])
            BY <1>7, <2>1, <3>1, <5>3
          <6> QED
            BY <1>7, <2>1, <3>1, <4>2, <5>1, <6>1 DEF Queued, Increasing
        <5> QED
          BY <5>2, <5>3
      <4>3. ASSUME NEW i \in 1 .. Len(queue'[s]) PROVE queue'[s][i] <= Len(events')
        <5>1. i \in 1 .. Len(queue[s]) \/ i = Len(queue[s]) + 1
          BY <1>7, <2>1, <3>1
        <5>2. Len(events') = n /\ n \in Nat
          BY <1>1, <1>6
        <5>3. CASE i \in 1 .. Len(queue[s])
          <6>1. queue'[s][i] = queue[s][i] /\ queue[s][i] \in Nat /\ queue[s][i] < n
            BY <1>7, <2>1, <3>1, <4>1, <5>3
          <6> QED
            BY <5>2, <6>1
        <5>4. CASE i = Len(queue[s]) + 1
          BY <1>7, <3>1, <5>2, <5>4
        <5> QED
          BY <5>1, <5>3, <5>4
      <4> QED
        BY <4>2, <4>3 DEF Queued, Increasing
    <3>2. CASE s \notin reached \ full
      <4>1. queue'[s] = queue[s] /\ Len(events) <= Len(events')
        <5>1. queue'[s] = queue[s]
          BY <1>5, <3>2
        <5>2. Len(events) <= Len(events')
          BY <1>1, <1>6
        <5> QED
          BY <5>1, <5>2
      <4>2. ASSUME NEW i \in 1 .. Len(queue'[s]) PROVE queue'[s][i] <= Len(events')
        <5>1. i \in 1 .. Len(queue[s])
          BY <4>1
        <5>2. queue[s][i] \in Nat /\ queue[s][i] <= Len(events)
          BY <2>1, <5>1 DEF Queued
        <5>3. queue'[s][i] = queue[s][i] /\ Len(events) \in Nat /\ Len(events') \in Nat
          BY <1>1, <1>6, <4>1
        <5> QED
          BY <4>1, <5>2, <5>3
      <4> QED
        BY <2>1, <4>1, <4>2 DEF Queued, Increasing
    <3> QED
      BY <3>1, <3>2
  <2>3. Reachable(s)'
    BY <1>1, <1>2, <1>6, <2>1 DEF Reachable, Reading
  <2>4. ASSUME stage[s] \in {"replaying", "live"}, NEW m \in 1 .. Len(events),
               Wanted(s, m)', m > floor[s], m \notin dropped'[s]
        PROVE  Holds(s, m)'
    <3>1. (Wanted(s, m)' <=> Wanted(s, m)) /\ (Matches(s, m)' <=> Matches(s, m))
      BY <1>1, <1>2 DEF Wanted, Matches, Accepts
    <3>2. m \notin dropped[s]
      BY <1>5, <2>4
    <3>3. Holds(s, m)
      BY <2>1, <2>4, <3>1, <3>2 DEF NoGap
    <3>4. \A i \in 1 .. Len(queue[s]) : i \in 1 .. Len(queue'[s]) /\ queue'[s][i] = queue[s][i]
      <4>1. CASE s \in reached \ full
        BY <1>7, <2>1, <4>1
      <4>2. CASE s \notin reached \ full
        BY <1>5, <4>2
      <4> QED
        BY <4>1, <4>2
    <3> QED
      BY <1>2, <3>1, <3>3, <3>4 DEF Holds
  <2>5. ASSUME stage[s] \in {"replaying", "live"}, Wanted(s, n)', n \notin dropped'[s]
        PROVE  Holds(s, n)'
    <3>1. n > since[s] /\ Accepts(filter[s], c)
      BY <1>1, <1>2, <2>5 DEF Wanted, Accepts
    <3>2. n > lastSeq[s] /\ s \in subscribers
      BY <1>1, <1>6, <2>1, <2>5, <3>1 DEF Reachable, Reading
    <3>3. s \in reached \ full
      BY <1>3, <1>5, <2>5, <3>1, <3>2
    <3>4. Matches(s, n)'
      BY <1>1, <1>2, <3>1, <3>2 DEF Matches, Accepts
    <3>5. Len(queue[s]) + 1 \in 1 .. Len(queue'[s])
      BY <1>7, <2>1, <3>3
    <3> QED
      BY <1>7, <3>3, <3>4, <3>5 DEF Holds
  <2>6. NoGap(s)'
    <3>1. \A m \in 1 .. Len(events') : m \in 1 .. Len(events) \/ m = n
      BY <1>1, <1>6
    <3> QED
      BY <1>2, <2>4, <2>5, <3>1 DEF NoGap
  <2> QED
    BY <2>2, <2>3, <2>6 DEF GapOk
<1> QED
  BY <1>8, <1>9 DEF GapInv

(* The ring holds everything newer than what it evicted.                   *)
LEMMA GapReplayed ==
  ASSUME StreamInv, GapInv, NEW s \in Subs, Replay(s)
  PROVE  GapInv'
<1>1. /\ Len(events) \in Nat /\ Len(buffer) \in Nat /\ Len(buffer) <= Len(events)
      /\ \A i \in 1 .. Len(buffer) : buffer[i] = Len(events) - Len(buffer) + i
  BY RingPositions DEF StreamInv
<1>2. /\ stage[s] = "connected" /\ stage'[s] = "replaying"
      /\ outbox'[s] = buffer /\ lastSeq'[s] = ReplayCursor(s)
      /\ floor'[s] = Len(events) - Len(buffer)
      /\ UNCHANGED <<events, subscribers, queue, delivered, dropped, filter, since, joined>>
      /\ \A u \in Subs : u # s =>
           /\ stage'[u] = stage[u] /\ outbox'[u] = outbox[u]
           /\ lastSeq'[u] = lastSeq[u] /\ floor'[u] = floor[u]
  BY DEF Replay, Goto, StreamInv, StreamTypes, GapInv, QueueTypes, requestVars
<1>3. QueueTypes'
  <2>1. Len(events) - Len(buffer) \in Nat
    BY <1>1
  <2> QED
    BY <1>2, <2>1 DEF Replay, GapInv, QueueTypes
<1>4. ReplayCursor(s) = lastSeq[s] \/ ReplayCursor(s) <= Len(events)
  BY CursorReached DEF StreamInv
<1>5. lastSeq[s] = since[s] /\ s \in subscribers /\ Queued(s)
  BY <1>2 DEF StreamInv, StreamOk, Fresh, GapInv, GapOk, Reachable, Reading
<1>6. NoGap(s)'
  <2>1. ASSUME NEW n \in 1 .. Len(events), n > Len(events) - Len(buffer)
        PROVE  \E i \in 1 .. Len(buffer) : buffer[i] = n
    <3>1. n - (Len(events) - Len(buffer)) \in 1 .. Len(buffer)
      BY <1>1, <2>1
    <3>2. buffer[n - (Len(events) - Len(buffer))] = n
      BY <1>1, <3>1
    <3> QED
      BY <3>1, <3>2
  <2> QED
    BY <1>2, <2>1 DEF NoGap, Holds
<1>7. GapOk(s)'
  BY <1>2, <1>4, <1>5, <1>6 DEF GapOk, Queued, Increasing, Reachable, Reading
<1> QED
  BY <1>2, <1>3, <1>7, OtherGaps

(* What was yielded is still among what is yielded one event later.        *)
LEMMA YieldedKept ==
  ASSUME StreamInv, NEW s \in Subs, NEW n \in Nat,
         delivered' = [delivered EXCEPT ![s] = Append(@, n)]
  PROVE  /\ \E i \in 1 .. Len(delivered'[s]) : delivered'[s][i] = n
         /\ \A i \in 1 .. Len(delivered[s]) :
              i \in 1 .. Len(delivered'[s]) /\ delivered'[s][i] = delivered[s][i]
         /\ \A u \in Subs : u # s => delivered'[u] = delivered[u]
<1>1. /\ delivered[s] \in Seq(Nat) /\ delivered'[s] = Append(delivered[s], n)
      /\ \A u \in Subs : u # s => delivered'[u] = delivered[u]
  BY DEF StreamInv, StreamTypes
<1>2. /\ Len(delivered[s]) \in Nat /\ Len(delivered'[s]) = Len(delivered[s]) + 1
      /\ \A i \in 1 .. Len(delivered[s]) : delivered'[s][i] = delivered[s][i]
      /\ delivered'[s][Len(delivered[s]) + 1] = n
  BY <1>1, AppendProperties, LenProperties
<1>3. Len(delivered[s]) + 1 \in 1 .. Len(delivered'[s])
  BY <1>2
<1> QED
  BY <1>1, <1>2, <1>3

(* Yielding a replayed event skips only events the stream does not want.   *)
LEMMA GapYieldsReplayed ==
  ASSUME StreamInv, GapInv, NEW s \in Subs, ReplayYield(s)
  PROVE  GapInv'
<1> DEFINE o == outbox[s]
<1>1. PICK k \in DOMAIN o :
        /\ \A j \in 1 .. k - 1 : ~Wanted(s, o[j])
        /\ delivered' = [delivered EXCEPT ![s] = Append(@, o[k])]
        /\ outbox' = [outbox EXCEPT ![s] = SubSeq(@, k + 1, Len(@))]
  BY DEF ReplayYield
<1>2. /\ stage[s] = "replaying"
      /\ UNCHANGED <<events, stage, filter, since, joined, lastSeq, queue, subscribers,
                     floor, dropped>>
  BY DEF ReplayYield, requestVars
<1>3. o \in Seq(Nat) /\ Len(o) \in Nat /\ k \in 1 .. Len(o) /\ o[k] \in Nat
  BY <1>1, LenProperties, ElementOfSeq DEF StreamInv, StreamTypes
<1> DEFINE rest == SubSeq(o, k + 1, Len(o))
<1>4. /\ Len(rest) = Len(o) - k
      /\ \A i \in 1 .. Len(rest) : rest[i] = o[k + i]
  BY <1>3, RestOf
<1>5. outbox'[s] = rest /\ \A u \in Subs : u # s => outbox'[u] = outbox[u]
  BY <1>1 DEF StreamInv, StreamTypes
<1> HIDE DEF o, rest
<1>6. /\ \E i \in 1 .. Len(delivered'[s]) : delivered'[s][i] = o[k]
      /\ \A i \in 1 .. Len(delivered[s]) :
           i \in 1 .. Len(delivered'[s]) /\ delivered'[s][i] = delivered[s][i]
      /\ \A u \in Subs : u # s => delivered'[u] = delivered[u]
  BY <1>1, <1>3, YieldedKept
<1>7. QueueTypes'
  BY <1>2 DEF GapInv, QueueTypes
<1>8. \A n : /\ Wanted(s, n)' <=> Wanted(s, n)
            /\ Matches(s, n)' <=> Matches(s, n)
  BY <1>2 DEF Wanted, Matches, Accepts
<1>9. ASSUME NEW n, Wanted(s, n), NEW i \in 1 .. Len(o), o[i] = n
      PROVE  Holds(s, n)'
  <2>1. i \notin 1 .. k - 1
    BY <1>1, <1>9
  <2>2. CASE i = k
    BY <1>6, <1>9, <2>2 DEF Holds
  <2>3. CASE i # k
    <3>1. i - k \in 1 .. Len(rest) /\ k + (i - k) = i
      BY <1>3, <1>4, <2>1, <2>3
    <3>2. rest[i - k] = n
      BY <1>4, <1>9, <3>1
    <3> QED
      BY <1>5, <3>1, <3>2 DEF Holds
  <2> QED
    BY <2>2, <2>3
<1>10. ASSUME NEW n \in 1 .. Len(events), Wanted(s, n), Holds(s, n)
       PROVE  Holds(s, n)'
  BY <1>2, <1>6, <1>8, <1>9, <1>10 DEF Holds, o
<1>11. NoGap(s)'
  <2>1. ASSUME NEW n \in 1 .. Len(events), Wanted(s, n)', n > floor[s], n \notin dropped[s]
        PROVE  Holds(s, n)'
    <3>0. Wanted(s, n)
      BY <1>2, <2>1 DEF Wanted, Accepts
    <3>1. Holds(s, n)
      BY <1>2, <2>1, <3>0 DEF GapInv, GapOk, NoGap
    <3> QED
      BY <1>10, <2>1, <3>0, <3>1
  <2> QED
    BY <1>2, <2>1 DEF NoGap
<1>12. GapOk(s)'
  BY <1>2, <1>11 DEF GapInv, GapOk, Queued, Increasing, Reachable, Reading
<1> QED
  BY <1>2, <1>5, <1>6, <1>7, <1>12, OtherGaps

LEMMA GapReplayEnds ==
  ASSUME StreamInv, GapInv, NEW s \in Subs, ReplayEnd(s)
  PROVE  GapInv'
<1>1. /\ stage[s] = "replaying" /\ stage'[s] = "live"
      /\ \A i \in 1 .. Len(outbox[s]) : ~Wanted(s, outbox[s][i])
      /\ UNCHANGED <<events, subscribers, filter, since, joined, lastSeq, queue, delivered,
                     floor, dropped>>
      /\ \A u \in Subs : u # s => stage'[u] = stage[u] /\ outbox'[u] = outbox[u]
  BY LenProperties DEF ReplayEnd, Goto, StreamInv, StreamTypes, requestVars
<1>2. QueueTypes'
  BY <1>1 DEF GapInv, QueueTypes
<1>3. \A n : /\ Wanted(s, n)' <=> Wanted(s, n)
            /\ Matches(s, n)' <=> Matches(s, n)
  BY <1>1 DEF Wanted, Matches, Accepts
<1>4. ASSUME NEW n \in 1 .. Len(events), Wanted(s, n), Holds(s, n)
      PROVE  Holds(s, n)'
  BY <1>1, <1>3, <1>4 DEF Holds
<1>5. NoGap(s)'
  <2>1. ASSUME NEW n \in 1 .. Len(events), Wanted(s, n)', n > floor[s], n \notin dropped[s]
        PROVE  Holds(s, n)'
    <3>0. Wanted(s, n)
      BY <1>1, <2>1 DEF Wanted, Accepts
    <3>1. Holds(s, n)
      BY <1>1, <2>1, <3>0 DEF GapInv, GapOk, NoGap
    <3> QED
      BY <1>4, <2>1, <3>0, <3>1
  <2> QED
    BY <1>1, <2>1 DEF NoGap
<1>6. GapOk(s)'
  BY <1>1, <1>5 DEF GapInv, GapOk, Queued, Increasing, Reachable, Reading
<1> QED
  BY <1>1, <1>2, <1>6, OtherGaps

(* The queue without its head.                                             *)
LEMMA RestOfQueue ==
  ASSUME StreamInv, GapInv, NEW s \in Subs, queue[s] # <<>>,
         queue' = [queue EXCEPT ![s] = Tail(@)],
         UNCHANGED <<events, subscribers, joined, floor, dropped>>
  PROVE  /\ QueueTypes' /\ Queued(s)'
         /\ Head(queue[s]) = queue[s][1] /\ 1 \in 1 .. Len(queue[s])
         /\ \A i \in 1 .. Len(queue[s]) : i # 1 =>
              /\ i - 1 \in 1 .. Len(queue'[s])
              /\ queue'[s][i - 1] = queue[s][i]
              /\ queue[s][i] > queue[s][1]
         /\ \A u \in Subs : u # s => queue'[u] = queue[u]
<1> DEFINE q == queue[s]
<1>1. /\ q \in Seq(Nat) /\ q # <<>> /\ Len(q) \in Nat
      /\ queue'[s] = Tail(q)
      /\ \A u \in Subs : u # s => queue'[u] = queue[u]
  BY GapState DEF StreamInv, StreamTypes
<1>2. /\ \A i, j \in 1 .. Len(q) : i < j => q[i] < q[j]
      /\ \A i \in 1 .. Len(q) : q[i] <= Len(events)
      /\ \A i \in 1 .. Len(q) : q[i] \in Nat
      /\ Len(q) <= MaxQueue /\ MaxQueue \in Nat
  BY GapState, HubAssumption DEF GapInv, GapOk, Queued, Increasing, QueueTypes
<1> HIDE DEF q
<1>3. /\ Len(q) >= 1 /\ Head(q) = q[1]
      /\ queue'[s] \in Seq(Nat) /\ Len(queue'[s]) = Len(q) - 1
      /\ \A i \in 1 .. Len(Tail(q)) : Tail(q)[i] = q[i + 1]
  <2>1. Len(q) # 0
    BY <1>1, EmptySeq
  <2>2. /\ Tail(q) \in Seq(Nat) /\ Len(Tail(q)) = Len(q) - 1
        /\ \A i \in 1 .. Len(Tail(q)) : Tail(q)[i] = q[i + 1]
    BY <1>1, HeadTailProperties
  <2>3. Head(q) = q[1]
    BY <1>1
  <2>4. Len(q) >= 1
    BY <1>1, <2>1
  <2>5. queue'[s] \in Seq(Nat) /\ Len(queue'[s]) = Len(q) - 1
    BY <1>1, <2>2
  <2> QED
    BY <2>2, <2>3, <2>4, <2>5
<1>4. ASSUME NEW i \in 1 .. Len(queue'[s])
      PROVE  i + 1 \in 1 .. Len(q) /\ queue'[s][i] = q[i + 1]
  <2>1. i + 1 \in 1 .. Len(q)
    BY <1>1, <1>3
  <2>2. queue'[s][i] = q[i + 1]
    BY <1>1, <1>3
  <2> QED
    BY <2>1, <2>2
<1>5. Queued(s)'
  <2>1. \A i, j \in 1 .. Len(queue'[s]) : i < j => queue'[s][i] < queue'[s][j]
    <3> TAKE i, j \in 1 .. Len(queue'[s])
    <3> HAVE i < j
    <3>1. i + 1 < j + 1
      BY <1>1, <1>3
    <3> QED
      BY <1>2, <1>4, <3>1
  <2>2. \A i \in 1 .. Len(queue'[s]) : queue'[s][i] <= Len(events)
    BY <1>2, <1>4
  <2> QED
    BY <2>1, <2>2 DEF Queued, Increasing
<1>6. QueueTypes'
  <2>1. ASSUME NEW u \in Subs PROVE Len(queue'[u]) <= MaxQueue
    <3>1. CASE u = s
      BY <1>1, <1>2, <1>3, <3>1
    <3>2. CASE u # s
      BY <1>1, <3>2 DEF GapInv, QueueTypes
    <3> QED
      BY <3>1, <3>2
  <2> QED
    BY <2>1 DEF GapInv, QueueTypes
<1>7. ASSUME NEW i \in 1 .. Len(q), i # 1
      PROVE  /\ i - 1 \in 1 .. Len(queue'[s])
             /\ queue'[s][i - 1] = q[i] /\ q[i] > q[1]
  <2>1. /\ i - 1 \in 1 .. Len(queue'[s]) /\ (i - 1) + 1 = i
        /\ 1 \in 1 .. Len(q) /\ 1 < i
    BY <1>1, <1>3, <1>7
  <2>2. q[1] < q[i] /\ queue'[s][i - 1] = q[i]
    BY <1>2, <1>4, <2>1
  <2> QED
    BY <1>2, <2>1, <2>2
<1>8. 1 \in 1 .. Len(q)
  BY <1>1, <1>3
<1> QED
  BY <1>1, <1>3, <1>5, <1>6, <1>7, <1>8 DEF q

(* A live event moves the cursor past itself only: what follows it in the  *)
(* queue still matches.                                                    *)
LEMMA GapYieldsLive ==
  ASSUME StreamInv, GapInv, NEW s \in Subs, LiveYield(s)
  PROVE  GapInv'
<1> DEFINE h == queue[s][1]
<1>1. /\ stage[s] = "live" /\ queue[s] # <<>>
      /\ queue' = [queue EXCEPT ![s] = Tail(@)]
      /\ UNCHANGED <<events, stage, filter, since, joined, subscribers, outbox, floor, dropped>>
  BY DEF LiveYield, requestVars
<1>2. /\ QueueTypes' /\ Queued(s)'
      /\ Head(queue[s]) = h /\ 1 \in 1 .. Len(queue[s])
      /\ \A i \in 1 .. Len(queue[s]) : i # 1 =>
           /\ i - 1 \in 1 .. Len(queue'[s])
           /\ queue'[s][i - 1] = queue[s][i]
           /\ queue[s][i] > h
      /\ \A u \in Subs : u # s => queue'[u] = queue[u]
  BY <1>1, RestOfQueue
<1>3. h \in Nat /\ h <= Len(events) /\ Len(events) \in Nat
  BY <1>2, GapState DEF GapInv, GapOk, Queued
<1>4. /\ delivered' = [delivered EXCEPT ![s] = Append(@, h)]
      /\ lastSeq'[s] = h
      /\ \A u \in Subs : u # s => lastSeq'[u] = lastSeq[u]
  BY <1>2 DEF LiveYield, StreamInv, StreamTypes
<1> HIDE DEF h
<1>5. /\ \E i \in 1 .. Len(delivered'[s]) : delivered'[s][i] = h
      /\ \A i \in 1 .. Len(delivered[s]) :
           i \in 1 .. Len(delivered'[s]) /\ delivered'[s][i] = delivered[s][i]
      /\ \A u \in Subs : u # s => delivered'[u] = delivered[u]
  BY <1>3, <1>4, YieldedKept
<1>6. ASSUME NEW n \in 1 .. Len(events), Wanted(s, n), Holds(s, n)
      PROVE  Holds(s, n)'
  <2>1. CASE \E i \in 1 .. Len(delivered[s]) : delivered[s][i] = n
    BY <1>5, <2>1 DEF Holds
  <2>2. CASE \E i \in 1 .. Len(outbox[s]) : outbox[s][i] = n
    BY <1>1, <2>2 DEF Holds
  <2>3. CASE (\E i \in 1 .. Len(queue[s]) : queue[s][i] = n) /\ Matches(s, n)
    <3>1. PICK i \in 1 .. Len(queue[s]) : queue[s][i] = n
      BY <2>3
    <3>2. CASE i = 1
      BY <1>5, <3>1, <3>2 DEF Holds, h
    <3>3. CASE i # 1
      <4>1. n > h /\ i - 1 \in 1 .. Len(queue'[s]) /\ queue'[s][i - 1] = n
        BY <1>2, <3>1, <3>3
      <4>2. Matches(s, n)'
        BY <1>1, <1>4, <2>3, <4>1 DEF Matches, Accepts
      <4> QED
        BY <4>1, <4>2 DEF Holds
    <3> QED
      BY <3>2, <3>3
  <2> QED
    BY <1>6, <2>1, <2>2, <2>3 DEF Holds
<1>7. NoGap(s)'
  <2>1. ASSUME NEW n \in 1 .. Len(events), Wanted(s, n)', n > floor[s], n \notin dropped[s]
        PROVE  Holds(s, n)'
    <3>1. Wanted(s, n)
      BY <1>1, <2>1 DEF Wanted, Accepts
    <3>2. Holds(s, n)
      BY <1>1, <2>1, <3>1 DEF GapInv, GapOk, NoGap
    <3> QED
      BY <1>6, <3>1, <3>2
  <2> QED
    BY <1>1, <2>1 DEF NoGap
<1>8. GapOk(s)'
  BY <1>1, <1>2, <1>3, <1>4, <1>7 DEF GapInv, GapOk, Reachable, Reading
<1> QED
  BY <1>1, <1>2, <1>4, <1>5, <1>8, OtherGaps

(* An event that is skipped does not match.                                *)
LEMMA GapSkipped ==
  ASSUME StreamInv, GapInv, NEW s \in Subs, LiveSkip(s)
  PROVE  GapInv'
<1>1. /\ stage[s] = "live" /\ queue[s] # <<>>
      /\ queue' = [queue EXCEPT ![s] = Tail(@)]
      /\ UNCHANGED <<events, stage, filter, since, joined, subscribers, lastSeq, outbox,
                     delivered, floor, dropped>>
  BY DEF LiveSkip, requestVars
<1>2. /\ QueueTypes' /\ Queued(s)'
      /\ Head(queue[s]) = queue[s][1]
      /\ \A i \in 1 .. Len(queue[s]) : i # 1 =>
           /\ i - 1 \in 1 .. Len(queue'[s])
           /\ queue'[s][i - 1] = queue[s][i]
      /\ \A u \in Subs : u # s => queue'[u] = queue[u]
  BY <1>1, RestOfQueue
<1>3. ~Matches(s, queue[s][1])
  BY <1>2 DEF LiveSkip
<1>4. ASSUME NEW n \in 1 .. Len(events), Holds(s, n)
      PROVE  Holds(s, n)'
  <2>1. Matches(s, n)' <=> Matches(s, n)
    BY <1>1 DEF Matches, Accepts
  <2>2. ASSUME NEW i \in 1 .. Len(queue[s]), queue[s][i] = n, Matches(s, n)
        PROVE  \E j \in 1 .. Len(queue'[s]) : queue'[s][j] = n
    BY <1>2, <1>3, <2>2
  <2> QED
    BY <1>1, <1>4, <2>1, <2>2 DEF Holds
<1>5. NoGap(s)'
  <2>1. ASSUME NEW n \in 1 .. Len(events), Wanted(s, n)', n > floor[s], n \notin dropped[s]
        PROVE  Holds(s, n)'
    <3>1. Wanted(s, n)
      BY <1>1, <2>1 DEF Wanted, Accepts
    <3> QED
      BY <1>1, <1>4, <2>1, <3>1 DEF GapInv, GapOk, NoGap
  <2> QED
    BY <1>1, <2>1 DEF NoGap
<1>6. GapOk(s)'
  BY <1>1, <1>2, <1>5 DEF GapInv, GapOk, Reachable, Reading
<1> QED
  BY <1>1, <1>2, <1>6, OtherGaps

-----------------------------------------------------------------------------
(* What a stream may lose: the theorems                                     *)

LEMMA GapStep == StreamInv /\ GapInv /\ [Next]_vars => GapInv'
<1> SUFFICES ASSUME StreamInv, GapInv, [Next]_vars PROVE GapInv'
  OBVIOUS
<1>1. ASSUME NEW c \in Contents, Publish(c) PROVE GapInv'
  BY <1>1, GapPublished
<1>2. ASSUME NEW s \in Subs, NEW f, NEW n \in Sinces, Subscribe(s, f, n) PROVE GapInv'
  BY <1>2, GapOpened
<1>3. ASSUME NEW s \in Subs, Connect(s) \/ Disconnect(s) \/ DisconnectUnstarted(s)
      PROVE  GapInv'
  BY <1>3, GapMoved
<1>4. ASSUME NEW s \in Subs, GenStep(s) PROVE GapInv'
  BY <1>3, <1>4, GapReplayed, GapYieldsReplayed, GapReplayEnds, GapYieldsLive, GapSkipped
     DEF GenStep
<1>5. CASE UNCHANGED vars
  <2>1. QueueTypes'
    BY <1>5 DEF vars, requestVars, GapInv, QueueTypes
  <2>2. ASSUME NEW s \in Subs PROVE GapOk(s)'
    BY <1>5 DEF vars, requestVars, GapInv, GapOk, Queued, Increasing, Reachable, Reading,
       NoGap, Holds, Matches, Wanted, Accepts
  <2> QED
    BY <2>1, <2>2 DEF GapInv
<1> QED
  BY <1>1, <1>2, <1>3, <1>4, <1>5 DEF Next

LEMMA GapAlways == Spec => [](StreamInv /\ GapInv)
<1>1. StreamInv /\ GapInv /\ [Next]_vars => StreamInv' /\ GapInv'
  BY StreamStep, GapStep
<1> QED
  BY <1>1, StreamInit, GapInit, PTL DEF Spec

(* Ring, queues and streams keep their shape, and no queue exceeds         *)
(* MAX_QUEUE (hub.py:19), however many events are published to a slow      *)
(* stream.                                                                 *)
THEOREM HubTyping == Spec => []TypeOK
<1>1. StreamInv /\ GapInv => TypeOK
  BY DEF StreamInv, RingInv, StreamTypes, GapInv, QueueTypes, TypeOK
<1> QED
  BY <1>1, GapAlways, PTL

(* A stream that has replayed loses only what the ring evicted before it   *)
(* replayed and what its own full queue refused (hub.py:85, hub.py:118):   *)
(* neither the cursor that replay moves nor the deduplication of live      *)
(* events swallows another, whatever is published between its steps.       *)
THEOREM OnlyKnownGaps == Spec => []NoOtherGap
<1>1. StreamInv /\ GapInv => NoOtherGap
  <2> SUFFICES ASSUME StreamInv, GapInv, NEW s \in Subs, stage[s] \in {"replaying", "live"},
                      NEW n \in DOMAIN events,
                      Wanted(s, n) /\ n > floor[s] /\ n \notin dropped[s]
               PROVE  \/ \E i \in DOMAIN delivered[s] : delivered[s][i] = n
                      \/ \E i \in DOMAIN outbox[s] : outbox[s][i] = n
                      \/ \E i \in DOMAIN queue[s] : queue[s][i] = n /\ Matches(s, n)
    BY DEF NoOtherGap
  <2>1. /\ DOMAIN events = 1 .. Len(events)
        /\ DOMAIN delivered[s] = 1 .. Len(delivered[s])
        /\ DOMAIN outbox[s] = 1 .. Len(outbox[s])
        /\ DOMAIN queue[s] = 1 .. Len(queue[s])
    BY GapState, LenProperties DEF StreamInv, RingInv
  <2>2. Holds(s, n)
    BY <2>1 DEF GapInv, GapOk, NoGap
  <2> QED
    BY <2>1, <2>2 DEF Holds
<1> QED
  BY <1>1, GapAlways, PTL

-----------------------------------------------------------------------------
(* The refinement: what a delivery passes over                              *)

(* What the ring had evicted when a stream replayed is out of ReplaySize.  *)
Evicted(s) == stage[s] \in {"replaying", "live"} =>
  floor[s] = 0 \/ Len(events) - floor[s] >= ReplaySize
(* A queue holds events published since its stream subscribed, so an event *)
(* it refused came MaxQueue events later.                                  *)
Refused(s) ==
  /\ stage[s] = "idle" => s \notin subscribers /\ queue[s] = <<>> /\ dropped[s] = {}
  /\ stage[s] # "idle" => joined[s] <= Len(events)
  /\ \A i \in 1 .. Len(queue[s]) : queue[s][i] >= joined[s] + i
  /\ \A n \in dropped[s] : n - joined[s] > MaxQueue
Emptied(s) == stage[s] = "live" => outbox[s] = <<>>
FeedOk(s) == Evicted(s) /\ Refused(s) /\ Emptied(s)
FeedInv == StreamInv /\ GapInv /\ \A s \in Subs : FeedOk(s)

LEMMA FeedInit == Init => FeedInv
<1> SUFFICES ASSUME Init, NEW s \in Subs PROVE FeedOk(s)
  BY StreamInit, GapInit DEF FeedInv
<1> QED
  BY DEF Init, FeedOk, Evicted, Refused, Emptied

LEMMA FeedTypes ==
  ASSUME FeedInv, NEW s \in Subs
  PROVE  /\ Len(events) \in Nat /\ queue[s] \in Seq(Nat) /\ Len(queue[s]) \in Nat
         /\ joined[s] \in Nat /\ floor[s] \in Nat /\ dropped[s] \subseteq Nat
         /\ \A i \in 1 .. Len(queue[s]) : queue[s][i] \in Nat
         /\ Evicted(s) /\ Refused(s) /\ Emptied(s)
         /\ MaxQueue \in Nat /\ ReplaySize \in Nat
  BY GapState, HubAssumption DEF FeedInv, FeedOk, GapInv, QueueTypes

(* A stream that a step leaves alone.                                      *)
LEMMA FeedLeft ==
  ASSUME FeedInv, NEW s \in Subs, UNCHANGED events,
         stage'[s] = stage[s], joined'[s] = joined[s], floor'[s] = floor[s],
         dropped'[s] = dropped[s], queue'[s] = queue[s], outbox'[s] = outbox[s],
         s \in subscribers' => s \in subscribers
  PROVE  FeedOk(s)'
  BY FeedTypes DEF FeedOk, Evicted, Refused, Emptied

(* A stream that moves on and takes nothing from its queue.                *)
LEMMA FeedMoved ==
  ASSUME FeedInv, NEW s \in Subs, UNCHANGED events, stage[s] # "idle", stage'[s] # "idle",
         joined'[s] = joined[s], dropped'[s] = dropped[s], queue'[s] = queue[s],
         Evicted(s)', Emptied(s)'
  PROVE  FeedOk(s)'
  BY FeedTypes DEF FeedOk, Refused

(* A live stream that takes the head of its queue.                         *)
LEMMA FeedTaken ==
  ASSUME FeedInv, NEW s \in Subs, LiveYield(s) \/ LiveSkip(s)
  PROVE  FeedOk(s)'
<1>1. /\ stage[s] = "live" /\ queue[s] # <<>> /\ queue'[s] = Tail(queue[s])
      /\ UNCHANGED <<events, stage, joined, floor, dropped, outbox>>
  BY DEF LiveYield, LiveSkip, requestVars, FeedInv, StreamInv, StreamTypes
<1>2. /\ Len(events) \in Nat /\ queue[s] \in Seq(Nat) /\ Len(queue[s]) \in Nat
      /\ joined[s] \in Nat /\ Evicted(s) /\ Refused(s) /\ Emptied(s)
      /\ \A i \in 1 .. Len(queue[s]) : queue[s][i] \in Nat
  BY FeedTypes
<1>3. /\ Len(queue'[s]) = Len(queue[s]) - 1
      /\ \A i \in 1 .. Len(queue'[s]) : queue'[s][i] = queue[s][i + 1]
  BY <1>1, <1>2, HeadTailProperties
<1>4. ASSUME NEW i \in 1 .. Len(queue'[s]) PROVE queue'[s][i] >= joined[s] + i
  <2>1. i + 1 \in 1 .. Len(queue[s])
    BY <1>2, <1>3
  <2>2. queue[s][i + 1] >= joined[s] + (i + 1) /\ queue[s][i + 1] \in Nat
    BY <1>2, <2>1 DEF Refused
  <2> QED
    BY <1>2, <1>3, <2>2
<1>5. Evicted(s)' /\ Emptied(s)'
  BY <1>1, <1>2 DEF Evicted, Emptied
<1>6. Refused(s)'
  BY <1>1, <1>2, <1>4 DEF Refused
<1> QED
  BY <1>5, <1>6 DEF FeedOk

LEMMA FeedPublished ==
  ASSUME FeedInv, NEW c \in Contents, Publish(c), NEW s \in Subs
  PROVE  FeedOk(s)'
<1>0. PICK n \in Nat : n = Len(events) + 1
  BY FeedTypes
<1>1. /\ Len(events) \in Nat /\ Len(events') = n /\ n = Len(events) + 1
      /\ UNCHANGED <<stage, joined, floor, outbox>>
  BY <1>0, FeedTypes DEF Publish, requestVars, FeedInv, StreamInv, RingInv
<1>2. /\ queue[s] \in Seq(Nat) /\ Len(queue[s]) \in Nat /\ Len(queue[s]) <= MaxQueue
      /\ joined[s] \in Nat /\ floor[s] \in Nat /\ MaxQueue \in Nat
      /\ ReplaySize \in Nat /\ dropped[s] \subseteq Nat
      /\ \A i \in 1 .. Len(queue[s]) : queue[s][i] \in Nat
      /\ Evicted(s) /\ Refused(s) /\ Emptied(s) /\ Queued(s)
  BY FeedTypes DEF FeedInv, GapInv, GapOk, QueueTypes
<1>3. Evicted(s)' /\ Emptied(s)'
  BY <1>1, <1>2 DEF Evicted, Emptied
<1>4. CASE queue'[s] = queue[s] /\ dropped'[s] = dropped[s]
  <2>1. UNCHANGED subscribers
    BY DEF Publish
  <2>2. joined[s] <= Len(events) => joined[s] <= Len(events')
    BY <1>1, <1>2
  <2>3. Refused(s)'
    BY <1>1, <1>2, <1>4, <2>1, <2>2 DEF Refused
  <2> QED
    BY <1>3, <2>3 DEF FeedOk
<1>5. CASE ~(queue'[s] = queue[s] /\ dropped'[s] = dropped[s])
  <2>1. /\ s \in subscribers
        /\ \/ Full(s) /\ queue'[s] = queue[s] /\ dropped'[s] = dropped[s] \cup {n}
           \/ ~Full(s) /\ queue'[s] = Append(queue[s], n) /\ dropped'[s] = dropped[s]
    BY <1>0, <1>5 DEF Publish, Reached
  <2>2. stage[s] # "idle" /\ joined[s] <= Len(events)
    BY <1>2, <2>1 DEF Refused
  <2>3. n >= joined[s] + (Len(queue[s]) + 1)
    <3>1. CASE Len(queue[s]) = 0
      BY <1>1, <1>2, <2>2, <3>1
    <3>2. CASE Len(queue[s]) # 0
      <4>1. Len(queue[s]) \in 1 .. Len(queue[s])
        BY <1>2, <3>2
      <4>2. /\ queue[s][Len(queue[s])] >= joined[s] + Len(queue[s])
            /\ queue[s][Len(queue[s])] <= Len(events)
            /\ queue[s][Len(queue[s])] \in Nat
        BY <1>2, <4>1 DEF Refused, Queued
      <4> QED
        BY <1>1, <1>2, <4>2
    <3> QED
      BY <3>1, <3>2
  <2>4. CASE Full(s) /\ queue'[s] = queue[s] /\ dropped'[s] = dropped[s] \cup {n}
    <3>1. n - joined[s] > MaxQueue
      BY <1>1, <1>2, <2>3, <2>4 DEF Full
    <3>2. Refused(s)'
      BY <1>1, <1>2, <2>2, <2>4, <3>1 DEF Refused
    <3> QED
      BY <1>3, <3>2 DEF FeedOk
  <2>5. CASE queue'[s] = Append(queue[s], n) /\ dropped'[s] = dropped[s]
    <3>1. /\ Len(queue'[s]) = Len(queue[s]) + 1
          /\ \A i \in 1 .. Len(queue[s]) : queue'[s][i] = queue[s][i]
          /\ queue'[s][Len(queue[s]) + 1] = n
      BY <1>2, <2>5, AppendProperties
    <3>2. ASSUME NEW i \in 1 .. Len(queue'[s]) PROVE queue'[s][i] >= joined[s] + i
      <4>1. i \in 1 .. Len(queue[s]) \/ i = Len(queue[s]) + 1
        BY <1>2, <3>1
      <4>2. CASE i \in 1 .. Len(queue[s])
        BY <1>2, <3>1, <4>2 DEF Refused
      <4>3. CASE i = Len(queue[s]) + 1
        <5>1. n >= joined[s] + i
          BY <2>3, <4>3
        <5>2. queue'[s][i] = n
          BY <3>1, <4>3
        <5> QED
          BY <5>1, <5>2
      <4> QED
        BY <4>1, <4>2, <4>3
    <3>3. stage'[s] # "idle" => joined'[s] <= Len(events')
      BY <1>1, <1>2, <2>2
    <3>4. stage'[s] # "idle"
      BY <1>1, <2>2
    <3>5. \A k \in dropped'[s] : k - joined'[s] > MaxQueue
      <4>1. \A k \in dropped[s] : k - joined[s] > MaxQueue
        BY <1>2 DEF Refused
      <4>2. dropped'[s] = dropped[s] /\ joined'[s] = joined[s]
        BY <1>1, <2>5
      <4> QED
        BY <4>1, <4>2
    <3>6. Refused(s)'
      BY <1>1, <3>2, <3>3, <3>4, <3>5 DEF Refused
    <3> QED
      BY <1>3, <3>6 DEF FeedOk
  <2> QED
    BY <2>1, <2>4, <2>5
<1> QED
  BY <1>4, <1>5

LEMMA FeedStep == FeedInv /\ [Next]_vars => FeedInv'
<1> SUFFICES ASSUME FeedInv, [Next]_vars, NEW s \in Subs PROVE FeedOk(s)'
  BY StreamStep, GapStep DEF FeedInv
<1>1. ASSUME NEW c \in Contents, Publish(c) PROVE FeedOk(s)'
  BY <1>1, FeedPublished
<1>2. ASSUME NEW u \in Subs, NEW f, NEW n \in Sinces, Subscribe(u, f, n) PROVE FeedOk(s)'
  <2>1. CASE u = s
    <3>1. /\ stage[s] = "idle" /\ stage'[s] = "opened" /\ joined'[s] = Len(events)
          /\ UNCHANGED <<events, queue, dropped>>
      BY <1>2, <2>1 DEF Subscribe, Goto, FeedInv, StreamInv, StreamTypes, GapInv, QueueTypes
    <3>2. Len(events) \in Nat /\ queue[s] = <<>> /\ dropped[s] = {}
      BY <3>1, FeedTypes DEF FeedInv, FeedOk, Refused
    <3>3. Evicted(s)' /\ Emptied(s)'
      BY <3>1 DEF Evicted, Emptied
    <3>4. Refused(s)'
      BY <3>1, <3>2 DEF Refused
    <3> QED
      BY <3>3, <3>4 DEF FeedOk
  <2>2. CASE u # s
    BY <1>2, <2>2, FeedLeft DEF Subscribe, Goto, FeedInv, StreamInv, StreamTypes, GapInv,
       QueueTypes
  <2> QED
    BY <2>1, <2>2
<1>3. ASSUME NEW u \in Subs, \/ Connect(u) \/ Disconnect(u) \/ DisconnectUnstarted(u)
                             \/ ReplayYield(u) \/ ReplayEnd(u)
      PROVE  FeedOk(s)'
  <2>0. /\ UNCHANGED <<events, joined, floor, dropped, queue>> /\ subscribers' \subseteq subscribers
        /\ stage[u] # "idle" /\ stage'[u] # "idle"
        /\ stage'[u] \in {"replaying", "live"} => stage[u] \in {"replaying", "live"}
        /\ stage'[u] = "live" => outbox'[u] = <<>>
        /\ \A t \in Subs : t # u => stage'[t] = stage[t] /\ outbox'[t] = outbox[t]
    BY <1>3 DEF Connect, Disconnect, DisconnectUnstarted, ReplayYield, ReplayEnd, Goto,
       requestVars, FeedInv, StreamInv, StreamTypes
  <2>1. CASE u = s
    <3>1. Evicted(s)' /\ Emptied(s)'
      BY <2>0, <2>1, FeedTypes DEF Evicted, Emptied
    <3> QED
      BY <2>0, <2>1, <3>1, FeedMoved
  <2>2. CASE u # s
    BY <2>0, <2>2, FeedLeft
  <2> QED
    BY <2>1, <2>2
<1>4. ASSUME NEW u \in Subs, Replay(u) PROVE FeedOk(s)'
  <2>0. /\ UNCHANGED <<events, joined, dropped, queue, subscribers>>
        /\ stage[u] = "connected" /\ stage'[u] = "replaying"
        /\ floor'[u] = Len(events) - Len(buffer)
        /\ \A t \in Subs : t # u => /\ stage'[t] = stage[t] /\ outbox'[t] = outbox[t]
                                    /\ floor'[t] = floor[t]
    BY <1>4 DEF Replay, Goto, requestVars, FeedInv, StreamInv, StreamTypes, GapInv, QueueTypes
  <2>1. CASE u = s
    <3>1. /\ Len(events) \in Nat /\ Len(buffer) \in Nat /\ ReplaySize \in Nat
          /\ Len(buffer) = IF Len(events) < ReplaySize THEN Len(events) ELSE ReplaySize
      BY RingPositions, HubAssumption DEF FeedInv, StreamInv, RingInv, BufferIsRecent
    <3>2. Evicted(s)' /\ Emptied(s)'
      BY <2>0, <2>1, <3>1 DEF Evicted, Emptied
    <3> QED
      BY <2>0, <2>1, <3>2, FeedMoved
  <2>2. CASE u # s
    BY <2>0, <2>2, FeedLeft
  <2> QED
    BY <2>1, <2>2
<1>5. ASSUME NEW u \in Subs, LiveYield(u) \/ LiveSkip(u) PROVE FeedOk(s)'
  <2>1. CASE u # s
    BY <1>5, <2>1, FeedLeft DEF LiveYield, LiveSkip, requestVars, FeedInv, StreamInv, StreamTypes
  <2> QED
    BY <1>5, <2>1, FeedTaken
<1>6. CASE UNCHANGED vars
  BY <1>6, FeedLeft DEF vars, requestVars
<1> QED
  BY <1>1, <1>2, <1>3, <1>4, <1>5, <1>6 DEF Next, GenStep

-----------------------------------------------------------------------------
(* The refinement: the steps of the feed                                    *)

(* The cursor of a stream is behind nothing it yielded and not behind its  *)
(* since; a later event is one it has not yielded.                         *)
LEMMA CursorIs ==
  ASSUME FeedInv, NEW s \in Subs
  PROVE  /\ feedCursor[s] \in Nat /\ feedCursor[s] >= since[s]
         /\ \A i \in 1 .. Len(delivered[s]) : delivered[s][i] <= feedCursor[s]
         /\ \A n \in Nat : n > since[s] /\ Below(delivered[s], n) => n > feedCursor[s]
<1>1. /\ delivered[s] \in Seq(Nat) /\ Len(delivered[s]) \in Nat
      /\ since[s] \in Nat
      /\ \A i \in 1 .. Len(delivered[s]) : delivered[s][i] \in Nat /\ delivered[s][i] > since[s]
      /\ \A i, j \in 1 .. Len(delivered[s]) : i < j => delivered[s][i] < delivered[s][j]
  BY GapState, ElementOfSeq DEF FeedInv, StreamInv, StreamOk, Yielded, Increasing
<1>2. CASE delivered[s] = <<>>
  <2>1. feedCursor[s] = since[s] /\ Len(delivered[s]) = 0
    BY <1>2 DEF feedCursor
  <2> QED
    BY <1>1, <2>1
<1>3. CASE delivered[s] # <<>>
  <2> DEFINE l == Len(delivered[s])
  <2>1. feedCursor[s] = delivered[s][l] /\ l \in 1 .. l
    BY <1>1, <1>3, EmptySeq DEF feedCursor
  <2>2. ASSUME NEW i \in 1 .. l PROVE delivered[s][i] <= delivered[s][l]
    BY <1>1, <2>1, <2>2
  <2>3. \A n \in Nat : Below(delivered[s], n) => delivered[s][l] < n
    BY <2>1 DEF Below
  <2>4. delivered[s][l] \in Nat /\ delivered[s][l] > since[s]
    BY <1>1, <2>1
  <2> HIDE DEF l
  <2> QED
    BY <1>1, <2>1, <2>2, <2>3, <2>4 DEF l
<1> QED
  BY <1>2, <1>3

(* A delivery of the hub is one of the feed, if what the stream wants and  *)
(* has passed over is nowhere in the hub.                                  *)
LEMMA Delivers ==
  ASSUME FeedInv, NEW s \in Subs, NEW n \in 1 .. Len(events),
         stage[s] \in {"replaying", "live"}, Wanted(s, n), Below(delivered[s], n),
         \A k \in 1 .. n - 1 : Wanted(s, k) => ~(\E i \in 1 .. Len(outbox[s]) : outbox[s][i] = k),
         \A k \in 1 .. n - 1 : Matches(s, k) => ~(\E i \in 1 .. Len(queue[s]) : queue[s][i] = k),
         delivered' = [delivered EXCEPT ![s] = Append(@, n)],
         UNCHANGED <<events, stage, filter, since, joined>>
  PROVE  Feed!Deliver(s)
<1>1. /\ Len(events) \in Nat /\ n \in Nat /\ feedCursor[s] \in Nat
      /\ \A k \in 1 .. Len(events) : events[k] \in Contents
      /\ feedCursor[s] < n /\ since[s] <= feedCursor[s] /\ since[s] \in Nat
      /\ \A i \in 1 .. Len(delivered[s]) : delivered[s][i] <= feedCursor[s]
  BY CursorIs, FeedTypes, GapState, ElementOfSeq DEF FeedInv, StreamInv, RingInv, Wanted
<1>2. feedState[s] = "open" /\ feedState \in [Subs -> {"absent", "open", "gone"}]
  BY DEF feedState
<1>3. \A k \in 1 .. Len(events) : events[k] \in feedWant[s] <=> Accepts(filter[s], events[k])
  BY <1>1 DEF feedWant
<1>4. UNCHANGED <<feedState, feedWant>>
  BY DEF feedState, feedWant, Accepts
<1>5. feedCursor' = [feedCursor EXCEPT ![s] = n]
  <2>1. /\ delivered[s] \in Seq(Nat) /\ delivered' \in [Subs -> Seq(Nat)]
        /\ delivered'[s] = Append(delivered[s], n)
        /\ \A u \in Subs : u # s => delivered'[u] = delivered[u]
    BY <1>1 DEF FeedInv, StreamInv, StreamTypes
  <2>2. /\ delivered'[s] # <<>>
        /\ delivered'[s][Len(delivered'[s])] = n
    BY <1>1, <2>1
  <2> QED
    BY <2>1, <2>2 DEF feedCursor
<1>6. ASSUME NEW k \in feedCursor[s] + 1 .. n - 1, events[k] \in feedWant[s]
      PROVE  Feed!MayMiss(s, k)
  <2>1. k \in 1 .. Len(events) /\ k \in 1 .. n - 1 /\ k > feedCursor[s] /\ k \in Nat
    BY <1>1
  <2>2. Wanted(s, k)
    BY <1>1, <1>3, <1>6, <2>1 DEF Wanted
  <2>3. ~Holds(s, k)
    <3>1. \A i \in 1 .. Len(delivered[s]) : delivered[s][i] # k
      <4>1. \A i \in 1 .. Len(delivered[s]) : delivered[s][i] \in Nat
        BY GapState, ElementOfSeq DEF FeedInv
      <4> QED
        BY <1>1, <2>1, <4>1
    <3> QED
      BY <2>1, <2>2, <3>1 DEF Holds
  <2>4. ~(k > floor[s]) \/ k \in dropped[s]
    BY <2>1, <2>2, <2>3 DEF FeedInv, GapInv, GapOk, NoGap
  <2>5. CASE ~(k > floor[s])
    <3>1. floor[s] \in Nat /\ ReplaySize \in Nat /\ Evicted(s)
      BY FeedTypes
    <3> QED
      BY <1>1, <2>1, <2>5, <3>1 DEF Evicted, Feed!MayMiss
  <2>6. CASE k \in dropped[s]
    BY <2>6, FeedTypes DEF Refused, Feed!MayMiss
  <2> QED
    BY <2>4, <2>5, <2>6
<1>7. n \in feedCursor[s] + 1 .. Len(events) /\ events[n] \in feedWant[s]
  BY <1>1, <1>3 DEF Wanted
<1> QED
  BY <1>2, <1>4, <1>5, <1>6, <1>7 DEF Feed!Deliver

LEMMA DeliversReplayed ==
  ASSUME FeedInv, NEW s \in Subs, ReplayYield(s)
  PROVE  Feed!Deliver(s)
<1> DEFINE o == outbox[s]
<1>1. PICK k \in DOMAIN o :
        /\ Wanted(s, o[k])
        /\ \A j \in 1 .. k - 1 : ~Wanted(s, o[j])
        /\ delivered' = [delivered EXCEPT ![s] = Append(@, o[k])]
  BY DEF ReplayYield
<1>2. /\ stage[s] = "replaying"
      /\ UNCHANGED <<events, stage, filter, since, joined>>
  BY DEF ReplayYield, requestVars
<1>3. /\ o \in Seq(Nat) /\ Len(o) \in Nat /\ k \in 1 .. Len(o)
      /\ \A i \in 1 .. Len(o) : o[i] \in Nat
  BY <1>1, LenProperties, ElementOfSeq DEF FeedInv, StreamInv, StreamTypes
<1>4. /\ \A i, j \in 1 .. Len(o) : i < j => o[i] < o[j]
      /\ \A i \in 1 .. Len(o) : /\ o[i] \in 1 .. Len(events)
                                /\ Below(delivered[s], o[i])
                                /\ Wanted(s, o[i]) => o[i] <= lastSeq[s]
  BY <1>2 DEF FeedInv, StreamInv, StreamOk, Replaying, Increasing
<1> HIDE DEF o
<1>5. ASSUME NEW m \in 1 .. o[k] - 1, Wanted(s, m), NEW i \in 1 .. Len(o), o[i] = m
      PROVE  FALSE
  <2>1. ~(i < k)
    <3>1. i < k => i \in 1 .. k - 1
      BY <1>3
    <3>2. i \in 1 .. k - 1 => ~Wanted(s, o[i])
      BY <1>1
    <3> QED
      BY <1>5, <3>1, <3>2
  <2>2. o[i] < o[k] /\ o[i] \in Nat /\ o[k] \in Nat
    BY <1>3, <1>5
  <2>3. i = k \/ k < i
    BY <1>3, <2>1
  <2>4. k < i => o[k] < o[i]
    BY <1>3, <1>4
  <2> QED
    BY <2>2, <2>3, <2>4
<1>6. ASSUME NEW m \in 1 .. o[k] - 1 PROVE ~Matches(s, m)
  <2>1. o[k] <= lastSeq[s] /\ lastSeq[s] \in Nat /\ o[k] \in Nat
    BY <1>1, <1>3, <1>4, GapState DEF FeedInv
  <2> QED
    BY <2>1 DEF Matches
<1> QED
  BY <1>1, <1>2, <1>3, <1>4, <1>5, <1>6, Delivers DEF o

LEMMA DeliversLive ==
  ASSUME FeedInv, NEW s \in Subs, LiveYield(s)
  PROVE  Feed!Deliver(s)
<1> DEFINE h == queue[s][1]
<1>1. /\ stage[s] = "live" /\ queue[s] # <<>> /\ queue[s] \in Seq(Nat)
      /\ Head(queue[s]) = h /\ Matches(s, h)
      /\ delivered' = [delivered EXCEPT ![s] = Append(@, h)]
      /\ UNCHANGED <<events, stage, filter, since, joined>>
  BY FeedTypes DEF LiveYield, requestVars
<1>2. /\ Len(queue[s]) \in Nat /\ 1 \in 1 .. Len(queue[s]) /\ h \in Nat
      /\ \A i \in 1 .. Len(queue[s]) : queue[s][i] \in Nat
      /\ since[s] \in Nat /\ lastSeq[s] \in Nat /\ Len(events) \in Nat
  BY <1>1, GapState, EmptySeq DEF FeedInv
<1>3. /\ h <= Len(events)
      /\ \A i \in 1 .. Len(queue[s]) : i # 1 => queue[s][i] > h
      /\ outbox[s] = <<>>
  BY <1>1, <1>2, FeedTypes DEF FeedInv, GapInv, GapOk, Queued, Increasing, Emptied
<1>4. since[s] <= lastSeq[s] /\ Below(delivered[s], lastSeq[s] + 1) /\ h > lastSeq[s]
  BY <1>1 DEF FeedInv, StreamInv, StreamOk, Cursor, Matches
<1>5. Wanted(s, h) /\ h \in 1 .. Len(events)
  BY <1>1, <1>2, <1>3, <1>4 DEF Wanted, Matches
<1>6. Below(delivered[s], h)
  <2>1. \A i \in 1 .. Len(delivered[s]) : delivered[s][i] \in Nat
    BY GapState, ElementOfSeq DEF FeedInv
  <2>2. \A i \in 1 .. Len(delivered[s]) : delivered[s][i] < lastSeq[s] + 1
    BY <1>4 DEF Below
  <2>3. ASSUME NEW i \in 1 .. Len(delivered[s]) PROVE delivered[s][i] < h
    <3>1. delivered[s][i] \in Nat /\ delivered[s][i] < lastSeq[s] + 1
      BY <2>1, <2>2
    <3> QED
      BY <1>2, <1>4, <3>1
  <2> QED
    BY <2>3 DEF Below
<1>7. \A k \in 1 .. h - 1 : ~(\E i \in 1 .. Len(queue[s]) : queue[s][i] = k)
  BY <1>2, <1>3
<1>8. \A k \in 1 .. h - 1 : ~(\E i \in 1 .. Len(outbox[s]) : outbox[s][i] = k)
  BY <1>3
<1>9. PICK n \in Nat : n = h
  BY <1>2
<1>10. /\ delivered' = [delivered EXCEPT ![s] = Append(@, n)]
       /\ n \in 1 .. Len(events) /\ Wanted(s, n) /\ Below(delivered[s], n)
  BY <1>1, <1>5, <1>6, <1>9
<1>11. /\ \A k \in 1 .. n - 1 : ~(\E i \in 1 .. Len(outbox[s]) : outbox[s][i] = k)
       /\ \A k \in 1 .. n - 1 : ~(\E i \in 1 .. Len(queue[s]) : queue[s][i] = k)
  BY <1>7, <1>8, <1>9
<1> HIDE DEF h
<1> QED
  BY <1>1, <1>10, <1>11, Delivers

LEMMA OpensFeed ==
  ASSUME FeedInv, NEW s \in Subs, NEW f \in Filters, NEW n \in Sinces, Subscribe(s, f, n)
  PROVE  Feed!Open(s)
<1>1. /\ stage[s] = "idle" /\ stage'[s] = "opened"
      /\ \A u \in Subs : u # s => /\ stage'[u] = stage[u] /\ filter'[u] = filter[u]
                                  /\ since'[u] = since[u]
      /\ filter'[s] = f /\ since'[s] = Clamp(n)
      /\ joined' = [joined EXCEPT ![s] = Len(events)]
      /\ delivered[s] = <<>> /\ UNCHANGED <<events, delivered>>
  BY DEF Subscribe, Goto, FeedInv, StreamInv, StreamTypes, StreamOk, Fresh
<1>2. feedState[s] = "absent" /\ feedState' = [feedState EXCEPT ![s] = "open"]
  BY <1>1 DEF feedState
<1>3. feedWant' = [feedWant EXCEPT ![s] = {c \in Contents : Accepts(f, c)}]
  BY <1>1 DEF feedWant
<1>4. feedCursor' = [feedCursor EXCEPT ![s] = Clamp(n)]
  BY <1>1 DEF feedCursor
<1> QED
  BY <1>1, <1>2, <1>3, <1>4 DEF Feed!Open

LEMMA ClosesFeed ==
  ASSUME FeedInv, NEW s \in Subs, Disconnect(s) \/ DisconnectUnstarted(s)
  PROVE  Feed!Close(s)
<1>1. /\ stage[s] \notin {"idle", "closed", "orphaned"}
      /\ stage'[s] \in {"closed", "orphaned"}
      /\ \A u \in Subs : u # s => stage'[u] = stage[u]
      /\ UNCHANGED <<events, filter, since, joined, delivered>>
  BY DEF Disconnect, DisconnectUnstarted, Goto, requestVars, FeedInv, StreamInv, StreamTypes
<1>2. feedState[s] = "open" /\ feedState' = [feedState EXCEPT ![s] = "gone"]
  BY <1>1 DEF feedState
<1>3. UNCHANGED feedWant
  <2>1. \A u \in Subs, c \in Contents :
          (stage'[u] # "idle" /\ Accepts(filter[u], c)) <=> (stage[u] # "idle" /\ Accepts(filter[u], c))
    BY <1>1
  <2> QED
    BY <1>1, <2>1 DEF feedWant
<1>4. UNCHANGED feedCursor
  BY <1>1 DEF feedCursor
<1> QED
  BY <1>1, <1>2, <1>3, <1>4 DEF Feed!Close

(* A step inside a stream that yields nothing is none of the feed.         *)
LEMMA FeedStutters ==
  ASSUME FeedInv, NEW s \in Subs, Connect(s) \/ Replay(s) \/ ReplayEnd(s) \/ LiveSkip(s)
  PROVE  UNCHANGED Feed!feedVars
<1>1. /\ stage[s] \notin {"idle", "closed", "orphaned"}
      /\ stage'[s] \notin {"idle", "closed", "orphaned"}
      /\ \A u \in Subs : u # s => stage'[u] = stage[u]
      /\ UNCHANGED <<events, filter, since, joined, delivered>>
  BY DEF Connect, Replay, ReplayEnd, LiveSkip, Goto, requestVars, FeedInv, StreamInv, StreamTypes
<1>2. UNCHANGED feedState
  BY <1>1 DEF feedState
<1>3. UNCHANGED feedWant
  <2>1. \A u \in Subs, c \in Contents :
          (stage'[u] # "idle" /\ Accepts(filter[u], c)) <=> (stage[u] # "idle" /\ Accepts(filter[u], c))
    BY <1>1
  <2> QED
    BY <1>1, <2>1 DEF feedWant
<1>4. UNCHANGED feedCursor
  BY <1>1 DEF feedCursor
<1> QED
  BY <1>1, <1>2, <1>3, <1>4 DEF Feed!feedVars

LEMMA FeedNext == FeedInv /\ [Next]_vars => [Feed!Next]_(Feed!feedVars)
<1> SUFFICES ASSUME FeedInv, [Next]_vars PROVE Feed!Next \/ UNCHANGED Feed!feedVars
  OBVIOUS
<1>1. ASSUME NEW c \in Contents, Publish(c) PROVE Feed!Next
  BY <1>1 DEF Publish, requestVars, Feed!Next, Feed!Publish, feedState, feedWant, feedCursor
<1>2. ASSUME NEW s \in Subs, NEW f \in Filters, NEW n \in Sinces, Subscribe(s, f, n)
      PROVE  Feed!Next
  BY <1>2, OpensFeed DEF Feed!Next
<1>3. ASSUME NEW s \in Subs, GenStep(s) PROVE Feed!Next \/ UNCHANGED Feed!feedVars
  BY <1>3, DeliversReplayed, DeliversLive, FeedStutters DEF GenStep, Feed!Next
<1>4. ASSUME NEW s \in Subs, Disconnect(s) \/ DisconnectUnstarted(s) PROVE Feed!Next
  BY <1>4, ClosesFeed DEF Feed!Next
<1>5. CASE UNCHANGED vars
  BY <1>5 DEF vars, requestVars, Feed!feedVars, feedState, feedWant, feedCursor
<1> QED
  BY <1>1, <1>2, <1>3, <1>4, <1>5 DEF Next

(* The hub implements the feed it promises (hub.py:3-8): with rings, full  *)
(* queues, cursors and the handoff hidden, each stream gets the events it  *)
(* wants in order and at most once, and passes over one only if replay_size*)
(* newer ones exist or more than MAX_QUEUE were published up to it.        *)
THEOREM HubImplementsFeed == Spec => ImplementsFeed
<1>1. Init => Feed!Init
  BY DEF Init, Feed!Init, feedState, feedWant, feedCursor
<1>2. FeedInv /\ [Next]_vars => FeedInv'
  BY FeedStep
<1>3. FeedInv /\ [Next]_vars => [Feed!Next]_(Feed!feedVars)
  BY FeedNext
<1> QED
  BY <1>1, <1>2, <1>3, FeedInit, PTL DEF Spec, ImplementsFeed, Feed!Spec
=============================================================================
