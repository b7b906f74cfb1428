----------------------- MODULE MessagesTranslatorProofs -----------------------
(***************************************************************************)
(* Proofs about MessagesTranslator, for any messages, tool-call fragments  *)
(* and streams of any length.                                              *)
(*                                                                         *)
(* The frames out are well formed if each is permitted by those before it, *)
(* a condition a longer trace keeps.  The invariant ties the emitters to   *)
(* the frames out, so that what the code looks up in an emitter says       *)
(* whether the next frame is permitted; the properties are then read off   *)
(* the trace.                                                              *)
(***************************************************************************)
EXTENDS MessagesTranslator, Induction, SequenceTheorems, FiniteSetTheorems, TLAPS

-----------------------------------------------------------------------------
(* Traces of frames                                                         *)

Fr(event, m, i) == [event |-> event, msg |-> m, index |-> i]
Out(F) == {F[k] : k \in DOMAIN F}
Before(F, k) == {F[j] : j \in 1 .. k - 1}

(* Message m was started and not finished by the frames of S.              *)
IsOpen(S, m) == /\ Fr("message-start", m, NoIndex) \in S
                /\ Fr("message-finish", m, NoIndex) \notin S

(* Frame f may come after those of S.                                      *)
Permitted(S, f) ==
  /\ f.event \in {"message-start", "message-finish"} => f.index = NoIndex
  /\ f.event \in {"content-block-start", "block-delta", "content-block-finish"} => f.index \in Nat
  /\ f.event = "message-start" => f \notin S /\ \A n \in Ids : ~IsOpen(S, n)
  /\ f.event # "message-start" => \A n \in Ids : IsOpen(S, n) <=> n = f.msg
  /\ f.event = "content-block-start" => f \notin S
  /\ f.event \in {"block-delta", "content-block-finish"} =>
       /\ Fr("content-block-start", f.msg, f.index) \in S
       /\ Fr("content-block-finish", f.msg, f.index) \notin S
  /\ f.event = "message-finish" =>
       \A i \in Nat : Fr("content-block-start", f.msg, i) \in S =>
                        Fr("content-block-finish", f.msg, i) \in S

WellFormed(F) == \A k \in DOMAIN F : Permitted(Before(F, k), F[k])

Texts(F, m) == {k \in DOMAIN F : F[k].msg = m /\ F[k].event = "text-delta"}

-----------------------------------------------------------------------------
(* The invariant                                                            *)

Emitter == [started : BOOLEAN, finished : BOOLEAN, textIndex : Nat \cup {NoIndex},
            blocks : SUBSET Nat, nextIndex : Nat]
States == UNION {[order : Seq(Ids), emitter : [D -> Emitter], frames : Seq(Frame)] :
                   D \in SUBSET Ids}

Translator(o, E, F) == [order |-> o, emitter |-> E, frames |-> F]

(* The messages of _open, each once.                                       *)
Listed(order, D) == order \in Seq(Ids) /\ D = ToSet(order) /\ IsInjective(order)

(* The emitter e of message m says what the frames of S say of it; T are   *)
(* the blocks finished so far, while the message is being finished.        *)
Agrees(S, m, e, T) ==
  /\ Fr("message-start", m, NoIndex) \in S <=> e.started
  /\ Fr("message-finish", m, NoIndex) \in S <=> e.finished
  /\ e.finished => e.started
  /\ \A i \in Nat : Fr("content-block-start", m, i) \in S <=> i \in e.blocks
  /\ \A i \in Nat : Fr("content-block-finish", m, i) \in S <=>
                      i \in (IF e.finished THEN e.blocks ELSE T)
  /\ \E b \in Nat : e.blocks \subseteq 0 .. b

(* c[m] texts were fed for message m.                                      *)
Counted(F, m, known, finished, c) ==
  /\ ~known => c[m] = 0
  /\ known /\ ~finished => Cardinality(Texts(F, m)) = c[m]

Tracks(st, T, c) ==
  /\ st \in States
  /\ Listed(st.order, DOMAIN st.emitter)
  /\ WellFormed(st.frames)
  /\ \A f \in Out(st.frames) : Known(st, f.msg)
  /\ \A m \in DOMAIN st.emitter : Agrees(Out(st.frames), m, st.emitter[m], T)
  /\ \A m, n \in DOMAIN st.emitter :
       ~st.emitter[m].finished /\ ~st.emitter[n].finished => m = n
  /\ c \in [Ids -> Nat]
  /\ \A m \in Ids : Counted(st.frames, m, Known(st, m),
                            Known(st, m) /\ st.emitter[m].finished, c)

(* Between two calls: nothing is half done.                                *)
AllStarted(st) == \A m \in DOMAIN st.emitter : st.emitter[m].started
TranslatorInv == Tracks(tr, {}, fed) /\ AllStarted(tr)

-----------------------------------------------------------------------------
(* A trace and its next frame                                               *)

LEMMA Appended ==
  ASSUME NEW F \in Seq(Frame), NEW f \in Frame
  PROVE  LET n == Len(F)
             G == Append(F, f)
         IN  /\ n \in Nat /\ DOMAIN F = 1 .. n /\ DOMAIN G = 1 .. n + 1
             /\ \A k \in 1 .. n : G[k] = F[k]
             /\ G[n + 1] = f
             /\ G \in Seq(Frame)
             /\ Out(G) = Out(F) \cup {f}
<1> DEFINE n == Len(F)
           G == Append(F, f)
<1>1. /\ n \in Nat /\ DOMAIN F = 1 .. n /\ DOMAIN G = 1 .. n + 1
      /\ \A k \in 1 .. n : G[k] = F[k]
      /\ G[n + 1] = f
      /\ G \in Seq(Frame)
  OBVIOUS
<1> HIDE DEF n, G
<1>2. 1 .. n + 1 = (1 .. n) \cup {n + 1}
  BY <1>1
<1>3. Out(G) = Out(F) \cup {f}
  BY <1>1, <1>2 DEF Out
<1> QED
  BY <1>1, <1>3 DEF n, G

LEMMA WellFormedAppend ==
  ASSUME NEW F \in Seq(Frame), NEW f \in Frame, WellFormed(F), Permitted(Out(F), f)
  PROVE  WellFormed(Append(F, f))
<1> DEFINE n == Len(F)
           G == Append(F, f)
<1>1. /\ n \in Nat /\ DOMAIN F = 1 .. n /\ DOMAIN G = 1 .. n + 1
      /\ \A k \in 1 .. n : G[k] = F[k]
      /\ G[n + 1] = f
  BY Appended
<1> HIDE DEF n, G
<1>2. ASSUME NEW k \in 1 .. n PROVE Before(G, k) = Before(F, k)
  <2>1. \A j \in 1 .. k - 1 : G[j] = F[j]
    BY <1>1
  <2> QED
    BY <2>1 DEF Before
<1>3. Before(G, n + 1) = Out(F)
  <2>1. 1 .. (n + 1) - 1 = 1 .. n
    BY <1>1
  <2> QED
    BY <1>1, <2>1 DEF Before, Out
<1>4. ASSUME NEW k \in 1 .. n + 1 PROVE Permitted(Before(G, k), G[k])
  <2>1. CASE k \in 1 .. n
    BY <1>1, <1>2, <2>1 DEF WellFormed
  <2>2. CASE k = n + 1
    BY <1>1, <1>3, <2>2
  <2> QED
    BY <1>1, <2>1, <2>2
<1> QED
  BY <1>1, <1>4 DEF WellFormed, G

LEMMA TextsCount ==
  ASSUME NEW F \in Seq(Frame), NEW m
  PROVE  IsFiniteSet(Texts(F, m)) /\ Cardinality(Texts(F, m)) \in Nat
<1>1. Len(F) \in Nat /\ DOMAIN F = 1 .. Len(F)
  OBVIOUS
<1>2. IsFiniteSet(1 .. Len(F))
  BY <1>1, FS_Interval
<1>3. Texts(F, m) \subseteq 1 .. Len(F)
  BY <1>1 DEF Texts
<1> QED
  BY <1>2, <1>3, FS_Subset, FS_CardinalityType

LEMMA TextsAppend ==
  ASSUME NEW F \in Seq(Frame), NEW f \in Frame, NEW m
  PROVE  /\ f.event = "text-delta" /\ f.msg = m =>
              Cardinality(Texts(Append(F, f), m)) = Cardinality(Texts(F, m)) + 1
         /\ ~(f.event = "text-delta" /\ f.msg = m) => Texts(Append(F, f), m) = Texts(F, m)
<1> DEFINE n == Len(F)
           G == Append(F, f)
<1>1. /\ n \in Nat /\ DOMAIN F = 1 .. n /\ DOMAIN G = 1 .. n + 1
      /\ \A k \in 1 .. n : G[k] = F[k]
      /\ G[n + 1] = f
  BY Appended
<1> HIDE DEF n, G
<1>2. 1 .. n + 1 = (1 .. n) \cup {n + 1} /\ n + 1 \notin 1 .. n
  BY <1>1
<1>3. CASE f.event = "text-delta" /\ f.msg = m
  <2>1. Texts(G, m) = Texts(F, m) \cup {n + 1} /\ n + 1 \notin Texts(F, m)
    BY <1>1, <1>2, <1>3 DEF Texts
  <2>2. IsFiniteSet(Texts(F, m))
    BY TextsCount
  <2>3. Cardinality(Texts(F, m) \cup {n + 1}) = Cardinality(Texts(F, m)) + 1
    BY <2>1, <2>2, FS_AddElement
  <2> QED
    BY <1>3, <2>1, <2>3 DEF G
<1>4. CASE ~(f.event = "text-delta" /\ f.msg = m)
  <2>1. Texts(G, m) = Texts(F, m)
    BY <1>1, <1>2, <1>4 DEF Texts
  <2> QED
    BY <1>4, <2>1 DEF G
<1> QED
  BY <1>3, <1>4

-----------------------------------------------------------------------------
(* One step of an emitter                                                   *)

LEMMA Parts ==
  ASSUME NEW o, NEW E, NEW F
  PROVE  /\ Translator(o, E, F).order = o
         /\ Translator(o, E, F).emitter = E
         /\ Translator(o, E, F).frames = F
  BY DEF Translator

LEMMA WithEmitter ==
  ASSUME NEW st, NEW o, NEW E, NEW F, st = Translator(o, E, F), NEW X
  PROVE  [st EXCEPT !.emitter = X] = Translator(o, X, F)
<1>1. st \in [order : {o}, emitter : {E}, frames : {F}]
  BY DEF Translator
<1>2. [st EXCEPT !.emitter = X] = [order |-> st.order, emitter |-> X, frames |-> st.frames]
  BY <1>1
<1>3. st.order = o /\ st.frames = F
  BY <1>1
<1> QED
  BY <1>2, <1>3 DEF Translator

LEMMA WithFrames ==
  ASSUME NEW st, NEW o, NEW E, NEW F, st = Translator(o, E, F), NEW X
  PROVE  [st EXCEPT !.frames = X] = Translator(o, E, X)
<1>1. st \in [order : {o}, emitter : {E}, frames : {F}]
  BY DEF Translator
<1>2. [st EXCEPT !.frames = X] = [order |-> st.order, emitter |-> st.emitter, frames |-> X]
  BY <1>1
<1>3. st.order = o /\ st.emitter = E
  BY <1>1
<1> QED
  BY <1>2, <1>3 DEF Translator

LEMMA StateParts ==
  ASSUME NEW st \in States
  PROVE  /\ st = Translator(st.order, st.emitter, st.frames)
         /\ st.order \in Seq(Ids) /\ st.frames \in Seq(Frame)
         /\ DOMAIN st.emitter \subseteq Ids
         /\ st.emitter \in [DOMAIN st.emitter -> Emitter]
<1>1. PICK D \in SUBSET Ids : st \in [order : Seq(Ids), emitter : [D -> Emitter], frames : Seq(Frame)]
  BY DEF States
<1> QED
  BY <1>1 DEF Translator

LEMMA StateMade ==
  ASSUME NEW D \in SUBSET Ids, NEW o \in Seq(Ids), NEW e \in [D -> Emitter], NEW F \in Seq(Frame)
  PROVE  Translator(o, e, F) \in States
  BY DEF States, Translator

(* A frame of another message changes nothing for a finished one.          *)
LEMMA AgreesOther ==
  ASSUME NEW S, NEW f \in Frame, NEW n, NEW e, NEW T, NEW U,
         f.msg # n, e.finished, Agrees(S, n, e, T)
  PROVE  Agrees(S \cup {f}, n, e, U)
<1>1. \A event, i : Fr(event, n, i) # f
  BY DEF Fr
<1> QED
  BY <1>1 DEF Agrees

(* The counts once frame f of message m is out.                            *)
Counting(c, m, f) == IF f.event = "text-delta" THEN [c EXCEPT ![m] = @ + 1] ELSE c

(* Message m, unfinished, has its emitter become e, and frame f out.       *)
LEMMA Emitted ==
  ASSUME NEW st, NEW T, NEW c, Tracks(st, T, c),
         NEW m \in DOMAIN st.emitter, ~st.emitter[m].finished,
         NEW e \in Emitter, NEW f \in Frame, f.msg = m,
         Permitted(Out(st.frames), f),
         NEW U, Agrees(Out(st.frames) \cup {f}, m, e, U),
         NEW d, d = Counting(c, m, f),
         NEW s, s = Translator(st.order, [st.emitter EXCEPT ![m] = e], Append(st.frames, f))
  PROVE  Tracks(s, U, d)
<1> DEFINE F == st.frames
           G == Append(F, f)
           E == st.emitter
           D == DOMAIN E
<1>1. /\ st \in States /\ Listed(st.order, D) /\ WellFormed(F)
      /\ \A g \in Out(F) : g.msg \in D
      /\ \A n \in D : Agrees(Out(F), n, E[n], T)
      /\ \A k, n \in D : ~E[k].finished /\ ~E[n].finished => k = n
      /\ c \in [Ids -> Nat]
      /\ \A n \in Ids : Counted(F, n, n \in D, n \in D /\ E[n].finished, c)
  BY DEF Tracks, Known
<1>2. /\ st.order \in Seq(Ids) /\ F \in Seq(Frame) /\ D \subseteq Ids /\ E \in [D -> Emitter]
  BY <1>1, StateParts
<1>3. G \in Seq(Frame) /\ Out(G) = Out(F) \cup {f}
  BY <1>2, Appended
<1>4. WellFormed(G)
  BY <1>1, <1>2, WellFormedAppend
<1> DEFINE E2 == [E EXCEPT ![m] = e]
<1>5. E2 \in [D -> Emitter] /\ E2[m] = e /\ DOMAIN E2 = D /\ \A n \in D : n # m => E2[n] = E[n]
  BY <1>2
<1>6. \A n \in D : n # m => E[n].finished
  BY <1>1
<1> HIDE DEF E2
<1>7. s.order = st.order /\ s.emitter = E2 /\ s.frames = G
  BY DEF E2, Translator
<1>8. s \in States
  BY <1>2, <1>3, <1>5, StateMade DEF E2
<1> HIDE DEF G, F, E, D
<1>9. ASSUME NEW n \in D PROVE Agrees(Out(G), n, E2[n], U)
  <2>1. CASE n = m
    BY <1>3, <1>5, <2>1 DEF F
  <2>2. CASE n # m
    BY <1>1, <1>3, <1>5, <1>6, <2>2, AgreesOther
  <2> QED
    BY <2>1, <2>2
<1>10. \A k, n \in D : ~E2[k].finished /\ ~E2[n].finished => k = n
  BY <1>5, <1>6
<1>11. m \in D /\ m \in Ids
  BY <1>2 DEF D, E
<1>12. /\ d \in [Ids -> Nat] /\ \A n \in Ids : n # m => d[n] = c[n]
       /\ d[m] = IF f.event = "text-delta" THEN c[m] + 1 ELSE c[m]
  BY <1>1, <1>11 DEF Counting
<1>13. ASSUME NEW n \in Ids PROVE Counted(G, n, n \in D, n \in D /\ E2[n].finished, d)
  <2>1. CASE n # m
    <3>1. Texts(G, n) = Texts(F, n)
      BY <1>2, <2>1, TextsAppend DEF G
    <3> QED
      BY <1>1, <1>5, <1>12, <2>1, <3>1 DEF Counted
  <2>2. CASE n = m
    <3>1. Cardinality(Texts(F, m)) = c[m] /\ c[m] \in Nat
      BY <1>1, <1>11 DEF Counted, E
    <3>2. Cardinality(Texts(G, m)) = d[m]
      BY <1>1, <1>2, <1>11, <1>12, <3>1, TextsAppend DEF G
    <3> QED
      BY <1>11, <2>2, <3>2 DEF Counted
  <2> QED
    BY <2>1, <2>2
<1>14. \A g \in Out(G) : g.msg \in D
  BY <1>1, <1>3, <1>11
<1>15. Listed(s.order, DOMAIN s.emitter)
  BY <1>1, <1>5, <1>7
<1>16. DOMAIN s.emitter = D
  BY <1>5, <1>7
<1>17. \A n : Known(s, n) <=> n \in D
  BY <1>16 DEF Known
<1>18. \A n \in DOMAIN s.emitter : Agrees(Out(s.frames), n, s.emitter[n], U)
  BY <1>7, <1>9, <1>16
<1>19. \A k, n \in DOMAIN s.emitter :
         ~s.emitter[k].finished /\ ~s.emitter[n].finished => k = n
  BY <1>7, <1>10, <1>16
<1>20. WellFormed(s.frames) /\ \A g \in Out(s.frames) : Known(s, g.msg)
  BY <1>4, <1>7, <1>14, <1>17
<1>21. \A n \in Ids : Counted(s.frames, n, Known(s, n), Known(s, n) /\ s.emitter[n].finished, d)
  <2> TAKE n \in Ids
  <2>1. Known(s, n) = (n \in D) /\ s.emitter = E2 /\ s.frames = G
    BY <1>7, <1>17 DEF Known
  <2>2. Counted(G, n, n \in D, n \in D /\ E2[n].finished, d)
    BY <1>13
  <2> QED
    BY <2>1, <2>2
<1> QED
  BY <1>8, <1>12, <1>15, <1>18, <1>19, <1>20, <1>21 DEF Tracks

(* An index is allocated, no frame is out.                                 *)
LEMMA Noted ==
  ASSUME NEW st, NEW T, NEW c, Tracks(st, T, c),
         NEW m \in DOMAIN st.emitter, NEW e \in Emitter,
         e.started = st.emitter[m].started, e.finished = st.emitter[m].finished,
         e.blocks = st.emitter[m].blocks,
         NEW s, s = Translator(st.order, [st.emitter EXCEPT ![m] = e], st.frames)
  PROVE  Tracks(s, T, c)
<1> DEFINE E == st.emitter
           D == DOMAIN E
           E2 == [E EXCEPT ![m] = e]
<1>1. /\ st.order \in Seq(Ids) /\ st.frames \in Seq(Frame) /\ D \subseteq Ids /\ E \in [D -> Emitter]
  BY StateParts DEF Tracks
<1>2. /\ E2 \in [D -> Emitter] /\ DOMAIN E2 = D
      /\ \A n \in D : E2[n].started = E[n].started /\ E2[n].finished = E[n].finished
                      /\ E2[n].blocks = E[n].blocks
  BY <1>1
<1>3. s.order = st.order /\ s.emitter = E2 /\ s.frames = st.frames /\ s \in States
  BY <1>1, <1>2, StateMade DEF Translator
<1> HIDE DEF E2
<1>4. \A n \in D : Agrees(Out(s.frames), n, E2[n], T)
  BY <1>2, <1>3 DEF Tracks, Agrees
<1>5. \A n \in Ids : Counted(s.frames, n, n \in D, n \in D /\ E2[n].finished, c)
  BY <1>2, <1>3 DEF Tracks, Counted, Known
<1> QED
  BY <1>2, <1>3, <1>4, <1>5 DEF Tracks, Known

-----------------------------------------------------------------------------
(* What the emitter says of the open messages                               *)

(* m is a known message that is not finished.                              *)
InHand(st, m) == m \in DOMAIN st.emitter /\ ~st.emitter[m].finished

LEMMA HandParts ==
  ASSUME NEW st, NEW T, NEW c, Tracks(st, T, c), NEW m, InHand(st, m)
  PROVE  /\ m \in DOMAIN st.emitter /\ m \in Ids /\ st.emitter[m] \in Emitter
         /\ st.emitter \in [DOMAIN st.emitter -> Emitter] /\ DOMAIN st.emitter \subseteq Ids
         /\ Agrees(Out(st.frames), m, st.emitter[m], T)
         /\ ~st.emitter[m].finished
         /\ st = Translator(st.order, st.emitter, st.frames)
         /\ st.order \in Seq(Ids) /\ st.frames \in Seq(Frame)
  BY StateParts DEF Tracks, InHand

LEMMA NotOpen ==
  ASSUME NEW st, NEW T, NEW c, Tracks(st, T, c), NEW n \in Ids,
         n \in DOMAIN st.emitter => st.emitter[n].finished \/ ~st.emitter[n].started
  PROVE  ~IsOpen(Out(st.frames), n)
<1>1. CASE n \in DOMAIN st.emitter
  <2>1. Agrees(Out(st.frames), n, st.emitter[n], T)
    BY <1>1 DEF Tracks
  <2> QED
    BY <1>1, <2>1 DEF Agrees, IsOpen
<1>2. CASE n \notin DOMAIN st.emitter
  <2>1. \A f \in Out(st.frames) : f.msg # n
    BY <1>2 DEF Tracks, Known
  <2> QED
    BY <2>1 DEF IsOpen, Fr
<1> QED
  BY <1>1, <1>2

LEMMA OthersNotOpen ==
  ASSUME NEW st, NEW T, NEW c, Tracks(st, T, c), NEW m, InHand(st, m), NEW n \in Ids, n # m
  PROVE  ~IsOpen(Out(st.frames), n)
<1>1. n \in DOMAIN st.emitter => st.emitter[n].finished
  BY DEF Tracks, InHand
<1> QED
  BY <1>1, NotOpen

LEMMA HandOpen ==
  ASSUME NEW st, NEW T, NEW c, Tracks(st, T, c), NEW m, InHand(st, m), st.emitter[m].started
  PROVE  \A n \in Ids : IsOpen(Out(st.frames), n) <=> n = m
<1>1. IsOpen(Out(st.frames), m)
  BY HandParts DEF Agrees, IsOpen
<1> QED
  BY <1>1, OthersNotOpen

LEMMA SinkIs ==
  ASSUME NEW st \in States, NEW m, NEW event, NEW i
  PROVE  Sink(st, m, event, i) = Translator(st.order, st.emitter, Append(st.frames, Fr(event, m, i)))
<1>1. st = Translator(st.order, st.emitter, st.frames)
  BY StateParts
<1> DEFINE F == Append(st.frames, Fr(event, m, i))
<1>2. Sink(st, m, event, i) = [st EXCEPT !.frames = F]
  BY DEF Sink, Fr
<1> HIDE DEF F
<1>3. [st EXCEPT !.frames = F] = Translator(st.order, st.emitter, F)
  BY <1>1, WithFrames
<1> QED
  BY <1>2, <1>3 DEF F

LEMMA FrameIs ==
  ASSUME NEW m \in Ids, NEW i \in Nat \cup {NoIndex},
         NEW event \in {"message-start", "content-block-start", "text-delta", "block-delta",
                        "content-block-finish", "message-finish"}
  PROVE  /\ Fr(event, m, i) \in Frame
         /\ Fr(event, m, i).event = event /\ Fr(event, m, i).msg = m /\ Fr(event, m, i).index = i
  BY DEF Fr, Frame

-----------------------------------------------------------------------------
(* finish                                                                   *)

FinishBlock(m, s, i) == Sink(s, m, "content-block-finish", i)
FinishOpen(none, s, m) == IF s.emitter[m].finished THEN s ELSE FinishMessage(s, m)

BlockFold == INSTANCE FoldFacts WITH op <- FinishBlock
OpenFold == INSTANCE FoldFacts WITH op <- FinishOpen

LEMMA BlocksFold ==
  ASSUME NEW st, NEW m
  PROVE  FinalizeBlocks(st, m) = BlockFold!FoldIndices(m, st, st.emitter[m].blocks)
  BY DEF FinalizeBlocks, MapThenFoldSet, Max, BlockFold!FoldIndices, BlockFold!Largest, FinishBlock

LEMMA MessagesFold ==
  ASSUME NEW st
  PROVE  FinishAll(st) = OpenFold!Fold(<<>>, st, st.order, DOMAIN st.order)
  BY DEF FinishAll, FoldLeft, MapThenFoldSet, Max, OpenFold!Fold, OpenFold!Largest, FinishOpen

LEMMA BlockFinished ==
  ASSUME NEW st, NEW T, NEW c, Tracks(st, T, c), NEW m, InHand(st, m), st.emitter[m].started,
         NEW i \in st.emitter[m].blocks, i \notin T
  PROVE  Tracks(FinishBlock(m, st, i), T \cup {i}, c)
<1> DEFINE e == st.emitter[m]
           f == Fr("content-block-finish", m, i)
           S == Out(st.frames)
<1>1. /\ m \in DOMAIN st.emitter /\ m \in Ids /\ e \in Emitter /\ ~e.finished
      /\ st.emitter \in [DOMAIN st.emitter -> Emitter] /\ Agrees(S, m, e, T)
  BY HandParts
<1>2. i \in Nat
  BY <1>1 DEF Emitter
<1>3. f \in Frame /\ f.event = "content-block-finish" /\ f.msg = m /\ f.index = i
  BY <1>1, <1>2, FrameIs
<1>4. Permitted(S, f)
  <2>1. Fr("content-block-start", m, i) \in S /\ Fr("content-block-finish", m, i) \notin S
    BY <1>1, <1>2 DEF Agrees
  <2>2. \A n \in Ids : IsOpen(S, n) <=> n = m
    BY HandOpen
  <2> QED
    BY <1>2, <1>3, <2>1, <2>2 DEF Permitted
<1>5. Agrees(S \cup {f}, m, e, T \cup {i})
  BY <1>1, <1>2 DEF Agrees, Fr
<1>6. FinishBlock(m, st, i) = Translator(st.order, [st.emitter EXCEPT ![m] = e], Append(st.frames, f))
  <2>1. [st.emitter EXCEPT ![m] = e] = st.emitter
    BY <1>1
  <2> QED
    BY <2>1, SinkIs DEF FinishBlock, Tracks
<1>7. c = Counting(c, m, f)
  BY <1>3 DEF Counting
<1> HIDE DEF e, f, S
<1> QED
  BY <1>1, <1>3, <1>4, <1>5, <1>6, <1>7, Emitted DEF e, S

LEMMA BlocksFinalized ==
  ASSUME NEW st, NEW c, Tracks(st, {}, c), NEW m, InHand(st, m), st.emitter[m].started
  PROVE  LET s == FinalizeBlocks(st, m) IN
         /\ Tracks(s, st.emitter[m].blocks, c)
         /\ s.order = st.order /\ s.emitter = st.emitter
<1> DEFINE D == st.emitter[m].blocks
           f == [i \in D |-> i]
           J == {x \in (SUBSET D) \X States :
                   Tracks(x[2], x[1], c) /\ x[2].order = st.order /\ x[2].emitter = st.emitter}
<1>1. PICK b \in Nat : D \subseteq 0 .. b
  BY HandParts DEF Agrees
<1>2. <<{}, st>> \in J
  BY DEF Tracks
<1>3. ASSUME NEW T \in SUBSET D, NEW x \in D, NEW y, \A t \in T : t < x, <<T, y>> \in J
      PROVE  <<T \cup {x}, FinishBlock(m, y, f[x])>> \in J
  <2>1. Tracks(y, T, c) /\ y.order = st.order /\ y.emitter = st.emitter
    BY <1>3
  <2>2. x \notin T
    <3>1. x \in Nat
      BY <1>1
    <3> QED
      BY <1>3, <3>1
  <2>3. Tracks(FinishBlock(m, y, x), T \cup {x}, c)
    BY <2>1, <2>2, BlockFinished DEF InHand
  <2>4. FinishBlock(m, y, x).order = st.order /\ FinishBlock(m, y, x).emitter = st.emitter
    BY <2>1, SinkIs, Parts DEF FinishBlock, Tracks
  <2>5. FinishBlock(m, y, x) \in States
    BY <2>3 DEF Tracks
  <2> QED
    BY <2>3, <2>4, <2>5
<1>4. <<D, BlockFold!Fold(m, st, f, D)>> \in J
  <2> HIDE DEF J, f, D
  <2>1. BlockFold!Keeps(m, f, D, J)
    BY <1>3 DEF BlockFold!Keeps
  <2> QED
    BY <1>1, <1>2, <2>1, BlockFold!FoldKeeps
<1>5. FinalizeBlocks(st, m) = BlockFold!Fold(m, st, f, D)
  <2> HIDE DEF D
  <2>1. BlockFold!FoldIndices(m, st, D) = BlockFold!Fold(m, st, f, D)
    BY <1>1, BlockFold!FoldOfIndices
  <2> QED
    BY <2>1, BlocksFold DEF D
<1> QED
  BY <1>4, <1>5

LEMMA MessageFinished ==
  ASSUME NEW st, NEW c, Tracks(st, {}, c), NEW m, InHand(st, m), st.emitter[m].started
  PROVE  LET s == FinishMessage(st, m) IN
         /\ Tracks(s, {}, c)
         /\ s.order = st.order /\ s.emitter = [st.emitter EXCEPT ![m].finished = TRUE]
<1> DEFINE y == FinalizeBlocks(st, m)
           T == st.emitter[m].blocks
           e == [st.emitter[m] EXCEPT !.finished = TRUE]
           f == Fr("message-finish", m, NoIndex)
           S == Out(y.frames)
<1>1. Tracks(y, T, c) /\ y.order = st.order /\ y.emitter = st.emitter /\ InHand(y, m)
  BY BlocksFinalized DEF InHand
<1> HIDE DEF y
<1>2. /\ m \in DOMAIN y.emitter /\ m \in Ids /\ y.emitter[m] \in Emitter /\ ~y.emitter[m].finished
      /\ y.emitter \in [DOMAIN y.emitter -> Emitter] /\ Agrees(S, m, y.emitter[m], T)
      /\ y = Translator(y.order, y.emitter, y.frames)
  BY <1>1, HandParts
<1>3. f \in Frame /\ f.event = "message-finish" /\ f.msg = m /\ f.index = NoIndex
  <2>1. m \in Ids /\ NoIndex \in Nat \cup {NoIndex}
    BY <1>2
  <2> QED
    BY <2>1 DEF Fr, Frame
<1>4. Permitted(S, f)
  <2>1. \A i \in Nat : Fr("content-block-start", m, i) \in S => Fr("content-block-finish", m, i) \in S
    BY <1>1, <1>2 DEF Agrees
  <2>2. \A n \in Ids : IsOpen(S, n) <=> n = m
    BY <1>1, HandOpen
  <2> QED
    BY <1>3, <2>1, <2>2 DEF Permitted
<1>5. /\ e \in Emitter /\ e.finished /\ e.started /\ e.blocks = T
  BY <1>1, <1>2 DEF Emitter
<1>6. Agrees(S \cup {f}, m, e, {})
  <2>1. /\ Fr("message-start", m, NoIndex) \in S
        /\ \A i \in Nat : Fr("content-block-start", m, i) \in S <=> i \in T
        /\ \A i \in Nat : Fr("content-block-finish", m, i) \in S <=> i \in T
        /\ \E b \in Nat : T \subseteq 0 .. b
    BY <1>1, <1>2 DEF Agrees
  <2>2. \A event, i : event # "message-finish" => Fr(event, m, i) # f
    BY DEF Fr
  <2> HIDE DEF e, S, T
  <2> QED
    BY <1>5, <2>1, <2>2 DEF Agrees
<1>7. FinishMessage(st, m) = Translator(y.order, [y.emitter EXCEPT ![m] = e], Append(y.frames, f))
  <2>1. Sink(y, m, "message-finish", NoIndex) =
          Translator(y.order, y.emitter, Append(y.frames, f))
    BY <1>1, SinkIs DEF Tracks
  <2> DEFINE z == Sink(y, m, "message-finish", NoIndex)
             F == Append(y.frames, f)
  <2>2. FinishMessage(st, m) = [z EXCEPT !.emitter[m].finished = TRUE]
    BY DEF FinishMessage, y
  <2>3. [y.emitter EXCEPT ![m].finished = TRUE] = [y.emitter EXCEPT ![m] = e]
    BY <1>1
  <2> HIDE DEF z, F
  <2>4. [z EXCEPT !.emitter[m].finished = TRUE] =
          Translator(y.order, [y.emitter EXCEPT ![m].finished = TRUE], F)
    <3>1. z = Translator(y.order, y.emitter, F)
      BY <2>1 DEF z, F
    <3> DEFINE X == [y.emitter EXCEPT ![m].finished = TRUE]
    <3>2. z.emitter = y.emitter
      BY <3>1, Parts
    <3>3. [z EXCEPT !.emitter[m].finished = TRUE] = [z EXCEPT !.emitter = X]
      BY <3>2
    <3> HIDE DEF X
    <3>4. [z EXCEPT !.emitter = X] = Translator(y.order, X, F)
      BY <3>1, WithEmitter
    <3> QED
      BY <3>3, <3>4 DEF X
  <2> QED
    BY <2>2, <2>3, <2>4 DEF F
<1>8. Tracks(FinishMessage(st, m), {}, c)
  <2>1. c = Counting(c, m, f)
    BY <1>3 DEF Counting
  <2>2. /\ Tracks(y, T, c) /\ m \in DOMAIN y.emitter /\ ~y.emitter[m].finished
        /\ e \in Emitter /\ f \in Frame /\ f.msg = m
    BY <1>1, <1>2, <1>3, <1>5
  <2>3. Permitted(Out(y.frames), f) /\ Agrees(Out(y.frames) \cup {f}, m, e, {})
    BY <1>4, <1>6
  <2> HIDE DEF e, f, T
  <2> QED
    BY <1>7, <2>1, <2>2, <2>3, Emitted
<1>9. [y.emitter EXCEPT ![m] = e] = [st.emitter EXCEPT ![m].finished = TRUE]
  BY <1>1
<1> QED
  BY <1>1, <1>7, <1>8, <1>9, Parts

(* finish(None) leaves no message open.                                    *)
LEMMA AllFinished ==
  ASSUME NEW st, NEW c, Tracks(st, {}, c), AllStarted(st)
  PROVE  LET s == FinishAll(st) IN
         /\ Tracks(s, {}, c) /\ AllStarted(s)
         /\ s.order = st.order /\ DOMAIN s.emitter = DOMAIN st.emitter
         /\ \A m \in DOMAIN s.emitter : s.emitter[m].finished
<1> DEFINE q == st.order
           D == DOMAIN q
           K == DOMAIN st.emitter
           Done(T, y) == /\ Tracks(y, {}, c) /\ AllStarted(y)
                         /\ y.order = q /\ DOMAIN y.emitter = K
                         /\ \A t \in T : y.emitter[q[t]].finished
           J == {x \in (SUBSET D) \X States : Done(x[1], x[2])}
<1>1. /\ q \in Seq(Ids) /\ Len(q) \in Nat /\ D = 1 .. Len(q) /\ D \subseteq 0 .. Len(q)
      /\ K = {q[t] : t \in D}
  <2>1. q \in Seq(Ids) /\ K = {q[t] : t \in D}
    BY DEF Tracks, Listed, ToSet
  <2> QED
    BY <2>1
<1>2. \A T \in SUBSET D : \A y : <<T, y>> \in J <=> Done(T, y)
  BY DEF Tracks
<1>3. <<{}, st>> \in J
  BY <1>2
<1> HIDE DEF J
<1>4. ASSUME NEW T \in SUBSET D, NEW x \in D, NEW y, <<T, y>> \in J
      PROVE  <<T \cup {x}, FinishOpen(<<>>, y, q[x])>> \in J
  <2> DEFINE m == q[x]
             s == FinishOpen(<<>>, y, m)
  <2>1. Done(T, y) /\ m \in K
    BY <1>1, <1>2, <1>4
  <2>2. CASE y.emitter[m].finished
    <3>1. s = y
      BY <2>2 DEF FinishOpen
    <3> QED
      BY <1>2, <2>1, <2>2, <3>1
  <2>3. CASE ~y.emitter[m].finished
    <3>1. InHand(y, m) /\ y.emitter[m].started
      BY <2>1, <2>3 DEF InHand, AllStarted
    <3>2. s = FinishMessage(y, m)
      BY <2>3 DEF FinishOpen
    <3> HIDE DEF s, m
    <3>3. Tracks(s, {}, c) /\ s.order = y.order /\ s.emitter = [y.emitter EXCEPT ![m].finished = TRUE]
      BY <2>1, <3>1, <3>2, MessageFinished
    <3>4. y.emitter \in [K -> Emitter]
      BY <2>1, StateParts DEF Tracks
    <3>5. /\ DOMAIN s.emitter = K /\ s.emitter[m].finished
          /\ \A n \in K : /\ s.emitter[n].started = y.emitter[n].started
                          /\ y.emitter[n].finished => s.emitter[n].finished
      BY <2>1, <3>3, <3>4 DEF Emitter
    <3>6. \A t \in T \cup {x} : s.emitter[q[t]].finished
      <4>1. \A t \in T : q[t] \in K
        BY <1>1
      <4> QED
        BY <2>1, <3>5, <4>1 DEF m
    <3>7. AllStarted(s)
      BY <2>1, <3>5 DEF AllStarted
    <3>8. Done(T \cup {x}, s)
      BY <2>1, <3>3, <3>5, <3>6, <3>7
    <3> QED
      BY <1>2, <1>4, <3>8 DEF s, m
  <2> QED
    BY <2>2, <2>3
<1>5. <<D, OpenFold!Fold(<<>>, st, q, D)>> \in J
  <2> HIDE DEF q, D
  <2>1. OpenFold!Keeps(<<>>, q, D, J)
    BY <1>4 DEF OpenFold!Keeps
  <2> QED
    BY <1>1, <1>3, <2>1, OpenFold!FoldKeeps
<1>6. FinishAll(st) = OpenFold!Fold(<<>>, st, q, D)
  BY MessagesFold
<1>7. Done(D, FinishAll(st))
  <2> HIDE DEF q, D, J, Done
  <2>1. Done(D, OpenFold!Fold(<<>>, st, q, D))
    BY <1>2, <1>5
  <2> QED
    BY <1>6, <2>1
<1> QED
  BY <1>1, <1>7

-----------------------------------------------------------------------------
(* feed                                                                     *)

LEMMA OpenIs ==
  ASSUME NEW st \in States, NEW m
  PROVE  Open(st, m) = Translator(Append(st.order, m),
                         [k \in {m} \cup DOMAIN st.emitter |->
                            IF k = m THEN NewEmitter ELSE st.emitter[k]], st.frames)
<1>1. st = Translator(st.order, st.emitter, st.frames)
  BY StateParts
<1>2. st \in [order : {st.order}, emitter : {st.emitter}, frames : {st.frames}]
  BY <1>1 DEF Translator
<1> DEFINE o == Append(st.order, m)
           E == [k \in {m} \cup DOMAIN st.emitter |->
                   IF k = m THEN NewEmitter ELSE st.emitter[k]]
<1>3. Open(st, m) = [st EXCEPT !.order = o, !.emitter = E]
  BY DEF Open
<1> HIDE DEF o, E
<1>4. [st EXCEPT !.order = o, !.emitter = E] \in [order : {o}, emitter : {E}, frames : {st.frames}]
  BY <1>2
<1>5. Open(st, m) = Translator(o, E, st.frames)
  BY <1>3, <1>4 DEF Translator
<1> QED
  BY <1>5 DEF o, E

(* A message not seen before enters, with all others finished.             *)
LEMMA Opened ==
  ASSUME NEW st, NEW c, Tracks(st, {}, c),
         \A n \in DOMAIN st.emitter : st.emitter[n].finished,
         NEW m \in Ids, m \notin DOMAIN st.emitter
  PROVE  LET s == Open(st, m) IN
         /\ Tracks(s, {}, c)
         /\ DOMAIN s.emitter = {m} \cup DOMAIN st.emitter
         /\ s.emitter[m] = NewEmitter
         /\ \A n \in DOMAIN st.emitter : s.emitter[n] = st.emitter[n]
<1> DEFINE s == Open(st, m)
           o == st.order
           D == DOMAIN st.emitter
           E == [k \in {m} \cup D |-> IF k = m THEN NewEmitter ELSE st.emitter[k]]
           F == st.frames
<1>1. /\ o \in Seq(Ids) /\ F \in Seq(Frame) /\ D \subseteq Ids /\ st.emitter \in [D -> Emitter]
      /\ st \in States
  BY StateParts DEF Tracks
<1>2. s = Translator(Append(o, m), E, F)
  BY <1>1, OpenIs
<1>3. NewEmitter \in Emitter
  BY DEF NewEmitter, Emitter
<1>4. /\ E \in [{m} \cup D -> Emitter] /\ DOMAIN E = {m} \cup D /\ {m} \cup D \in SUBSET Ids
      /\ E[m] = NewEmitter /\ \A n \in D : E[n] = st.emitter[n]
  BY <1>1, <1>3
<1> HIDE DEF s, E
<1>5. s.order = Append(o, m) /\ s.emitter = E /\ s.frames = F
  BY <1>2 DEF Translator
<1>6. s \in States
  <2>1. Append(o, m) \in Seq(Ids)
    BY <1>1
  <2> QED
    BY <1>1, <1>2, <1>4, <2>1, StateMade
<1>7. Listed(s.order, {m} \cup D)
  <2> DEFINE n == Len(o)
             q == Append(o, m)
  <2>1. /\ n \in Nat /\ DOMAIN o = 1 .. n /\ DOMAIN q = 1 .. n + 1
        /\ \A k \in 1 .. n : q[k] = o[k]
        /\ q[n + 1] = m /\ q \in Seq(Ids)
    BY <1>1
  <2> HIDE DEF n, q
  <2>2. 1 .. n + 1 = (1 .. n) \cup {n + 1}
    BY <2>1
  <2>3. D = {o[k] : k \in 1 .. n} /\ \A i, j \in 1 .. n : o[i] = o[j] => i = j
    BY <2>1 DEF Tracks, Listed, ToSet, IsInjective
  <2>4. {m} \cup D = ToSet(q)
    BY <2>1, <2>2, <2>3 DEF ToSet
  <2>5. \A k \in 1 .. n : q[k] # m
    BY <2>1, <2>3
  <2>6. IsInjective(q)
    BY <2>1, <2>2, <2>3, <2>5 DEF IsInjective
  <2> QED
    BY <1>5, <2>1, <2>4, <2>6 DEF Listed, q
<1>8. \A f \in Out(F) : f.msg \in D
  BY DEF Tracks, Known
<1>9. Agrees(Out(F), m, NewEmitter, {})
  <2>1. \A event, i : Fr(event, m, i) \notin Out(F)
    BY <1>8 DEF Fr
  <2>2. {} \subseteq 0 .. 0 /\ 0 \in Nat
    OBVIOUS
  <2> QED
    BY <2>1, <2>2 DEF Agrees, NewEmitter
<1>10. \A n \in {m} \cup D : Agrees(Out(F), n, E[n], {})
  BY <1>4, <1>9 DEF Tracks
<1>11. \A k, n \in {m} \cup D : ~E[k].finished /\ ~E[n].finished => k = n
  BY <1>4
<1>12. c \in [Ids -> Nat]
  BY DEF Tracks
<1>13. ASSUME NEW n \in Ids
       PROVE  Counted(F, n, n \in {m} \cup D, n \in {m} \cup D /\ E[n].finished, c)
  <2>0. Counted(F, n, n \in D, n \in D /\ st.emitter[n].finished, c)
    BY DEF Tracks, Known
  <2>1. CASE n = m
    <3>1. Texts(F, m) = {}
      BY <1>8 DEF Texts, Out
    <3>2. c[m] = 0
      BY <2>0, <2>1 DEF Counted
    <3> QED
      BY <2>1, <3>1, <3>2, FS_EmptySet DEF Counted
  <2>2. CASE n # m
    BY <1>4, <2>0, <2>2 DEF Counted
  <2> QED
    BY <2>1, <2>2
<1>14. WellFormed(F)
  BY DEF Tracks
<1>15. Tracks(s, {}, c)
  BY <1>4, <1>5, <1>6, <1>7, <1>8, <1>10, <1>11, <1>12, <1>13, <1>14 DEF Tracks, Known
<1> QED
  BY <1>4, <1>5, <1>15 DEF s

(* The message of the chunk is known, and only it may be new.              *)
Entered(st, m, c) ==
  /\ Tracks(st, {}, c)
  /\ m \in DOMAIN st.emitter
  /\ \A n \in DOMAIN st.emitter : n # m => st.emitter[n].started

LEMMA EnterMessage ==
  ASSUME NEW st, NEW c, Tracks(st, {}, c), AllStarted(st), NEW m \in Ids
  PROVE  Entered(Enter(st, m), m, c)
<1>1. CASE Known(st, m)
  BY <1>1 DEF Enter, Entered, AllStarted, Known
<1>2. CASE ~Known(st, m)
  <2> DEFINE y == FinishAll(st)
  <2>1. /\ Tracks(y, {}, c) /\ AllStarted(y) /\ m \notin DOMAIN y.emitter
        /\ \A n \in DOMAIN y.emitter : y.emitter[n].finished
    BY <1>2, AllFinished DEF Known
  <2>2. Enter(st, m) = Open(y, m)
    BY <1>2 DEF Enter
  <2> HIDE DEF y
  <2> QED
    BY <2>1, <2>2, Opened DEF Entered, AllStarted
<1> QED
  BY <1>1, <1>2

(* The message of the chunk is open, and its frames are being put out.     *)
Writing(st, m, c) == Tracks(st, {}, c) /\ AllStarted(st) /\ InHand(st, m)

LEMMA StartEmitted ==
  ASSUME NEW st, NEW c, NEW m, Entered(st, m, c), ~st.emitter[m].finished
  PROVE  Writing(EmitStart(st, m), m, c)
<1> DEFINE E == st.emitter
           S == Out(st.frames)
           f == Fr("message-start", m, NoIndex)
           G == Append(st.frames, f)
           e == [E[m] EXCEPT !.started = TRUE]
<1>1. Tracks(st, {}, c) /\ InHand(st, m) /\ \A n \in DOMAIN E : n # m => E[n].started
  BY DEF Entered, InHand
<1>2. /\ m \in DOMAIN E /\ m \in Ids /\ E[m] \in Emitter /\ ~E[m].finished
      /\ E \in [DOMAIN E -> Emitter] /\ Agrees(S, m, E[m], {})
  BY <1>1, HandParts
<1>3. CASE E[m].started
  <2>1. EmitStart(st, m) = st
    BY <1>3 DEF EmitStart
  <2> QED
    BY <1>1, <1>3, <2>1 DEF Writing, AllStarted
<1>4. CASE ~E[m].started
  <2>1. f \in Frame /\ f.event = "message-start" /\ f.msg = m /\ f.index = NoIndex
    BY <1>2 DEF Fr, Frame
  <2>2. Permitted(S, f)
    <3>1. \A n \in Ids : ~IsOpen(S, n)
      BY <1>1, <1>4, NotOpen, OthersNotOpen
    <3>2. f \notin S
      BY <1>2, <1>4 DEF Agrees
    <3> QED
      BY <2>1, <3>1, <3>2 DEF Permitted
  <2>3. e \in Emitter /\ e.started /\ ~e.finished /\ e.blocks = E[m].blocks
    BY <1>2 DEF Emitter
  <2>4. Agrees(S \cup {f}, m, e, {})
    <3>1. \A event, i : event # "message-start" => Fr(event, m, i) # f
      BY DEF Fr
    <3> HIDE DEF e, S
    <3> QED
      BY <1>2, <2>3, <3>1 DEF Agrees
  <2> DEFINE z == Sink(st, m, "message-start", NoIndex)
             X == [E EXCEPT ![m].started = TRUE]
             s == EmitStart(st, m)
  <2>5. z = Translator(st.order, E, G)
    BY <1>1, SinkIs DEF Tracks
  <2>6. z.emitter = E
    BY <2>5, Parts
  <2>7. s = [z EXCEPT !.emitter[m].started = TRUE]
    BY <1>4 DEF EmitStart
  <2>8. X = [E EXCEPT ![m] = e]
    BY <1>2
  <2> HIDE DEF z, G
  <2>9. [z EXCEPT !.emitter[m].started = TRUE] = [z EXCEPT !.emitter = X]
    BY <2>6
  <2> HIDE DEF X
  <2>10. [z EXCEPT !.emitter = X] = Translator(st.order, X, G)
    BY <2>5, WithEmitter
  <2>11. s = Translator(st.order, [E EXCEPT ![m] = e], G)
    BY <2>7, <2>8, <2>9, <2>10
  <2> HIDE DEF s, e, f
  <2>12. c = Counting(c, m, f)
    BY <2>1 DEF Counting
  <2>13. Tracks(s, {}, c)
    BY <1>1, <1>2, <2>1, <2>2, <2>3, <2>4, <2>11, <2>12, Emitted DEF G
  <2>14. s.emitter = [E EXCEPT ![m] = e]
    BY <2>11, Parts
  <2>15. InHand(s, m) /\ AllStarted(s)
    BY <1>1, <1>2, <2>3, <2>14 DEF InHand, AllStarted
  <2> QED
    BY <2>13, <2>15 DEF Writing, s
<1> QED
  BY <1>3, <1>4

LEMMA AllocateIs ==
  ASSUME NEW st \in States, NEW m \in DOMAIN st.emitter
  PROVE  Allocate(st, m) =
           Translator(st.order,
             [st.emitter EXCEPT ![m] = [st.emitter[m] EXCEPT !.nextIndex = st.emitter[m].nextIndex + 1]],
             st.frames)
<1> DEFINE E == st.emitter
           X == [E EXCEPT ![m].nextIndex = E[m].nextIndex + 1]
<1>1. E \in [DOMAIN E -> Emitter] /\ st = Translator(st.order, E, st.frames)
  BY StateParts
<1>2. Allocate(st, m) = [st EXCEPT !.emitter = X]
  BY DEF Allocate
<1>3. X = [E EXCEPT ![m] = [E[m] EXCEPT !.nextIndex = E[m].nextIndex + 1]]
  BY <1>1
<1> HIDE DEF X, E
<1>4. [st EXCEPT !.emitter = X] = Translator(st.order, X, st.frames)
  BY <1>1, WithEmitter
<1> QED
  BY <1>2, <1>3, <1>4 DEF E

(* Emitter e puts out one of the frames a message in hand may always have. *)
LEMMA Wrote ==
  ASSUME NEW st, NEW c, NEW m, Writing(st, m, c),
         NEW e \in Emitter, e.started, ~e.finished,
         NEW f \in Frame, f.msg = m, Permitted(Out(st.frames), f),
         Agrees(Out(st.frames) \cup {f}, m, e, {}),
         NEW s, s = Translator(st.order, [st.emitter EXCEPT ![m] = e], Append(st.frames, f)),
         NEW d, d = Counting(c, m, f)
  PROVE  Writing(s, m, d) /\ s.emitter = [st.emitter EXCEPT ![m] = e]
<1>1. Tracks(st, {}, c) /\ InHand(st, m) /\ AllStarted(st)
  BY DEF Writing
<1>2. /\ m \in DOMAIN st.emitter /\ ~st.emitter[m].finished
      /\ st.emitter \in [DOMAIN st.emitter -> Emitter]
  BY <1>1, HandParts
<1>3. Tracks(s, {}, d)
  BY <1>1, <1>2, Emitted
<1>4. s.emitter = [st.emitter EXCEPT ![m] = e]
  BY Parts
<1>5. InHand(s, m) /\ AllStarted(s)
  BY <1>1, <1>2, <1>4 DEF InHand, AllStarted
<1> QED
  BY <1>3, <1>4, <1>5 DEF Writing

LEMMA WritingParts ==
  ASSUME NEW st, NEW c, NEW m, Writing(st, m, c)
  PROVE  /\ st \in States /\ m \in DOMAIN st.emitter /\ m \in Ids /\ st.emitter[m] \in Emitter
         /\ st.emitter \in [DOMAIN st.emitter -> Emitter]
         /\ st.emitter[m].started /\ ~st.emitter[m].finished
         /\ Agrees(Out(st.frames), m, st.emitter[m], {})
         /\ \A n \in Ids : IsOpen(Out(st.frames), n) <=> n = m
<1>1. Tracks(st, {}, c) /\ InHand(st, m) /\ AllStarted(st)
  BY DEF Writing
<1>2. st.emitter[m].started /\ st \in States
  BY <1>1 DEF AllStarted, InHand, Tracks
<1>3. \A n \in Ids : IsOpen(Out(st.frames), n) <=> n = m
  BY <1>1, <1>2, HandOpen
<1> QED
  BY <1>1, <1>2, <1>3, HandParts

LEMMA TextEmitted ==
  ASSUME NEW st, NEW c, NEW m, Writing(st, m, c), NEW text \in BOOLEAN
  PROVE  Writing(EmitText(st, m, text), m, IF text THEN [c EXCEPT ![m] = @ + 1] ELSE c)
<1> DEFINE E == st.emitter
           S == Out(st.frames)
           e == IF E[m].textIndex # NoIndex THEN E[m]
                ELSE [E[m] EXCEPT !.nextIndex = E[m].nextIndex + 1, !.textIndex = E[m].nextIndex]
           y == IF E[m].textIndex # NoIndex THEN st
                ELSE [Allocate(st, m) EXCEPT !.emitter[m].textIndex = E[m].nextIndex]
           f == Fr("text-delta", m, e.textIndex)
<1>1. /\ st \in States /\ m \in DOMAIN E /\ m \in Ids /\ E[m] \in Emitter
      /\ E \in [DOMAIN E -> Emitter] /\ E[m].started /\ ~E[m].finished
      /\ Agrees(S, m, E[m], {})
      /\ \A n \in Ids : IsOpen(S, n) <=> n = m
  BY WritingParts
<1>2. CASE ~text
  BY <1>2 DEF EmitText
<1>3. CASE text
  <2>1. /\ e \in Emitter /\ e.textIndex \in Nat /\ e.started /\ ~e.finished
        /\ e.blocks = E[m].blocks
    <3> DEFINE k == E[m].nextIndex + 1
               g == [E[m] EXCEPT !.nextIndex = k]
    <3>1. E[m].nextIndex \in Nat /\ k \in Nat /\ E[m].textIndex \in Nat \cup {NoIndex}
      BY <1>1 DEF Emitter
    <3>2. CASE E[m].textIndex # NoIndex
      BY <1>1, <3>1, <3>2
    <3>3. CASE E[m].textIndex = NoIndex
      <4> HIDE DEF k
      <4>1. g \in Emitter /\ g.started /\ ~g.finished /\ g.blocks = E[m].blocks
        BY <1>1, <3>1 DEF Emitter
      <4>2. e = [g EXCEPT !.textIndex = E[m].nextIndex]
        BY <1>1, <3>3 DEF Emitter, k
      <4> HIDE DEF g, e
      <4> QED
        BY <3>1, <4>1, <4>2 DEF Emitter
    <3> QED
      BY <3>2, <3>3
  <2>2. y = Translator(st.order, [E EXCEPT ![m] = e], st.frames)
    <3>1. CASE E[m].textIndex # NoIndex
      <4>1. [E EXCEPT ![m] = E[m]] = E
        BY <1>1
      <4> QED
        BY <1>1, <3>1, <4>1, StateParts
    <3>2. CASE E[m].textIndex = NoIndex
      <4> DEFINE g == [E[m] EXCEPT !.nextIndex = E[m].nextIndex + 1]
                 X == [E EXCEPT ![m] = g]
                 z == Allocate(st, m)
                 Y == [X EXCEPT ![m].textIndex = E[m].nextIndex]
      <4>1. z = Translator(st.order, X, st.frames)
        BY <1>1, AllocateIs
      <4>2. z.emitter = X
        BY <4>1, Parts
      <4>3. y = [z EXCEPT !.emitter[m].textIndex = E[m].nextIndex]
        BY <3>2
      <4>4. Y = [E EXCEPT ![m] = e]
        BY <1>1, <3>2
      <4> HIDE DEF z, X, y
      <4>5. [z EXCEPT !.emitter[m].textIndex = E[m].nextIndex] = [z EXCEPT !.emitter = Y]
        BY <4>2
      <4> HIDE DEF Y
      <4>6. [z EXCEPT !.emitter = Y] = Translator(st.order, Y, st.frames)
        BY <4>1, WithEmitter
      <4> QED
        BY <4>3, <4>4, <4>5, <4>6
    <3> QED
      BY <3>1, <3>2
  <2> HIDE DEF e
  <2>3. f \in Frame /\ f.event = "text-delta" /\ f.msg = m
    BY <1>1, <2>1 DEF Fr, Frame
  <2>4. Permitted(S, f)
    BY <1>1, <2>3 DEF Permitted
  <2>5. Agrees(S \cup {f}, m, e, {})
    <3>1. \A event, i : event # "text-delta" => Fr(event, m, i) # f
      BY DEF Fr
    <3> HIDE DEF S
    <3> QED
      BY <1>1, <2>1, <3>1 DEF Agrees
  <2> DEFINE s == EmitText(st, m, text)
             d == [c EXCEPT ![m] = @ + 1]
             X == [E EXCEPT ![m] = e]
  <2>6. s = Sink(y, m, "text-delta", y.emitter[m].textIndex)
    BY <1>3 DEF EmitText
  <2> HIDE DEF y
  <2>7. y.emitter = X /\ y.order = st.order /\ y.frames = st.frames
    BY <2>2, Parts
  <2>8. y.emitter[m] = e
    BY <1>1, <2>7
  <2>9. y \in States
    <3>1. X \in [DOMAIN E -> Emitter] /\ DOMAIN E \in SUBSET Ids
          /\ st.order \in Seq(Ids) /\ st.frames \in Seq(Frame)
      BY <1>1, <2>1, StateParts
    <3> HIDE DEF X
    <3> QED
      BY <2>2, <3>1, StateMade DEF X
  <2>10. s = Translator(st.order, X, Append(st.frames, f))
    BY <2>6, <2>7, <2>8, <2>9, SinkIs
  <2>11. d = Counting(c, m, f)
    BY <2>3 DEF Counting
  <2> HIDE DEF s, d, f
  <2>12. Writing(s, m, d)
    BY <2>1, <2>3, <2>4, <2>5, <2>10, <2>11, Wrote
  <2> QED
    BY <1>3, <2>12 DEF s, d
<1> QED
  BY <1>2, <1>3

LEMMA DeltaEmitted ==
  ASSUME NEW st, NEW c, NEW m, Writing(st, m, c), NEW i \in st.emitter[m].blocks
  PROVE  Writing(Sink(st, m, "block-delta", i), m, c)
<1> DEFINE E == st.emitter
           S == Out(st.frames)
           e == E[m]
           f == Fr("block-delta", m, i)
           s == Sink(st, m, "block-delta", i)
<1>1. /\ st \in States /\ m \in DOMAIN E /\ m \in Ids /\ e \in Emitter
      /\ E \in [DOMAIN E -> Emitter] /\ e.started /\ ~e.finished
      /\ Agrees(S, m, e, {})
      /\ \A n \in Ids : IsOpen(S, n) <=> n = m
  BY WritingParts
<1>2. i \in Nat /\ i \in e.blocks
  BY <1>1 DEF Emitter
<1>3. f \in Frame /\ f.event = "block-delta" /\ f.msg = m /\ f.index = i
  BY <1>1, <1>2 DEF Fr, Frame
<1>4. Permitted(S, f)
  <2>1. Fr("content-block-start", m, i) \in S /\ Fr("content-block-finish", m, i) \notin S
    BY <1>1, <1>2 DEF Agrees
  <2> QED
    BY <1>1, <1>2, <1>3, <2>1 DEF Permitted
<1>5. Agrees(S \cup {f}, m, e, {})
  <2>1. \A event, j : event # "block-delta" => Fr(event, m, j) # f
    BY DEF Fr
  <2> HIDE DEF e, S
  <2> QED
    BY <1>1, <2>1 DEF Agrees
<1>6. s = Translator(st.order, [E EXCEPT ![m] = e], Append(st.frames, f))
  <2>1. [E EXCEPT ![m] = e] = E
    BY <1>1
  <2> QED
    BY <1>1, <2>1, SinkIs
<1>7. c = Counting(c, m, f)
  BY <1>3 DEF Counting
<1> HIDE DEF s, f, e
<1>8. Writing(s, m, c)
  BY <1>1, <1>3, <1>4, <1>5, <1>6, <1>7, Wrote
<1> QED
  BY <1>8 DEF s

(* A block is started, before its first arguments.                         *)
StartBlock(st, m, i) ==
  [Sink(st, m, "content-block-start", i) EXCEPT !.emitter[m].blocks = @ \cup {i}]

LEMMA BlockStarted ==
  ASSUME NEW st, NEW c, NEW m, Writing(st, m, c), NEW i \in Nat, i \notin st.emitter[m].blocks
  PROVE  Writing(StartBlock(st, m, i), m, c) /\ i \in StartBlock(st, m, i).emitter[m].blocks
<1> DEFINE E == st.emitter
           S == Out(st.frames)
           B == E[m].blocks \cup {i}
           e == [E[m] EXCEPT !.blocks = B]
           f == Fr("content-block-start", m, i)
           G == Append(st.frames, f)
           s == StartBlock(st, m, i)
<1>1. /\ st \in States /\ m \in DOMAIN E /\ m \in Ids /\ E[m] \in Emitter
      /\ E \in [DOMAIN E -> Emitter] /\ E[m].started /\ ~E[m].finished
      /\ Agrees(S, m, E[m], {})
      /\ \A n \in Ids : IsOpen(S, n) <=> n = m
  BY WritingParts
<1>2. e \in Emitter /\ e.started /\ ~e.finished /\ e.blocks = B
  BY <1>1 DEF Emitter
<1>3. f \in Frame /\ f.event = "content-block-start" /\ f.msg = m /\ f.index = i
  BY <1>1 DEF Fr, Frame
<1>4. Permitted(S, f)
  <2>1. f \notin S
    BY <1>1 DEF Agrees
  <2> QED
    BY <1>1, <1>3, <2>1 DEF Permitted
<1>5. Agrees(S \cup {f}, m, e, {})
  <2>1. \A event, j : Fr(event, m, j) = f <=> event = "content-block-start" /\ j = i
    BY DEF Fr
  <2>2. PICK b \in Nat : E[m].blocks \subseteq 0 .. b
    BY <1>1 DEF Agrees
  <2>3. B \subseteq 0 .. b + i /\ b + i \in Nat
    BY <2>2
  <2> HIDE DEF e, S, f
  <2>4. \A j \in Nat : Fr("content-block-start", m, j) \in S \cup {f} <=> j \in B
    BY <1>1, <2>1 DEF Agrees
  <2>5. \E k \in Nat : B \subseteq 0 .. k
    BY <2>3
  <2> HIDE DEF B
  <2> QED
    BY <1>1, <1>2, <2>1, <2>4, <2>5 DEF Agrees
<1> DEFINE z == Sink(st, m, "content-block-start", i)
           X == [E EXCEPT ![m].blocks = B]
<1>6. z = Translator(st.order, E, G)
  BY <1>1, SinkIs
<1>7. z.emitter = E
  BY <1>6, Parts
<1>8. s = [z EXCEPT !.emitter[m].blocks = z.emitter[m].blocks \cup {i}]
  BY DEF StartBlock
<1>9. X = [E EXCEPT ![m] = e]
  BY <1>1
<1> HIDE DEF z, G, s
<1>10. [z EXCEPT !.emitter[m].blocks = z.emitter[m].blocks \cup {i}] = [z EXCEPT !.emitter = X]
  BY <1>7
<1> HIDE DEF X
<1>11. [z EXCEPT !.emitter = X] = Translator(st.order, X, G)
  BY <1>6, WithEmitter
<1>12. s = Translator(st.order, [E EXCEPT ![m] = e], G)
  BY <1>8, <1>9, <1>10, <1>11
<1>13. c = Counting(c, m, f)
  BY <1>3 DEF Counting
<1> HIDE DEF f, e
<1>14. Writing(s, m, c) /\ s.emitter = [E EXCEPT ![m] = e]
  BY <1>1, <1>2, <1>3, <1>4, <1>5, <1>12, <1>13, Wrote DEF G
<1>15. i \in s.emitter[m].blocks
  BY <1>1, <1>2, <1>14
<1> QED
  BY <1>14, <1>15 DEF s

LEMMA IndexAllocated ==
  ASSUME NEW st, NEW c, NEW m, Writing(st, m, c)
  PROVE  Writing(Allocate(st, m), m, c) /\ st.emitter[m].nextIndex \in Nat
<1> DEFINE E == st.emitter
           e == [E[m] EXCEPT !.nextIndex = E[m].nextIndex + 1]
           s == Allocate(st, m)
<1>1. /\ st \in States /\ m \in DOMAIN E /\ E[m] \in Emitter
      /\ E \in [DOMAIN E -> Emitter] /\ E[m].started /\ ~E[m].finished
      /\ Tracks(st, {}, c) /\ AllStarted(st)
  BY WritingParts DEF Writing
<1>2. /\ e \in Emitter /\ e.started = E[m].started /\ e.finished = E[m].finished
      /\ e.blocks = E[m].blocks /\ E[m].nextIndex \in Nat
  <2>1. E[m].nextIndex \in Nat /\ E[m].nextIndex + 1 \in Nat
    BY <1>1 DEF Emitter
  <2> QED
    BY <1>1, <2>1 DEF Emitter
<1>3. s = Translator(st.order, [E EXCEPT ![m] = e], st.frames)
  BY <1>1, AllocateIs
<1> HIDE DEF s, e
<1>4. Tracks(s, {}, c)
  BY <1>1, <1>2, <1>3, Noted
<1>5. s.emitter = [E EXCEPT ![m] = e]
  BY <1>3, Parts
<1>6. InHand(s, m) /\ AllStarted(s)
  BY <1>1, <1>2, <1>5 DEF InHand, AllStarted
<1> QED
  BY <1>2, <1>4, <1>6 DEF Writing, s

Fragment == [index : Nat \cup {NoIndex}, args : BOOLEAN]

LEMMA FragmentEmitted ==
  ASSUME NEW st, NEW c, NEW m, Writing(st, m, c), NEW f \in Fragment
  PROVE  Writing(EmitFragment(st, m, f), m, c)
<1> DEFINE index == IF f.index = NoIndex THEN st.emitter[m].nextIndex ELSE f.index
           y == IF f.index = NoIndex THEN Allocate(st, m) ELSE st
           b == IF index \in y.emitter[m].blocks THEN y ELSE StartBlock(y, m, index)
<1>1. index \in Nat /\ Writing(y, m, c)
  BY IndexAllocated DEF Fragment
<1>2. EmitFragment(st, m, f) = IF f.args THEN Sink(b, m, "block-delta", index) ELSE b
  BY DEF EmitFragment, StartBlock
<1> HIDE DEF index, y
<1>3. Writing(b, m, c) /\ index \in b.emitter[m].blocks
  BY <1>1, BlockStarted
<1> HIDE DEF b
<1> QED
  BY <1>2, <1>3, DeltaEmitted

AddFragment(m, s, f) == EmitFragment(s, m, f)
FragmentFold == INSTANCE FoldFacts WITH op <- AddFragment

LEMMA FragmentsFold ==
  ASSUME NEW st, NEW m, NEW q
  PROVE  FoldLeft(LAMBDA s, f : EmitFragment(s, m, f), st, q) =
           FragmentFold!Fold(m, st, q, DOMAIN q)
  BY DEF FoldLeft, MapThenFoldSet, Max, FragmentFold!Fold, FragmentFold!Largest, AddFragment

LEMMA FragmentsEmitted ==
  ASSUME NEW st, NEW c, NEW m, Writing(st, m, c), NEW q \in Seq(Fragment)
  PROVE  Writing(FragmentFold!Fold(m, st, q, DOMAIN q), m, c)
<1> DEFINE D == DOMAIN q
           J == {x \in (SUBSET D) \X States : Writing(x[2], m, c)}
<1>1. D = 1 .. Len(q) /\ Len(q) \in Nat /\ D \subseteq 0 .. Len(q) /\ \A i \in D : q[i] \in Fragment
  BY ElementOfSeq
<1>2. \A T \in SUBSET D : \A y : <<T, y>> \in J <=> Writing(y, m, c)
  BY WritingParts
<1>3. <<{}, st>> \in J
  BY <1>2
<1> HIDE DEF J
<1>4. ASSUME NEW T \in SUBSET D, NEW x \in D, NEW y, <<T, y>> \in J
      PROVE  <<T \cup {x}, AddFragment(m, y, q[x])>> \in J
  <2>1. Writing(AddFragment(m, y, q[x]), m, c)
    BY <1>1, <1>2, <1>4, FragmentEmitted DEF AddFragment
  <2> QED
    BY <1>2, <1>4, <2>1
<1>5. <<D, FragmentFold!Fold(m, st, q, D)>> \in J
  <2> HIDE DEF D
  <2>1. FragmentFold!Keeps(m, q, D, J)
    BY <1>4 DEF FragmentFold!Keeps
  <2> QED
    BY <1>1, <1>3, <2>1, FragmentFold!FoldKeeps
<1> QED
  BY <1>2, <1>5

(* What is counted of a finished message does not matter.                  *)
LEMMA Recounted ==
  ASSUME NEW st, NEW c, Tracks(st, {}, c), NEW m \in DOMAIN st.emitter, st.emitter[m].finished,
         NEW d \in [Ids -> Nat], \A n \in Ids : n # m => d[n] = c[n]
  PROVE  Tracks(st, {}, d)
<1>1. \A n \in Ids : Counted(st.frames, n, Known(st, n), Known(st, n) /\ st.emitter[n].finished, d)
  BY DEF Tracks, Counted, Known
<1> QED
  BY <1>1 DEF Tracks

(* The texts fed, with chunk c.                                            *)
Fed(c, chunk) == [c EXCEPT ![chunk.id] = @ + IF chunk.text THEN 1 ELSE 0]

LEMMA FedIs ==
  ASSUME NEW c \in [Ids -> Nat], NEW chunk \in Chunk
  PROVE  /\ Fed(c, chunk) \in [Ids -> Nat]
         /\ Fed(c, chunk) = IF chunk.text THEN [c EXCEPT ![chunk.id] = @ + 1] ELSE c
         /\ \A n \in Ids : n # chunk.id => Fed(c, chunk)[n] = c[n]
<1>1. chunk.id \in Ids /\ chunk.text \in BOOLEAN
  BY DEF Chunk
<1>2. CASE chunk.text
  BY <1>1, <1>2 DEF Fed
<1>3. CASE ~chunk.text
  <2>1. c[chunk.id] + 0 = c[chunk.id] /\ c[chunk.id] \in Nat
    BY <1>1
  <2>2. Fed(c, chunk) = [c EXCEPT ![chunk.id] = c[chunk.id] + 0]
    BY <1>3 DEF Fed
  <2>3. Fed(c, chunk) = c
    BY <1>1, <2>1, <2>2
  <2> QED
    BY <1>3, <2>3
<1> QED
  BY <1>1, <1>2, <1>3

LEMMA ChunkFed ==
  ASSUME NEW st, NEW c, Tracks(st, {}, c), AllStarted(st), NEW chunk \in Chunk
  PROVE  Tracks(Feed(st, chunk), {}, Fed(c, chunk)) /\ AllStarted(Feed(st, chunk))
<1> DEFINE m == chunk.id
           e == Enter(st, m)
           s == EmitText(EmitStart(e, m), m, chunk.text)
           d == Fed(c, chunk)
<1>1. /\ m \in Ids /\ chunk.text \in BOOLEAN /\ chunk.fragments \in Seq(Fragment)
      /\ c \in [Ids -> Nat]
  BY TranslatorAssumption DEF Chunk, Fragment, Tracks
<1>2. Entered(e, m, c)
  BY <1>1, EnterMessage
<1>3. Feed(st, chunk) = IF e.emitter[m].finished THEN e
                        ELSE FragmentFold!Fold(m, s, chunk.fragments, DOMAIN chunk.fragments)
  BY FragmentsFold DEF Feed
<1>4. d = IF chunk.text THEN [c EXCEPT ![m] = @ + 1] ELSE c
  BY <1>1, FedIs
<1> HIDE DEF e, d
<1>5. CASE e.emitter[m].finished
  <2>1. Tracks(e, {}, c) /\ m \in DOMAIN e.emitter
    BY <1>2 DEF Entered
  <2>2. d \in [Ids -> Nat] /\ \A n \in Ids : n # m => d[n] = c[n]
    BY <1>1, FedIs DEF d
  <2>3. Tracks(e, {}, d)
    <3> HIDE DEF m
    <3> QED
      BY <1>5, <2>1, <2>2, Recounted
  <2>4. AllStarted(e)
    <3>1. e.emitter[m].started
      BY <1>5, <2>1 DEF Tracks, Agrees
    <3> QED
      BY <1>2, <3>1 DEF Entered, AllStarted
  <2> QED
    BY <1>3, <1>5, <2>3, <2>4 DEF d
<1>6. CASE ~e.emitter[m].finished
  <2>1. Writing(EmitStart(e, m), m, c)
    BY <1>2, <1>6, StartEmitted
  <2>2. Writing(s, m, d)
    BY <1>1, <1>4, <2>1, TextEmitted
  <2> HIDE DEF s
  <2>3. Writing(FragmentFold!Fold(m, s, chunk.fragments, DOMAIN chunk.fragments), m, d)
    BY <1>1, <2>2, FragmentsEmitted
  <2> QED
    BY <1>3, <1>6, <2>3 DEF Writing, d
<1> QED
  BY <1>5, <1>6

LEMMA ChunkFinished ==
  ASSUME NEW st, NEW c, Tracks(st, {}, c), AllStarted(st), NEW chunk
  PROVE  Tracks(Finish(st, chunk), {}, c) /\ AllStarted(Finish(st, chunk))
<1> DEFINE m == chunk.id
<1>1. CASE chunk.id \in Named /\ Known(st, chunk.id) /\ ~st.emitter[chunk.id].finished
  <2>1. InHand(st, m) /\ st.emitter[m].started
    BY <1>1 DEF InHand, Known, AllStarted
  <2>2. Finish(st, chunk) = FinishMessage(st, m)
    BY <1>1 DEF Finish
  <2> HIDE DEF m
  <2>3. /\ Tracks(FinishMessage(st, m), {}, c)
        /\ FinishMessage(st, m).emitter = [st.emitter EXCEPT ![m].finished = TRUE]
    BY <2>1, MessageFinished
  <2>4. st.emitter \in [DOMAIN st.emitter -> Emitter]
    BY StateParts DEF Tracks
  <2>5. AllStarted(FinishMessage(st, m))
    BY <2>3, <2>4 DEF AllStarted, Emitter
  <2> QED
    BY <2>2, <2>3, <2>5
<1>2. CASE ~(chunk.id \in Named /\ Known(st, chunk.id) /\ ~st.emitter[chunk.id].finished)
  BY <1>2 DEF Finish
<1> QED
  BY <1>1, <1>2

-----------------------------------------------------------------------------
(* The invariant holds                                                      *)

LEMMA TranslatorInit == Init => TranslatorInv
<1> SUFFICES ASSUME Init PROVE TranslatorInv
  OBVIOUS
<1> DEFINE E == [m \in {} |-> NewEmitter]
<1>1. tr = Translator(<<>>, E, <<>>) /\ fed = [m \in Ids |-> 0]
  BY DEF Init, Translator
<1>2. tr.order = <<>> /\ tr.emitter = E /\ tr.frames = <<>>
  BY <1>1 DEF Translator
<1>3. DOMAIN E = {} /\ E \in [{} -> Emitter] /\ <<>> \in Seq(Ids) /\ <<>> \in Seq(Frame)
      /\ DOMAIN <<>> = {}
  OBVIOUS
<1> HIDE DEF E
<1>4. tr \in States
  BY <1>1, <1>3, StateMade
<1>5. Listed(tr.order, DOMAIN tr.emitter)
  BY <1>2, <1>3 DEF Listed, ToSet, IsInjective
<1>6. WellFormed(tr.frames) /\ Out(tr.frames) = {}
  BY <1>2, <1>3 DEF WellFormed, Out
<1>7. \A m \in Ids : Counted(tr.frames, m, Known(tr, m), Known(tr, m) /\ tr.emitter[m].finished, fed)
  BY <1>1, <1>2, <1>3 DEF Counted, Known
<1>8. fed \in [Ids -> Nat]
  BY <1>1
<1> QED
  BY <1>2, <1>3, <1>4, <1>5, <1>6, <1>7, <1>8 DEF TranslatorInv, Tracks, AllStarted

LEMMA TranslatorStep == TranslatorInv /\ [Next]_vars => TranslatorInv'
<1> SUFFICES ASSUME TranslatorInv, [Next]_vars PROVE TranslatorInv'
  OBVIOUS
<1>0. Tracks(tr, {}, fed) /\ AllStarted(tr)
  BY DEF TranslatorInv
<1>1. CASE UNCHANGED vars
  BY <1>1 DEF vars, TranslatorInv, Tracks, AllStarted, Known
<1>2. ASSUME NEW c \in Chunk, Stream(c) PROVE TranslatorInv'
  <2> DEFINE s == Feed(tr, c)
             d == Fed(fed, c)
             t == IF c.usage THEN Finish(s, c) ELSE s
  <2>1. tr' = t /\ fed' = d
    BY <1>2 DEF Stream, Fed
  <2>2. Tracks(s, {}, d) /\ AllStarted(s)
    BY <1>0, ChunkFed
  <2> HIDE DEF s, d
  <2>3. Tracks(t, {}, d) /\ AllStarted(t)
    BY <2>2, ChunkFinished
  <2> HIDE DEF t
  <2> QED
    BY <2>1, <2>3 DEF TranslatorInv, Tracks, AllStarted, Known
<1>3. CASE End
  <2>1. tr' = FinishAll(tr) /\ fed' = fed
    BY <1>3 DEF End
  <2> DEFINE s == FinishAll(tr)
  <2>2. Tracks(s, {}, fed) /\ AllStarted(s)
    BY <1>0, AllFinished
  <2> HIDE DEF s
  <2> QED
    BY <2>1, <2>2 DEF TranslatorInv, Tracks, AllStarted, Known, s
<1>4. CASE EndInterrupted
  BY <1>4 DEF EndInterrupted, TranslatorInv, Tracks, AllStarted, Known
<1> QED
  BY <1>1, <1>2, <1>3, <1>4 DEF Next

LEMMA TranslatorAlways == Spec => []TranslatorInv
  BY TranslatorInit, TranslatorStep, PTL DEF Spec

-----------------------------------------------------------------------------
(* What a well-formed trace says of the positions of its frames             *)

LEMMA FrameAt ==
  ASSUME NEW F \in Seq(Frame), NEW k \in DOMAIN F
  PROVE  /\ k \in Nat /\ k >= 1 /\ F[k] \in Frame
         /\ F[k] = Fr(F[k].event, F[k].msg, F[k].index)
<1>1. k \in Nat /\ k >= 1 /\ F[k] \in Frame
  OBVIOUS
<1>2. F[k] = Fr(F[k].event, F[k].msg, F[k].index)
  BY <1>1 DEF Frame, Fr
<1> QED
  BY <1>1, <1>2

LEMMA BeforeIs ==
  ASSUME NEW F \in Seq(Frame), NEW k \in DOMAIN F, NEW f
  PROVE  f \in Before(F, k) <=> \E j \in DOMAIN F : j < k /\ F[j] = f
<1>1. DOMAIN F = 1 .. Len(F) /\ Len(F) \in Nat
  OBVIOUS
<1>2. \A j : j \in 1 .. k - 1 <=> j \in DOMAIN F /\ j < k
  BY <1>1
<1> QED
  BY <1>2 DEF Before

(* Of the frames of a message only deltas come twice.                      *)
LEMMA NoRepeat ==
  ASSUME NEW F \in Seq(Frame), WellFormed(F),
         NEW j \in DOMAIN F, NEW k \in DOMAIN F, F[j] = F[k],
         F[k].event \notin {"text-delta", "block-delta"}
  PROVE  j = k
<1>1. ASSUME NEW x \in DOMAIN F, NEW y \in DOMAIN F, x < y, F[x] = F[y],
             F[y].event \notin {"text-delta", "block-delta"}
      PROVE  FALSE
  <2> DEFINE S == Before(F, y)
             f == F[y]
  <2>1. f \in S
    BY <1>1, BeforeIs
  <2>2. f \in Frame /\ f = Fr(f.event, f.msg, f.index)
    BY FrameAt
  <2>3. Permitted(S, f)
    BY DEF WellFormed
  <2>4. f.event \in {"message-start", "content-block-start", "content-block-finish", "message-finish"}
    BY <1>1, <2>2 DEF Frame
  <2>5. f.msg \in Ids
    BY <2>2 DEF Frame
  <2> HIDE DEF f, S
  <2>6. CASE f.event \in {"message-start", "content-block-start"}
    BY <2>1, <2>3, <2>6 DEF Permitted
  <2>7. CASE f.event = "content-block-finish"
    BY <2>1, <2>2, <2>3, <2>7 DEF Permitted
  <2>8. CASE f.event = "message-finish"
    <3>1. f.index = NoIndex /\ IsOpen(S, f.msg)
      BY <2>3, <2>5, <2>8 DEF Permitted
    <3> QED
      BY <2>1, <2>2, <2>8, <3>1 DEF IsOpen
  <2> QED
    BY <2>4, <2>6, <2>7, <2>8
<1>2. j \in Nat /\ k \in Nat
  BY FrameAt
<1>3. j < k \/ k < j \/ j = k
  BY <1>2
<1> QED
  BY <1>1, <1>3

(* A frame comes after the start of its message, and from that start to it *)
(* no message starts or finishes.                                          *)
LEMMA InItsMessage ==
  ASSUME NEW F \in Seq(Frame), WellFormed(F), NEW k \in DOMAIN F, F[k].event # "message-start"
  PROVE  /\ \E j \in DOMAIN F :
              /\ j < k /\ F[j] = Fr("message-start", F[k].msg, NoIndex)
              /\ \A i \in DOMAIN F : j < i /\ i < k =>
                   F[i].event \notin {"message-start", "message-finish"}
         /\ \A i \in DOMAIN F : F[i].event = "message-finish" /\ F[i].msg = F[k].msg => i >= k
<1> DEFINE m == F[k].msg
           start == Fr("message-start", m, NoIndex)
           finish == Fr("message-finish", m, NoIndex)
<1>1. m \in Ids /\ IsOpen(Before(F, k), m)
  <2>1. Permitted(Before(F, k), F[k]) /\ F[k] \in Frame
    BY FrameAt DEF WellFormed
  <2>2. m \in Ids
    BY <2>1 DEF Frame
  <2> QED
    BY <2>1, <2>2 DEF Permitted
<1> HIDE DEF m
<1>2. PICK j \in DOMAIN F : j < k /\ F[j] = start
  BY <1>1, BeforeIs DEF IsOpen
<1>3. ASSUME NEW i \in DOMAIN F, i < k PROVE F[i] # finish
  BY <1>1, <1>3, BeforeIs DEF IsOpen
<1>4. ASSUME NEW i \in DOMAIN F PROVE F[i].event = "message-finish" /\ F[i].msg = m => F[i] = finish
  <2>1. Permitted(Before(F, i), F[i]) /\ F[i] = Fr(F[i].event, F[i].msg, F[i].index)
    BY FrameAt DEF WellFormed
  <2> QED
    BY <2>1 DEF Permitted
<1>5. ASSUME NEW i \in DOMAIN F, F[i].event = "message-finish", F[i].msg = m PROVE i >= k
  BY <1>3, <1>4, <1>5, FrameAt
<1>6. ASSUME NEW i \in DOMAIN F, j < i, i < k
      PROVE  F[i].event \notin {"message-start", "message-finish"}
  <2> DEFINE S == Before(F, i)
  <2>1. start \in S
    BY <1>2, <1>6, BeforeIs
  <2>2. finish \notin S
    <3>1. ASSUME NEW x \in DOMAIN F, x < i, F[x] = finish PROVE FALSE
      BY <1>3, <1>6, <3>1, FrameAt
    <3> QED
      BY <3>1, BeforeIs
  <2>3. IsOpen(S, m)
    BY <2>1, <2>2 DEF IsOpen
  <2>4. Permitted(S, F[i])
    BY DEF WellFormed
  <2>5. ~(F[i].event = "message-finish" /\ F[i].msg = m)
    BY <1>3, <1>4, <1>6
  <2> HIDE DEF S
  <2> QED
    BY <1>1, <2>3, <2>4, <2>5 DEF Permitted
<1> QED
  BY <1>2, <1>5, <1>6 DEF m

LEMMA AtMostOne ==
  ASSUME NEW S, \A x, y \in S : x = y
  PROVE  /\ Cardinality(S) \in {0, 1}
         /\ S # {} => Cardinality(S) = 1
<1>1. CASE S = {}
  BY <1>1, FS_EmptySet
<1>2. CASE S # {}
  <2>1. PICK x : x \in S
    BY <1>2
  <2>2. S = {x}
    BY <2>1
  <2> QED
    BY <1>2, <2>2, FS_Singleton
<1> QED
  BY <1>1, <1>2

-----------------------------------------------------------------------------
(* The theorems                                                             *)

(* The translator has the shape feed and finish give it (translation.py    *)
(* 85-124), and _open lists each message once.                             *)
THEOREM TranslatorTyping == Spec => []TypeOK
<1>1. TranslatorInv => TypeOK
  <2> SUFFICES ASSUME TranslatorInv PROVE TypeOK
    OBVIOUS
  <2>1. /\ tr \in States /\ Listed(tr.order, DOMAIN tr.emitter)
    BY DEF TranslatorInv, Tracks
  <2>2. /\ tr.frames \in Seq(Frame) /\ tr.emitter \in [DOMAIN tr.emitter -> Emitter]
    BY <2>1, StateParts
  <2>3. ASSUME NEW m \in DOMAIN tr.emitter
        PROVE  /\ DOMAIN tr.emitter[m] = DOMAIN NewEmitter
               /\ tr.emitter[m].blocks \subseteq Nat
               /\ tr.emitter[m].nextIndex \in Nat
    <3>1. tr.emitter[m] \in Emitter
      BY <2>2
    <3> QED
      BY <3>1 DEF Emitter, NewEmitter
  <2> QED
    BY <2>1, <2>2, <2>3 DEF TypeOK, Listed
<1> QED
  BY <1>1, TranslatorAlways, PTL

(* Frames of two messages never mix, whatever the order of their chunks:   *)
(* feed finishes the open messages before it starts another one            *)
(* (translation.py:85-103), and drops the chunks of a finished message.    *)
THEOREM FramesAreAttributable == Spec => []FramesAttributable
<1>1. TranslatorInv => FramesAttributable
  <2> SUFFICES ASSUME TranslatorInv, NEW k \in DOMAIN tr.frames
               PROVE  /\ Starts(k) # {}
                      /\ tr.frames[LastStart(k)].msg = tr.frames[k].msg
                      /\ \A i \in LastStart(k) .. k - 1 : tr.frames[i].event # "message-finish"
    BY DEF FramesAttributable
  <2> DEFINE F == tr.frames
  <2>1. F \in Seq(Frame) /\ WellFormed(F)
    BY StateParts DEF TranslatorInv, Tracks
  <2>2. DOMAIN F = 1 .. Len(F) /\ Len(F) \in Nat /\ k \in Nat /\ k >= 1 /\ 1 .. k \subseteq DOMAIN F
    BY <2>1
  <2>3. \A i : i \in Starts(k) <=> i \in 1 .. k /\ F[i].event = "message-start"
    BY DEF Starts
  <2> HIDE DEF F
  <2>4. ASSUME NEW j \in Starts(k), \A i \in Starts(k) : i <= j PROVE LastStart(k) = j
    <3>1. \A i \in Starts(k) : i \in Nat
      BY <2>3
    <3>2. \A i : i \in Starts(k) /\ (\A l \in Starts(k) : l <= i) => i = j
      BY <2>4, <3>1
    <3> QED
      BY <2>4, <3>2 DEF LastStart
  <2>5. CASE F[k].event = "message-start"
    <3>1. k \in Starts(k) /\ \A i \in Starts(k) : i <= k
      BY <2>2, <2>3, <2>5
    <3>2. LastStart(k) = k
      BY <2>4, <3>1
    <3> QED
      BY <2>2, <3>1, <3>2 DEF F
  <2>6. CASE F[k].event # "message-start"
    <3>1. PICK j \in DOMAIN F :
            /\ j < k /\ F[j] = Fr("message-start", F[k].msg, NoIndex)
            /\ \A i \in DOMAIN F : j < i /\ i < k =>
                 F[i].event \notin {"message-start", "message-finish"}
      BY <2>1, <2>6, InItsMessage DEF F
    <3>2. F[j].event = "message-start" /\ F[j].msg = F[k].msg
      BY <3>1 DEF Fr
    <3>3. j \in Starts(k)
      BY <2>2, <2>3, <3>1, <3>2
    <3>4. ASSUME NEW i \in Starts(k) PROVE i <= j
      BY <2>2, <2>3, <2>6, <3>1
    <3>5. LastStart(k) = j
      BY <2>4, <3>3, <3>4
    <3>6. ASSUME NEW i \in j .. k - 1 PROVE F[i].event # "message-finish"
      <4>1. i \in DOMAIN F /\ (i = j \/ j < i) /\ i < k
        BY <2>2
      <4> QED
        BY <3>1, <3>2, <4>1
    <3> QED
      BY <3>2, <3>3, <3>5, <3>6 DEF F
  <2> QED
    BY <2>5, <2>6
<1> QED
  BY <1>1, TranslatorAlways, PTL

(* One message is unfinished at a time, and each starts once and finishes  *)
(* at most once: finish and feed pass over the emitters that are finished  *)
(* (translation.py:98, 120).                                               *)
THEOREM OneMessageOpen == Spec => []OneMessageAtATime
<1>1. TranslatorInv => OneMessageAtATime
  <2> SUFFICES ASSUME TranslatorInv PROVE OneMessageAtATime
    OBVIOUS
  <2> DEFINE F == tr.frames
  <2>1. F \in Seq(Frame) /\ WellFormed(F)
    BY StateParts DEF TranslatorInv, Tracks
  <2>2. ASSUME NEW m, NEW event \in {"message-start", "message-finish"}
        PROVE  \A i, j \in FramesOf(m, event) : i = j
    <3> SUFFICES ASSUME NEW i \in FramesOf(m, event), NEW j \in FramesOf(m, event) PROVE i = j
      OBVIOUS
    <3>1. /\ i \in DOMAIN F /\ F[i].msg = m /\ F[i].event = event
          /\ j \in DOMAIN F /\ F[j].msg = m /\ F[j].event = event
      BY DEF FramesOf
    <3> HIDE DEF F
    <3>2. \A x \in {i, j} : F[x] = Fr(event, m, NoIndex)
      <4> SUFFICES ASSUME NEW x \in {i, j} PROVE F[x] = Fr(event, m, NoIndex)
        OBVIOUS
      <4>1. Permitted(Before(F, x), F[x]) /\ F[x] = Fr(F[x].event, F[x].msg, F[x].index)
        BY <2>1, <3>1, FrameAt DEF WellFormed
      <4> QED
        BY <3>1, <4>1 DEF Permitted
    <3> QED
      BY <2>1, <3>1, <3>2, NoRepeat
  <2>3. ASSUME NEW m \in Ids, FramesOf(m, "message-finish") # {}
        PROVE  FramesOf(m, "message-start") # {}
    <3>1. PICK k \in DOMAIN F : F[k].msg = m /\ F[k].event = "message-finish"
      BY <2>3 DEF FramesOf
    <3> HIDE DEF F
    <3>2. PICK j \in DOMAIN F : F[j] = Fr("message-start", F[k].msg, NoIndex)
      BY <2>1, <3>1, InItsMessage
    <3>3. F[j].event = "message-start" /\ F[j].msg = m
      BY <3>1, <3>2 DEF Fr
    <3> QED
      BY <3>3 DEF FramesOf, F
  <2>4. ASSUME NEW m \in Ids
        PROVE  /\ Cardinality(FramesOf(m, "message-start")) <= 1
               /\ Cardinality(FramesOf(m, "message-finish")) <= Cardinality(FramesOf(m, "message-start"))
    <3> DEFINE A == FramesOf(m, "message-start")
               B == FramesOf(m, "message-finish")
    <3>1. (\A x, y \in A : x = y) /\ (\A x, y \in B : x = y) /\ (B # {} => A # {})
      BY <2>2, <2>3
    <3> HIDE DEF A, B
    <3>2. /\ Cardinality(A) \in {0, 1} /\ (A # {} => Cardinality(A) = 1)
          /\ Cardinality(B) \in {0, 1} /\ (B = {} => Cardinality(B) = 0)
      BY <3>1, AtMostOne, FS_EmptySet
    <3> QED
      BY <3>1, <3>2 DEF A, B
  <2> DEFINE U == {m \in Ids : FramesOf(m, "message-finish") = {} /\ Known(tr, m)}
  <2>5. ASSUME NEW m \in U PROVE m \in DOMAIN tr.emitter /\ ~tr.emitter[m].finished
    <3>1. m \in DOMAIN tr.emitter /\ FramesOf(m, "message-finish") = {}
      BY DEF Known
    <3>2. Fr("message-finish", m, NoIndex) \notin Out(F)
      BY <3>1 DEF FramesOf, Out, Fr
    <3> QED
      BY <3>1, <3>2 DEF TranslatorInv, Tracks, Agrees
  <2>6. \A m, n \in U : m = n
    BY <2>5 DEF TranslatorInv, Tracks
  <2> HIDE DEF U
  <2>7. Cardinality(U) <= 1
    BY <2>6, AtMostOne
  <2> QED
    BY <2>4, <2>7 DEF OneMessageAtATime, U
<1> QED
  BY <1>1, TranslatorAlways, PTL

(* Blocks of tool calls are bracketed: a delta comes after the start of    *)
(* its block (translation.py:168-211) and no frame of the block after its  *)
(* finish, which _finalize_blocks (213-228) sends for each block once,     *)
(* before the message finishes.                                            *)
THEOREM BlocksAreBracketed == Spec => []BlocksBracketed
<1>1. TranslatorInv => BlocksBracketed
  <2> DEFINE Same(k, event) ==
        {i \in FramesOf(tr.frames[k].msg, event) : tr.frames[i].index = tr.frames[k].index}
  <2> SUFFICES ASSUME TranslatorInv, NEW k \in DOMAIN tr.frames
               PROVE  /\ tr.frames[k].event \in {"block-delta", "content-block-finish"} =>
                           /\ Cardinality(Same(k, "content-block-start")) = 1
                           /\ \A i \in Same(k, "content-block-start") : i < k
                           /\ \A i \in Same(k, "content-block-finish") : i >= k
                      /\ /\ tr.frames[k].event = "content-block-start"
                         /\ FramesOf(tr.frames[k].msg, "message-finish") # {}
                         => Cardinality(Same(k, "content-block-finish")) = 1
    BY DEF BlocksBracketed
  <2> DEFINE F == tr.frames
             m == F[k].msg
             x == F[k].index
             start == Fr("content-block-start", m, x)
             finish == Fr("content-block-finish", m, x)
             A == Same(k, "content-block-start")
             B == Same(k, "content-block-finish")
  <2>1. F \in Seq(Frame) /\ WellFormed(F)
    BY StateParts DEF TranslatorInv, Tracks
  <2>2. A = {i \in DOMAIN F : F[i] = start} /\ B = {i \in DOMAIN F : F[i] = finish}
    <3>1. \A i \in DOMAIN F : F[i] = Fr(F[i].event, F[i].msg, F[i].index)
      BY <2>1, FrameAt
    <3>2. \A event : Same(k, event) = {i \in DOMAIN F : F[i] = Fr(event, m, x)}
      BY <3>1 DEF FramesOf, Fr
    <3> QED
      BY <3>2
  <2> HIDE DEF F, m, x, A, B
  <2>3. Permitted(Before(F, k), F[k]) /\ F[k] = Fr(F[k].event, m, x) /\ k \in Nat
    BY <2>1, FrameAt DEF WellFormed, F, m, x
  <2>4. start.event = "content-block-start" /\ finish.event = "content-block-finish"
    BY DEF Fr
  <2>5. (\A i, j \in A : i = j) /\ (\A i, j \in B : i = j)
    BY <2>1, <2>2, <2>4, NoRepeat
  <2>6. (A # {} => Cardinality(A) = 1) /\ (B # {} => Cardinality(B) = 1)
    BY <2>5, AtMostOne
  <2>7. CASE F[k].event \in {"block-delta", "content-block-finish"}
    <3>1. start \in Before(F, k) /\ finish \notin Before(F, k)
      BY <2>3, <2>7 DEF Permitted, m, x
    <3>2. PICK j \in DOMAIN F : j < k /\ F[j] = start
      BY <2>1, <3>1, BeforeIs DEF F
    <3>3. j \in A /\ \A i \in A : i < k
      BY <2>2, <2>5, <3>2
    <3>4. ASSUME NEW i \in B PROVE i >= k
      <4>1. i \in DOMAIN F /\ F[i] = finish
        BY <2>2
      <4>2. ~(i < k) /\ i \in Nat
        BY <2>1, <3>1, <4>1, BeforeIs, FrameAt DEF F
      <4> QED
        BY <2>3, <4>2
    <3> QED
      BY <2>6, <2>7, <3>3, <3>4 DEF F, A, B
  <2>8. CASE F[k].event = "content-block-start" /\ FramesOf(F[k].msg, "message-finish") # {}
    <3>1. PICK p \in DOMAIN F : F[p].msg = m /\ F[p].event = "message-finish"
      BY <2>8 DEF FramesOf, F, m
    <3>2. k < p
      <4>1. p >= k
        BY <2>1, <2>8, <3>1, InItsMessage DEF F, m
      <4>2. p # k /\ p \in Nat
        BY <2>1, <2>8, <3>1, FrameAt DEF F
      <4> QED
        BY <2>3, <4>1, <4>2
    <3>3. start \in Before(F, p)
      BY <2>1, <2>3, <2>8, <3>1, <3>2, BeforeIs DEF F
    <3>4. x \in Nat
      BY <2>3, <2>8 DEF Permitted, x
    <3>5. finish \in Before(F, p)
      <4>1. Permitted(Before(F, p), F[p])
        BY <2>1, <3>1 DEF WellFormed
      <4> QED
        BY <3>1, <3>3, <3>4, <4>1 DEF Permitted
    <3>6. B # {}
      BY <2>1, <2>2, <3>1, <3>5, BeforeIs
    <3> QED
      BY <2>4, <2>6, <2>8, <3>6 DEF F, B
  <2> QED
    BY <2>7, <2>8 DEF F
<1> QED
  BY <1>1, TranslatorAlways, PTL

(* While a message is open, every text fed for it went out: feed drops     *)
(* only chunks of finished messages (translation.py:98).                   *)
THEOREM OpenMessagesKeepText == Spec => []OpenMessagesComplete
<1>1. TranslatorInv => OpenMessagesComplete
  <2> SUFFICES ASSUME TranslatorInv, NEW m \in DOMAIN tr.emitter, ~tr.emitter[m].finished
               PROVE  Cardinality(FramesOf(m, "text-delta")) = fed[m]
    BY DEF OpenMessagesComplete
  <2>1. m \in Ids
    BY StateParts DEF TranslatorInv, Tracks
  <2>2. Cardinality(Texts(tr.frames, m)) = fed[m]
    BY <2>1 DEF TranslatorInv, Tracks, Counted, Known
  <2>3. Texts(tr.frames, m) = FramesOf(m, "text-delta")
    BY DEF Texts, FramesOf
  <2> QED
    BY <2>2, <2>3
<1> QED
  BY <1>1, TranslatorAlways, PTL
=============================================================================
