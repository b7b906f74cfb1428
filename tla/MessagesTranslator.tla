-------------------------- MODULE MessagesTranslator --------------------------
(***************************************************************************)
(* The translator of one run (translation.py): message chunks in, frames   *)
(* out.  The chunks are the run's; frames go to the thread's hub.  Texts,  *)
(* names and arguments are left out: a chunk has text or not, and a        *)
(* fragment of a tool call has arguments or not.                           *)
(*                                                                         *)
(* A frame on the wire names its message only in message-start; the field  *)
(* msg of the other frames is the model's, to say whose they are.  Chunks  *)
(* whose role is unknown are ignored and are no action.                    *)
(***************************************************************************)
EXTENDS Integers, FiniteSets, SequencesExt

CONSTANTS
  Named,       \* ids of messages
  Anonymous,   \* ids "msg-<address>" given to chunks without id; the address
               \* of a chunk that was freed may come again
  Fragments,   \* sequences of tool_call_chunks a chunk may carry
  Usages,      \* whether chunks may carry usage_metadata: a subset of BOOLEAN
  NoIndex,     \* the index None
  MaxChunks    \* bound on the length of the stream, for TLC

(* The index of a tool call is an int (translation.py:63), counted from 0. *)
ASSUME TranslatorAssumption ==
  /\ Fragments \subseteq Seq([index : Nat \cup {NoIndex}, args : BOOLEAN])
  /\ NoIndex \notin Nat

VARIABLES
  tr,          \* the translator: order and emitters of _open, and the frames out
  fed,         \* history: chunks with text fed, by message
  chunks,      \* history: how many chunks were fed
  over         \* the run is over

vars == <<tr, fed, chunks, over>>

Ids == Named \cup Anonymous
Chunk == [id : Ids, text : BOOLEAN, fragments : Fragments, usage : Usages]

(* MessageFrameEmitter, as created by feed; blocks are the keys of its map *)
(* of tool-call blocks.                                                    *)
NewEmitter == [started |-> FALSE, finished |-> FALSE, textIndex |-> NoIndex,
               blocks |-> {}, nextIndex |-> 0]

Init ==
  /\ tr = [order |-> <<>>, emitter |-> [m \in {} |-> NewEmitter], frames |-> <<>>]
  /\ fed = [m \in Ids |-> 0]
  /\ chunks = 0
  /\ over = FALSE

Known(st, m) == m \in DOMAIN st.emitter

Sink(st, m, event, index) ==
  [st EXCEPT !.frames = Append(@, [event |-> event, msg |-> m, index |-> index])]

-----------------------------------------------------------------------------
(* finish                                                                   *)

(* _finalize_blocks: the blocks in the order of their indices, the largest *)
(* last.                                                                   *)
FinalizeBlocks_Not(st, m) == st
FinalizeBlocks(st, m) ==
  MapThenFoldSet(LAMBDA i, s : Sink(s, m, "content-block-finish", i), st,
                 LAMBDA i : i, LAMBDA S : Max(S), st.emitter[m].blocks)

FinishMessage_StaysOpen(st, m) ==
  Sink(FinalizeBlocks(st, m), m, "message-finish", NoIndex)
FinishMessage(st, m) ==
  [Sink(FinalizeBlocks(st, m), m, "message-finish", NoIndex)
     EXCEPT !.emitter[m].finished = TRUE]

(* finish(None): every unfinished message, oldest first.                   *)
FinishAll_Not(st) == st
FinishAll(st) ==
  FoldLeft(LAMBDA s, m : IF s.emitter[m].finished THEN s ELSE FinishMessage(s, m),
           st, st.order)

(* finish(chunk): the chunk's message, which a chunk without id has not.   *)
Finish(st, c) ==
  IF c.id \in Named /\ Known(st, c.id) /\ ~st.emitter[c.id].finished
  THEN FinishMessage(st, c.id) ELSE st

-----------------------------------------------------------------------------
(* feed                                                                     *)

Open(st, m) ==
  [st EXCEPT !.order = Append(@, m),
             !.emitter = [k \in {m} \cup DOMAIN @ |-> IF k = m THEN NewEmitter ELSE @[k]]]

(* A message not seen before finishes the open ones.                       *)
Enter_Reopens(st, m) ==
  IF Known(st, m) /\ ~st.emitter[m].finished THEN st ELSE Open(FinishAll(st), m)
Enter(st, m) == IF Known(st, m) THEN st ELSE Open(FinishAll(st), m)

EmitStart(st, m) ==
  IF st.emitter[m].started THEN st
  ELSE [Sink(st, m, "message-start", NoIndex) EXCEPT !.emitter[m].started = TRUE]

(* allocate_index                                                          *)
Allocate(st, m) == [st EXCEPT !.emitter[m].nextIndex = @ + 1]

(* The first text of a message allocates the index its text has.           *)
EmitText_Once(st, m, text) ==
  LET e == st.emitter[m] IN
  IF ~text \/ e.textIndex # NoIndex THEN st
  ELSE [Sink(Allocate(st, m), m, "text-delta", e.nextIndex)
          EXCEPT !.emitter[m].textIndex = e.nextIndex]
EmitText(st, m, text) ==
  LET e == st.emitter[m]
      s == IF e.textIndex # NoIndex THEN st
           ELSE [Allocate(st, m) EXCEPT !.emitter[m].textIndex = e.nextIndex]
  IN IF text THEN Sink(s, m, "text-delta", s.emitter[m].textIndex) ELSE st

(* One tool_call_chunk: without an index it gets the next one allocated;   *)
(* an index without a block starts one.                                    *)
EmitFragment(st, m, f) ==
  LET index == IF f.index = NoIndex THEN st.emitter[m].nextIndex ELSE f.index
      s == IF f.index = NoIndex THEN Allocate(st, m) ELSE st
      b == IF index \in s.emitter[m].blocks THEN s
           ELSE [Sink(s, m, "content-block-start", index)
                   EXCEPT !.emitter[m].blocks = @ \cup {index}]
  IN IF f.args THEN Sink(b, m, "block-delta", index) ELSE b

(* A chunk of a finished message is dropped.                               *)
Feed(st, c) ==
  LET e == Enter(st, c.id)
      s == EmitText(EmitStart(e, c.id), c.id, c.text)
  IN IF e.emitter[c.id].finished THEN e
     ELSE FoldLeft(LAMBDA x, f : EmitFragment(x, c.id, f), s, c.fragments)

-----------------------------------------------------------------------------
(* What the run does with its translator (runner.py, _execute): feed each  *)
(* chunk, finish the message of a chunk that carries usage.                *)
Stream(c) ==
  /\ ~over
  /\ chunks < MaxChunks
  /\ tr' = IF c.usage THEN Finish(Feed(tr, c), c) ELSE Feed(tr, c)
  /\ fed' = [fed EXCEPT ![c.id] = @ + IF c.text THEN 1 ELSE 0]
  /\ chunks' = chunks + 1
  /\ UNCHANGED over

(* A run that completes, fails or is cancelled finishes all messages; one  *)
(* that its graph interrupted does not.                                    *)
End ==
  /\ ~over
  /\ over' = TRUE
  /\ tr' = FinishAll(tr)
  /\ UNCHANGED <<fed, chunks>>
EndInterrupted ==
  /\ ~over
  /\ over' = TRUE
  /\ UNCHANGED <<tr, fed, chunks>>

Next == (\E c \in Chunk : Stream(c)) \/ End \/ EndInterrupted

Spec == Init /\ [][Next]_vars

-----------------------------------------------------------------------------
(* Properties                                                               *)

Frame == [event : {"message-start", "content-block-start", "text-delta", "block-delta",
                   "content-block-finish", "message-finish"},
          msg : Ids, index : Nat \cup {NoIndex}]

(* Every variable has the shape the code gives it, and _open holds each    *)
(* message once.                                                           *)
TypeOK ==
  /\ tr.order \in Seq(Ids)
  /\ DOMAIN tr.emitter = ToSet(tr.order)
  /\ IsInjective(tr.order)
  /\ \A m \in DOMAIN tr.emitter :
       /\ DOMAIN tr.emitter[m] = DOMAIN NewEmitter
       /\ tr.emitter[m].blocks \subseteq Nat
       /\ tr.emitter[m].nextIndex \in Nat
  /\ tr.frames \in Seq(Frame)

Starts(k) == {i \in 1..k : tr.frames[i].event = "message-start"}
LastStart(k) == CHOOSE i \in Starts(k) : \A j \in Starts(k) : j <= i

(* A client that takes every frame for one of the message started last     *)
(* takes it for the right one, and none comes before its message started   *)
(* or after it finished: frames of two messages never mix, whatever order  *)
(* their chunks have.                                                      *)
FramesAttributable ==
  \A k \in DOMAIN tr.frames :
    /\ Starts(k) # {}
    /\ tr.frames[LastStart(k)].msg = tr.frames[k].msg
    /\ \A i \in LastStart(k) .. k - 1 : tr.frames[i].event # "message-finish"

(* The frames of one event a message has.                                  *)
FramesOf(m, event) == {i \in DOMAIN tr.frames : tr.frames[i].msg = m /\ tr.frames[i].event = event}

(* A message starts once and finishes at most once, and at any time at     *)
(* most one is unfinished.                                                 *)
OneMessageAtATime ==
  /\ \A m \in Ids :
       /\ Cardinality(FramesOf(m, "message-start")) <= 1
       /\ Cardinality(FramesOf(m, "message-finish")) <= Cardinality(FramesOf(m, "message-start"))
  /\ Cardinality({m \in Ids : FramesOf(m, "message-finish") = {} /\ Known(tr, m)}) <= 1

(* A tool-call block starts once, all its deltas come after its start, and *)
(* a finished message has finished each block it started, exactly once and *)
(* after the last delta.                                                   *)
BlocksBracketed ==
  \A k \in DOMAIN tr.frames :
    LET f == tr.frames[k]
        Same(event) == {i \in FramesOf(f.msg, event) : tr.frames[i].index = f.index}
    IN
    /\ f.event \in {"block-delta", "content-block-finish"} =>
         /\ Cardinality(Same("content-block-start")) = 1
         /\ \A i \in Same("content-block-start") : i < k
         /\ \A i \in Same("content-block-finish") : i >= k
    /\ f.event = "content-block-start" /\ FramesOf(f.msg, "message-finish") # {} =>
         Cardinality(Same("content-block-finish")) = 1

(* As long as a message is open, every text fed for it was passed on.      *)
OpenMessagesComplete ==
  \A m \in DOMAIN tr.emitter :
    ~tr.emitter[m].finished => Cardinality(FramesOf(m, "text-delta")) = fed[m]

(* "state is keyed by streamed chunk id so concurrent messages interleave  *)
(* safely" (translation.py:77): no text is lost when chunks of two         *)
(* messages alternate.                                                     *)
InterleavingKeepsText ==
  \A m \in Ids : Cardinality(FramesOf(m, "text-delta")) = fed[m]
=============================================================================
