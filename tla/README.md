# A verification of fastapi-agent-protocol

TLA+ models of the concurrent core of `src/fastapi_agent_protocol`, the TLC
runs that check them on small instances, and theorems about them that TLAPS
checks for every value of the constants.  `PROJECT.json` maps each definition to
the lines it stands for and lists runs, mutants, findings, hazards and theorems.

## 1. The system

The library serves LangGraph graphs over HTTP.  A client creates a *thread*,
posts *commands* to it (`run.start`, `input.respond`, `run.cancel`,
`state.get`) and reads the thread's *events* from a server-sent event stream
that it may drop and reopen with a cursor (`since`).  Everything runs on one
asyncio loop: code between two awaits is atomic, and all hazards come from what
other tasks, callbacks and requests do at the awaits.

| component | state | operations | correct when |
|---|---|---|---|
| run manager (`runner.py`) | `_active` (thread → run), `_pending_inputs`, `_last_assistant`, one task per run | `start`, `respond`, `cancel`, `wait`, the task `_execute`, its done-callback `_clear` | one live run per thread; the slot always says who that is; one lifecycle per run; an interrupt is answered at most once and by the graph that asked; a failed start changes nothing; a busy thread becomes free |
| agent registry (`registry.py`) | factories by name | `register`, `resolve` (awaits a factory) | an unknown or failing agent leaves the thread as it was |
| event hub (`hub.py`) | `_seq`, the ring `_buffer`, `_subscribers` with queue and cursor | `publish`, `subscribe`, `unsubscribe`, `replay`, `matches` | per stream: in order, at most once, nothing lost but by eviction or by its own full queue |
| event stream (`router.py`, `_stream`) | a generator per connection | connect, replay, live delivery, heartbeat, disconnect | the handoff from replay to live neither repeats nor loses |
| messages translator (`translation.py`) | the messages of a run in the order they came, with their indices and tool-call blocks | `feed`, `finish` | frames are attributable, bracketed, complete |
| command and state endpoints (`router.py`) | none of their own | the four commands, thread and state endpoints | what is answered agrees with store, checkpointer and manager |
| thread stores (`threads.py`) | rows in memory or sqlite | `create`, `get`, `set_assistant` | a binding that was acknowledged survives restarts and failed writes |
| state and history (`state.py`) | none | read a checkpoint, accumulate a page of history | pages tile the history; values are what the writes of the page say |
| factory (`factory.py`) | wiring | `create_protocol`, `register` | a new process starts from store and saver alone |
| ids (`uuid7.py`) | none | | |

Interactions.  A command endpoint calls the manager; the manager awaits the
registry's factory, then creates a task.  The task iterates the graph's stream,
feeds message chunks to its translator and publishes lifecycle events, frames
and requests for input on the thread's hub.  `publish` is synchronous and puts
envelopes on the queues of the subscribers.  Each stream's generator takes them
from there.  `run.start` then binds its assistant to the thread's row, and
`input.respond` reads that row, and the checkpointer of its graph (the *saver*),
before it asks the manager to resume.  `cancel` throws `CancelledError` into the task; the loop calls
`_clear` some time after the task is done.

The hard behaviours:

* a slot is taken before an await and filled after it, and every outcome of
  that await (a graph, an exception, a cancellation of the caller), and of the
  code between it and the new task, must leave slot and pending interrupts right;
* a slot belongs to the thread of the URL, and the run executes on the thread
  its configurable names, which the client can choose;
* a task can be cancelled before its first step, in its stream, in the read of
  the checkpointer, or after it is done but before its callback ran;
* a run ends by exhaustion, by an interrupt, by an exception or by cancellation;
* publishers run between `subscribe` and `replay` and between any two yields of
  a stream, with a ring and a queue that overflow independently;
* the pending interrupts of a thread are recorded twice, in the manager's map
  and in the saver, and so is its assistant, in the map and in the row; runs,
  failed writes and restarts change one at a time;
* a client pages through checkpoints while a run adds new ones;
* chunks of messages come in any order, with or without id.

## 2. The modules

| module | models | its parts |
|---|---|---|
| `ThreadRuns` | | what the run manager promises the clients of its threads (abstract) |
| `RunManager` | `runner.py` with `registry.py` | `Register`; `Start`, `Respond` (through `Dispatch`), `ResolveOk`, `StartRaises`, `ResolveFail`, `StartCancelled`; `Cancel`; the task: `Begin`, `CancelUnstarted`, `Message`, `Values`, `StreamEnds`, `SnapshotReturns`, `Fail`, `Cancelled`; `DoneCallback`; `Thread` is the refinement mapping |
| `MCRunManager` | | instances for TLC |
| `RunManagerProofs` | | types, slots, single flight |
| `RunManagerLogProofs` | | pending interrupts, the refinement of `ThreadRuns`, the log, the lifecycle of each run, which runs leave a message open |
| `EventFeed` | | what the hub promises a consumer (abstract) |
| `EventHub` | `hub.py` and `_stream` of `router.py` | `Publish`, `Subscribe`, `Connect`, `Replay`, `ReplayYield`, `ReplayEnd`, `LiveYield`, `LiveSkip`, `Disconnect`, `DisconnectUnstarted`; `Feed` is the refinement mapping |
| `MCEventHub` | | contents, filters and cursors for TLC |
| `EventHubProofs` | | the ring, the delivery and what it may lose, the refinement of `EventFeed` |
| `ThreadStore` | `threads.py` | `Create`, `SetAssistant`, `SetAssistantRaises`, `Reopen`, `Exists` |
| `Protocol` | the commands of `router.py`, composed with `RunManager` and `ThreadStore`; `factory.py` | `CreateThread`, `RunStart`, `RunStarted`, `RunStartRaises`, `FindInterrupt`, `Resume`, `ResumeRefused`, `Resumed`, `RunCancel`; the runs and the saver: `GraphValues`, `GraphEnds`, `GraphSnapshot`; `Restart`; the manager's other steps, `ManagerStep` |
| `MCProtocol` | | symmetry for TLC |
| `ProtocolProofs` | | the invariants of the composition |
| `ThreadHistory` | `read_thread_history` of `state.py` and the history endpoints of `router.py` | `NewCheckpoint`, `WriteTo` (the saver), `Fetch` (a request and its answer); `Accumulate`, `Reconstruct`, `Cursor`, `History` |
| `MCThreadHistory` | | page sizes for TLC |
| `ThreadHistoryProofs` | | the pages and their values |
| `MessagesTranslator` | `translation.py` and its use in `_execute` | `Stream` (feed, finish on usage), `End`, `EndInterrupted` |
| `MCMessagesTranslator` | | chunks for TLC |
| `MessagesTranslatorProofs` | | the frames of a message and their order |
| `Induction`, `FoldFacts` | | facts for the proofs: least and largest elements, induction over finite sets, folds over sequences and sets |

### RunManager

`phase[r]` says where the call of `start` for run `r`, and then its task, is
suspended.

| phase | in the code |
|---|---|
| `resolving` | `start` awaits `registry.resolve`; `_active[thread]` is an `ActiveRun` without task |
| `rejected` | `start` raised and released the slot |
| `abandoned` | `start` was left by an exception its `except` clause does not see: its caller was cancelled at the await, or the metadata of its client did not merge after it (`runner.py:148-149`) |
| `scheduled` | `create_task` was called, `_execute` has not run |
| `streaming`, `snapshot` | `_execute` awaits the graph's next item, or the checkpointer in `_snapshot_values` |
| `ended`, `cleared` | the task is done; `_clear` has run |

`active`, `pending`, `lastAssistant` and `registered` are the dictionaries of
the code.  `pending[t]` keeps the set of interrupt ids apart from the
`"assistant_id"` entry the code stores among them; `Respond` accepts that key
(`AssistantKey`) as the code does.  `call[r]` holds the locals of `start`; its
`config` is what `start` makes of the client's config and metadata, which nobody
validates: the `thread_id` of the run's configurable, where a client's own wins
over the thread's (`runner.py:142-145`), and whether the metadata merges.  `Target(r)`
is that thread.  `Named` is the set of threads clients name in their configs;
`respond` passes neither config nor metadata (`NoConfig`).
`log[t]` holds what is published on the thread's hub: lifecycle events and
requests for input, the requests of one run being one entry with the set of
their ids.  Message frames are abstracted to `open[r]`: the translator has a
message that is started and not finished.

A call that raises without an await before it (thread busy, interrupt unknown)
changes nothing and is no action.  In `Dispatch` an unknown assistant takes and
releases the slot in one step, so that an older, finished run's slot is emptied,
as in the code.  `Cancel` on a thread without a task changes nothing.  A
cancelled task can end with `Cancelled` (the error came through), or with
`Fail` (the graph raised something else while cleaning up).

`ThreadRuns` knows no slots, no reservations and no callbacks.  A thread has a
holder, a question and a trace; an accepted start takes the thread and its
question in one step, and the run's last step gives the thread back, reports,
and puts the next question.  In the mapping a thread is held while the run in its
slot has a task that is not done: the reservation before that, and the slot that
the done-callback has yet to clear after it, are not seen, nor is any start that
was refused, failed or abandoned.

### EventHub

An envelope is its `seq`, `events[n]` the method and namespace of envelope `n`;
ring, queues and deliveries are sequences of `seq`.  The stages of a stream are
the points where its generator is suspended.  `outbox` is the list `replay`
returned as far as it has not been yielded: the model keeps the whole ring
there and tests each event when it reaches it, which is equivalent because the
filter and `since` of a stream never change.  `joined`, `floor`, `dropped` and
`delivered` are history variables, read by properties and never by actions.

`EventFeed` knows no ring, no queues and no replay: a consumer has a cursor,
and each delivery takes it to a later event it wants.  An event is passed over
only if `ReplaySize` newer ones exist, or if it was more than `MaxQueue` events
after the subscription.  `ImplementsFeed` checks that the hub implements it,
with the last delivered event as the cursor.

### MessagesTranslator

Texts, names and arguments are left out; a chunk has text or not, and carries a
sequence of tool-call fragments, each with or without index and arguments.
Frames carry the message they belong to, which on the wire only
`message-start` does: `FramesAttributable` says a reader can recover it.  Ids of
`Anonymous` messages stand for `msg-<address>`; the same address may come again
in a later chunk.

### ThreadStore and Protocol

`rows[t]` is what `get` returns for a thread, `disk[t]` what was committed: the
store keeps one connection, which reads its own uncommitted writes, and a commit
writes whatever the open transaction holds.  `set_assistant` may raise before its
update or in its commit.  Store calls await nothing and are part of their
caller's step.  The memory store is `Durable = FALSE`: the same steps without
errors, and nothing left after a restart.  A `create` that raises is left out.

`Protocol` EXTENDS `RunManager`: its steps are those of the manager, each together
with what the handler around it does.  A handler is cut at its awaits.
`RunStart` is `run.start` up to the await in `manager.start`, `RunStarted` the
rest of it, from the creation of the task to the binding, with no await between,
and `RunStartRaises` the exit by an exception the handler does not catch.
`input.respond` is `FindInterrupt` (it has read the saver and found its
interrupt, held in `request[q]`), then `Resume` or `ResumeRefused`, then
`Resumed`; `answer[r]` marks a run started that way.  A command that is refused
before it reaches the manager changes nothing and is no action; neither are the
reads (`state.get`, the state endpoint).

The saver is the user's.  What is assumed of it: every graph has one and all of
them are durable; `saved[t]` is the last checkpoint of the thread, with its
pending interrupts and the assistant whose graph wrote it.  A run writes to the
thread its configurable names (`Save`, `Target`), so a run that holds the slot of
one thread may write another's checkpoints.  A thread is `Private` while no start
of this life of the process crosses its boundary, from it or to it; the properties that
relate manager and saver are about such threads, and the runs show that without
this they fail.  A graph checkpoints its values before or
after it streams them (`GraphValues` leaves it open), the values with interrupts
are the last ones, and when the stream ends the saver holds what was streamed
last, or what another graph wrote there since.  A graph without values is asked through `aget_state`, which knows of
interrupts only through the graph that raised them.  `Restart` may come at
any step: the manager, its tasks and all requests are gone, the store comes back
from its disk, the saver stays.  Callers are not cancelled here
(`CallerCancels` is `FALSE`): that a cancelled caller leaks the slot is a matter of
`RunManager` alone.  `Fits` is the bound on the starts of the lives after the first.

### ThreadHistory

Checkpoints are numbered by their ids, and each holds the writes that are
pending in it: a channel, a list or a scalar, and the items that name the write.
`Accumulate` is the loop over pending writes: reserved channels are skipped,
a list extends, a scalar replaces, and a list on top of a scalar is the
`AttributeError` of `extend` on it, which fails the page (`Broken`, status 500).
`Reconstruct` folds it over the page from the oldest entry, each entry a copy.
`Fetch` is one request of a client that takes the last id it has as the next
cursor, as a plain id (GET) or inside a config (POST), with any limit, 0
included.  A page is read at one moment.  That the endpoint
serves an empty list while no assistant is bound to the thread, its 404s for a
thread that does not exist or whose assistant is not registered
(`router.py:148-149, 159-160`), the `ValueError` for a graph without a
checkpointer (`state.py:108-109`), and the serialization of values, are left out:
these answers give the client nothing and change nothing.

## 3. The runs

| run | instance | shows |
|---|---|---|
| `run_safety` | 1 thread, 3 runs, 2 assistants, 1 interrupt, callers may be cancelled | types; one live run; slots and runs agree; each run reports what its end calls for, once; no interleaving; pending interrupts are the last request, consumed only by a start that succeeded and still there when it does; ended runs close their messages unless they asked for input |
| `run_settles` | 2 threads, 2 runs, 2 assistants, callers not cancelled, `LoopSpec` | a cancelled run frees its thread; a start whose metadata merges gives the slot it took back if its environment ends; the manager implements `ThreadRuns` |
| `hub_safety` | 1 stream, every filter and cursor of the module, ring 2, queue 2, 5 events | the ring; order and at-most-once; no gap but eviction and overflow; the hub implements `EventFeed`; what is neither evicted nor refused arrives (`FairSpec`) |
| `protocol` | 2 threads, either of which a client may name on the other, 2 assistants, 1 interrupt, 2 runs, and 1 after a restart, 1 answer in flight, sqlite | types; map and saver agree on threads no run crosses; acknowledged bindings survive failed writes and the restart; what executes is what is bound; on threads no run crosses, every interrupt a client sees while the thread is quiet can be answered, before and after the restart, and nobody writes the saver while a start resolves; the manager implements `ThreadRuns` in each life |
| `history` | 3 checkpoints, 3 writes to 2 channels and a reserved one, pages of 1, 2 and 10 | pages tile the history under concurrent checkpoints; each page is the net effect of its writes and fails only on a channel of mixed kinds; the oldest checkpoint is reached |
| `translator` | 2 named messages, 1 reused address, 4 chunks | frames attributable, bracketed, complete while the message is open |
| `run_terminal`, `run_failed_start`, `run_other_thread`, `hub_handoff`, `translator_loss`, `protocol_stale` | small | the findings of section 6 |

Why the bounds are enough.  In the manager, threads share nothing but the registry
(a run that executes on another's checkpoints is nothing the manager sees), so one
thread shows every interleaving of its runs; three runs give two generations of
interrupt and answer with a third, late, failing or cancelled start, and one run
whose done-callback is still to come while its successor is live.  Two
assistants are needed to see an answer go to the wrong graph.  `run_settles`
adds a second thread: liveness of one does not depend on the other, and a step on
one changes nothing of the other.  Its two runs are enough for a successor that
takes the slot before its predecessor's callback; the theorem covers any number,
and cancelled callers.  Runs and assistants are symmetric in `run_safety` (no liveness is
checked there).  In the hub, five
events are more than ring and queue hold together, so each is both filled and
overrun.  A subscriber is touched by no other subscriber's steps, so one stream
is enough.  In `protocol` two runs give an interrupt and its answer, a start of
the other assistant that supersedes it, or a run beside another that writes its
checkpoints; the restart can fall between any two steps of them, and the one
start after it answers what the first life left.  Threads, runs, assistants and
interrupts are symmetric (the properties are safety properties).  With the
premise `Private` dropped TLC refutes `PendingMatchesSaver` and
`SaverStillWhileResolving` in this instance, and without the abandoned starts in its
premise `InterruptsStayAnswerable`; that the latter needs `Private` takes a second
interrupt to see, and with two the instance passes as well but takes several times
as long, so the run has one and the theorem covers the rest.  Three checkpoints let a page begin in the
middle of the history, with a write before, in and after it.
Four chunks allow two messages to alternate twice, and a tool call to be opened,
continued and finished.  Deadlock is not checked in these runs: with all run
ids used, all events published and no client reading, the system rests.

The bounds are `Runs` (how many starts), `MaxSeq` (events), `MaxChunks`
(chunks of a run), `Requests` (answers in flight), `MaxRestarts`, `LaterRuns`
(starts in each life after the first),
`MaxCheckpoints` and `MaxWrites`; `ReplaySize` and `MaxQueue` are parameters of the code
(500 and 4096 there).

Each property has at least one mutant, a plausible bug in a mapped definition
(defined before it, with a suffix such as `_IgnoresReservation`), under which
TLC finds the property violated.

## 4. Fairness

* `LoopFairness` (with `Spec`: `LoopSpec`) is what asyncio gives: a ready task takes its
  first step, a done task's callback runs, and a task whose graph was thrown a
  `CancelledError` ends.  The last one is an assumption about graphs: one that swallows
  cancellation for ever would never end.  Nothing is assumed of graphs that were not
  cancelled, of factories or of callers.
* `GraphFairness` (factories answer, streams end, checkpointers answer) is no
  part of a specification.  It is the premise of `DispatchedRunSettles`.
* `FairSpec` of `EventHub`: a connected client keeps reading, so its generator
  takes its steps.  Disconnecting, publishing and subscribing are never forced.
* `PagingFairness` of `ThreadHistory`: the client goes on asking for pages.  Nothing
  is assumed of the run; that checkpoints are finitely many is the bound of the
  instance, and not needed, as new ones are never behind the cursor.
* `Protocol` states no fairness: its properties are about safety.

## 5. What is proved

TLAPS checks, for any sets of threads, runs, assistants and interrupts, any
sizes of ring and queues, and histories, pages and streams of any length:

| theorem | states | argument |
|---|---|---|
| `Typing` | `Spec => []TypeOK` | inductive as it stands |
| `Slots` | `Spec => []SlotsAndRunsAgree` | inductive with `TypeOK`: a start takes a slot only if its holder is done, so by the invariant no run of the thread is live or abandoned; a release empties the slot only for the run that holds it |
| `OneRunPerThread` | `Spec => []SingleFlight` | two live runs would both hold the one slot |
| `FailedStarts` | without cancelled callers, a start whose metadata merges holds no slot once it failed | by `SlotsAndRunsAgree` a slot names a live run, a done one, or a start that failed unseen, which takes a cancelled caller or metadata that does not merge; for any metadata it is false, as section 6 says |
| `Closing` | `Spec => []EndedRunsCloseMessages` | `OpenInv`: before its task a run has no message, and a run that is over with a message open has its request in the log |
| `Lifecycles` | `Spec => []LifecycleTrace` | `TraceInv`, with `LogInv` and `SlotInv`: a step that ends a run appends what its cancellation and its last values call for; an event appended to a log is appended to what its own run reports and leaves what the others report alone (`FoldAppend`), and each step appends what the phase of its run calls for |
| `Consumption`, `Answers` | `OnlySuccessfulStartsConsume`, `AnswerStillPending` | `PendingInv`: while a run has a task nothing is pending on its thread, and while an answer resolves its interrupt stays pending |
| `ManagerImplementsThreads` | `Spec => ImplementsThreads` | step by step, from `SlotInv` and `PendingInv`: a start is dispatched, fails or is abandoned, and a callback runs, only for runs without a task, so the holder of no thread changes; the await that ends well finds no holder and the interrupt still waiting; the end of a task, which has its slot, is the thread's `Drop`, `End` or `Ask`, and asks for the assistant the thread is bound to |
| `Attribution` | `Spec => []NoInterleaving` | `LogInv`: only executed runs are in the log, and the executing run of a thread has its last entry |
| `LastRequest` | `Spec => []PendingIsLastRequest` | from the two above: whoever publishes while nothing is pending keeps it so, and the run that fills the map publishes the request in the same step |
| `Ring` | `Spec => []BufferIsRecent` | inductive with the types of events and ring |
| `Delivery` | `Spec => []InOrderAtMostOnce` | `StreamInv`: while a stream replays, what is left comes after what was yielded, and the cursor `replay` left is behind none of it; so when it goes live everything it yielded is at most its cursor, and live delivery only passes the cursor |
| `HubTyping` | `Spec => []TypeOK` | with `StreamInv`; a queue grows only when it is not full |
| `OnlyKnownGaps` | `Spec => []NoOtherGap` | `GapInv`: queues hold published events in order, and a stream's cursor is the one it asked for or a published event, so a new event it wants is queued or refused; a replayed cursor moves within what the ring holds, and a live one past the head of its queue only |
| `HubImplementsFeed` | `Spec => ImplementsFeed` | step by step: a delivery is the feed's delivery of that event, and by `GapInv` what it passes over was evicted or refused; all other steps of the hub publish, subscribe, end a feed or change nothing the feed has |
| `ProtocolTyping` | `ProtocolSpec => []ProtocolTypeOK` | with the types of the manager: every step of the composition is a step of the manager or a restart (`ManagerOrRestart`) |
| `SingleFlightInEveryLife` | `ProtocolSpec => []SingleFlight` | the manager's own inductive invariant, which a new manager satisfies |
| `ThreadsKept` | `ProtocolSpec => ThreadsInEveryLife` | `ManagerOrRestart`, and the steps of `ManagerImplementsThreads`; a new manager has every thread free |
| `MapAgreesWithSaver` | `ProtocolSpec => []PendingMatchesSaver` | who writes the checkpoints of a private thread has a task on it (`WritersFindNoMap`), and by `PendingInv` nothing is in the map of the thread then; map and saver are filled together, and a thread that is private now was so before (`PrivateBefore`), as calls are kept (`CallsKept`) |
| `AcknowledgedBindings` | `ProtocolSpec => []AcknowledgedBindingIsDurable` | rows are written by a creation, by a start that returns and by a restart only; a failed write withdraws the acknowledgement of its own thread alone |
| `ExecutingIsBound` | `ProtocolSpec => []BoundToWhatRuns` | `TasksBound`: it holds already when a resume takes the slot, since it resumes the row's assistant, and no other run of the thread is live to change the row |
| `AnswersAccepted` | `ProtocolSpec => []InterruptsStayAnswerable` | where the manager has a map, `PendingMatchesSaver` says it knows the interrupt; where it has none the row's assistant is enough; and by `SlotsAndRunsAgree` the slot of a thread without a live run and without an abandoned start is free |
| `SaverKeptWhileResolving` | `ProtocolSpec => SaverStillWhileResolving` | on a private thread a writer would be a second live run of the thread |
| `HistoryTyping` | `Spec => []TypeOK` (of `ThreadHistory`) | `SaverOk` and `ListOk`; every answer has the shape whatever the saver holds |
| `PagesAlwaysTile` | `Spec => []PagesTile` | a page below a cursor begins with the checkpoint just below it, and checkpoints are only added above |
| `NetEffects` | `Spec => []EntriesAreNetEffect` | two folds: over the writes of a checkpoint (`WriteFold`) the map keeps the value of the writes taken so far or breaks on a scalar before a list, and over the entries of a page (`EntryFold`) each entry is the map that was left when it was reached |
| `TranslatorTyping` | `Spec => []TypeOK` (of `MessagesTranslator`) | with `TranslatorInv` |
| `FramesAreAttributable`, `OneMessageOpen`, `BlocksAreBracketed` | `Spec => []FramesAttributable`, `[]OneMessageAtATime`, `[]BlocksBracketed` | `TranslatorInv`: every frame is permitted by the frames before it, and the emitters agree with the frames out |
| `OpenMessagesKeepText` | `Spec => []OpenMessagesComplete` | `TranslatorInv` counts the texts of a message while it is open |

`ProtocolInv` joins these: the manager's invariants, the types of store, saver
and handlers, `RequestsBound` (a handler that found its interrupt finds an
assistant in the row when it reads it again), the acknowledged bindings,
`TasksBound` and `PendingMatchesSaver`.  The proofs cover both stores, any number
of threads, interrupts, requests and restarts, where the run has two threads, one
interrupt, sqlite and one restart.

`SingleFlight` is not inductive: without the slots, a state in which a live run's
slot is free would allow a second start.  Likewise `InOrderAtMostOnce` needs the
relation between outbox and cursor, which is what makes the handoff correct.
The candidate invariants were checked with TLC before they were proved.

The properties of the translator speak of positions in the trace of frames, and
none is inductive.  `WellFormed` says instead that each frame is permitted by the
set of frames before it, so a longer trace stays well formed if its last frame
is permitted (`WellFormedAppend`); what that means for the positions is read off
once (`NoRepeat`, `InItsMessage`).  `Tracks` ties the emitters to the frames: a
message has started, a block is open, exactly when its frames are out, and at most
one message is unfinished.  One call of `feed` or `finish` sends many frames, in
loops over fragments, blocks and open messages; `Tracks` is kept by each frame
inside them (`Emitted`), with a parameter for the blocks of the message being
finished that have finished so far.

What a loop of the code computes is a fold in the models (`FoldLeft`, which the
community modules define by recursion over a set), and the theorems about it
are about loops of any length.  `FoldFacts` proves what is needed once, for an
operator that is a constant of the module: the fold exists and takes its steps
in order (`IteratesExists`, `FoldLast`), what each step keeps the fold keeps
(`FoldKeeps`), and a longer sequence adds one step (`FoldAppend`); a fold over
a set of indices is one over their identity (`FoldOfIndices`).  It rests on
induction over the subsets of an interval, stated in `Induction` by minimal
counterexample.  A proof module instantiates it with the model's own operator
(`OwnFold == INSTANCE FoldFacts WITH op <- AddOwn`).

Assumptions.  `NullAssumption` (the "none" values differ from the values they
stand beside), `HubAssumption` (sizes are naturals, queues hold at least one,
cursors are integers), `ProtocolAssumption` (again the "none" values),
`TranslatorAssumption` (the index of a tool call is a natural number or none).  TLC
evaluates them on the runs of the modules that declare them.

Only model-checked: liveness, which is out of the reach of the prover.  All other
properties of the passing runs are theorems.

## 6. Where code and documentation disagree

Each is a run that TLC refutes; the quotations are in `PROJECT.json`.

* `EveryRunReportsTerminal`: a run cancelled before its task's first step
  publishes no lifecycle event at all.
* `FailedStartsReleaseSlot`: a client whose metadata cannot be merged makes
  `start` raise `TypeError` after the factory's await, outside its `try`
  (`runner.py:148-149`; `router.py:222` passes the metadata on unvalidated).  The
  reservation stays: the thread refuses every start and answer, and `cancel` finds no
  task, until a restart.
* `OneGraphPerThread`: the client's `configurable.thread_id` wins over the thread's
  (`runner.py:142-145`), so two runs with slots of their own execute on the
  checkpoints of one thread, and what the manager's map says of a thread need not be what
  its saver holds.
* `ExactOnceHandoff`: events published after `subscribe`, evicted before
  `replay`, are in the queue and then skipped as duplicates.  It takes more than
  `replay_size` events in between.
* `InterleavingKeepsText`: when chunks of two messages alternate, the text of
  the first is dropped after the second began.
* `OnlyPendingInterruptsResume`: two handlers find the interrupt in the saver; one
  of them, or a fresh start, consumes it and its run completes; the other then
  meets a manager without a map for the thread, which trusts the caller, and a run is
  created that answers nothing.

Seen in the models and described here, not run: with `CallerCancels` set to
`TRUE`, `FailedStartsReleaseSlot` fails also because
`except Exception` does not see `CancelledError` (`runner.py:134`).  A run that asks for
input does not finish the message it was streaming (`runner.py:272-279`), the case
`EndedRunsCloseMessages` leaves out.  A page of history that does not reach the
oldest checkpoint starts from nothing (`state.py:112`), so the values of its
entries depend on `limit` and `before`, where `state.py:11-12` speaks of cumulative
values; `EntriesAreNetEffect` says what they are.  If `set_assistant` raises after the
run was started (`router.py:228`), the client gets an error for a run that executes:
the properties about acknowledged bindings leave that case out.  Usage on a chunk
that is not the last of its message finishes the message, and what follows is
dropped (`runner.py:262`).  The pending map is emptied when
the task is created, so a run that never executes consumes the interrupts
(`runner.py:15-17` says "only when the replacement run actually begins
executing"); `respond` accepts the key `"assistant_id"` when called directly; an
answer whose stored assistant is no longer registered fails in `_state_graph`,
outside the handlers of `input.respond`; a cancel that arrives while `start`
resolves finds no task and is lost; a client gone before the generator's first
step leaves its subscription behind.

## 7. Not modelled, and the plan

Not modelled: HTTP parsing, the shape of envelopes, the serialization of
messages and values, thread metadata, time (heartbeats), the registry of hubs
(its `drop` is never called, and `hub_for` only creates), ids, `lifespan`
(it publishes handles on the host app).  `wait()` and the getters change no state
of the manager.  The endpoints that only read are no actions.

Next, in this order:

1. `wait()` with the order of the loop's ready queue.
2. The composition of a run's events with the hub that carries them, with a
   client that reconnects after a restart with a cursor ahead of the thread.
