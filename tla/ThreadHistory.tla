---------------------------- MODULE ThreadHistory ----------------------------
(***************************************************************************)
(* The history endpoint (router.py, state.py): a client pages through the  *)
(* checkpoints of a thread, newest first, while a run adds new ones.  The  *)
(* values of an entry are not stored: read_thread_history rebuilds them    *)
(* from the writes kept with the checkpoints of the page.                  *)
(*                                                                         *)
(* The saver is external: it numbers the checkpoints, adds the writes of a *)
(* superstep to the newest one, and lists those older than a cursor, at    *)
(* one moment.  A value is a list of items or a scalar; what an item is    *)
(* made of, and metadata, are left out.  So are the answers that give the  *)
(* client nothing and change nothing: the 404s for a thread that does not  *)
(* exist or whose assistant is not registered, and the ValueError for a    *)
(* graph without a checkpointer.                                           *)
(***************************************************************************)
EXTENDS Integers, Sequences, SequencesExt

CONSTANTS
  Channels,        \* channels of the graph's state
  Reserved,        \* __interrupt__, __error__, __resume__ and branch: channels
  Limits,          \* page sizes a client asks for
  MaxCheckpoints,  \* bound on the checkpoints of the thread
  MaxWrites        \* bound on the writes of the thread

ASSUME HistoryAssumption ==
  /\ Channels \cap Reserved = {}
  /\ Limits \subseteq Int
  /\ MaxCheckpoints \in Nat /\ MaxWrites \in Nat

VARIABLES
  checkpoints,     \* the writes of each checkpoint; its id is its index
  listed           \* the checkpoint ids the client has, in the order it got them

vars == <<checkpoints, listed>>

Kinds == {"list", "scalar"}
(* What a channel holds: an item is named by the checkpoint and the place  *)
(* of the write that brought it.                                           *)
Absent == [kind |-> "absent", items |-> <<>>]
Nothing == [c \in Channels |-> Absent]
Broken == [raised |-> [kind |-> "raised", items |-> <<>>]]

Error(status) == [status |-> status, entries |-> <<>>]

Init == checkpoints = <<>> /\ listed = <<>>

-----------------------------------------------------------------------------
(* The saver                                                                *)

NewCheckpoint ==
  /\ Len(checkpoints) < MaxCheckpoints
  /\ checkpoints' = Append(checkpoints, <<>>)
  /\ UNCHANGED listed

WriteTo(c, k) ==
  LET n == Len(checkpoints) IN
  /\ n > 0
  /\ Len(FlattenSeq(checkpoints)) < MaxWrites
  /\ checkpoints' = [checkpoints EXCEPT ![n] =
       Append(@, [channel |-> c, kind |-> k, items |-> <<<<n, Len(@) + 1>>>>])]
  /\ UNCHANGED listed

(* alist: the newest limit checkpoints older than the cursor, newest first; *)
(* cursor 0 is no cursor.                                                  *)
Alist(limit, before) ==
  LET newest == IF before = 0 THEN Len(checkpoints) ELSE before - 1
      count == IF newest < limit THEN newest ELSE limit
  IN [i \in 1 .. count |-> newest + 1 - i]

-----------------------------------------------------------------------------
(* read_thread_history                                                      *)

(* One pending write on top of the values so far.  A list extends what the *)
(* channel holds, which raises when that is no list.                       *)
Accumulate_Overwrite(values, w) ==
  IF w.channel \in Reserved THEN values
  ELSE [values EXCEPT ![w.channel] = [kind |-> w.kind, items |-> w.items]]
Accumulate(values, w) ==
  IF values = Broken \/ w.channel \in Reserved THEN values
  ELSE LET held == values[w.channel] IN
       CASE w.kind = "scalar" ->
              [values EXCEPT ![w.channel] = [kind |-> "scalar", items |-> w.items]]
         [] w.kind = "list" /\ held.kind # "scalar" ->
              [values EXCEPT ![w.channel] = [kind |-> "list", items |-> held.items \o w.items]]
         [] OTHER -> Broken

(* The entries, newest first, of the checkpoints ids: the values run from  *)
(* the oldest of them, each entry keeps a copy.                            *)
Reconstruct(ids) ==
  Reverse(FoldLeft(LAMBDA done, n :
             Append(done, [id |-> n,
                           values |-> FoldLeft(Accumulate,
                             IF done = <<>> THEN Nothing ELSE done[Len(done)].values,
                             checkpoints[n])]),
           <<>>, Reverse(ids)))

(* A page: what the saver lists, materialized.                             *)
ReadThreadHistory(limit, before) == Reconstruct(Alist(limit, before))

-----------------------------------------------------------------------------
(* The endpoints                                                            *)

(* The cursor the router passes on: a plain checkpoint id, or the one in a *)
(* Config; anything else is no cursor.                                     *)
Cursor_IdOnly(before) == IF before.form = "id" THEN before.id ELSE 0
Cursor_Skips(before) ==
  IF before.form = "none" THEN 0 ELSE IF before.id > 1 THEN before.id - 1 ELSE 1
Cursor(before) == IF before.form \in {"id", "config"} THEN before.id ELSE 0

History_NeverFails(limit, before) ==
  IF limit < 1 THEN Error(422)
  ELSE [status |-> 200, entries |-> ReadThreadHistory(limit, Cursor(before))]
History(limit, before) ==
  IF limit < 1 THEN Error(422)
  ELSE LET entries == ReadThreadHistory(limit, Cursor(before))
       IN IF \E i \in DOMAIN entries : entries[i].values = Broken THEN Error(500)
          ELSE [status |-> 200, entries |-> entries]

-----------------------------------------------------------------------------
(* The client: the first page has no cursor, each further page the id of   *)
(* the last entry it has, in either form.                                  *)
Forms == {"id", "config"}
Before(form) ==
  IF listed = <<>> THEN [form |-> "none", id |-> 0]
  ELSE [form |-> form, id |-> listed[Len(listed)]]

(* One request, by GET or POST, and its answer.                            *)
Fetch(limit, form) ==
  LET entries == History(limit, Before(form)).entries IN
  /\ listed' = listed \o [i \in DOMAIN entries |-> entries[i].id]
  /\ UNCHANGED checkpoints

Next ==
  \/ NewCheckpoint
  \/ \E c \in Channels \cup Reserved, k \in Kinds : WriteTo(c, k)
  \/ \E limit \in Limits, form \in Forms : Fetch(limit, form)

Spec == Init /\ [][Next]_vars

(* The client goes on to the next page for as long as it gets one.         *)
PagingFairness ==
  WF_vars(\E limit \in Limits, form \in Forms : Fetch(limit, form))
FairSpec == Spec /\ PagingFairness

-----------------------------------------------------------------------------
(* Properties                                                               *)

(* The pages that can be asked for.                                        *)
Pages(P(_)) ==
  \A limit \in Limits, id \in 0 .. Len(checkpoints) :
    P(History(limit, [form |-> "id", id |-> id]))

(* The shape of the writes, of the client's list and of every answer: an   *)
(* entry has a value for each channel of the state, an error no entries.   *)
TypeOK ==
  /\ \A n \in DOMAIN checkpoints : \A i \in DOMAIN checkpoints[n] :
       LET w == checkpoints[n][i]
       IN w.channel \in Channels \cup Reserved /\ w.kind \in Kinds /\ w.items = <<<<n, i>>>>
  /\ listed \in Seq(1 .. Len(checkpoints))
  /\ Pages(LAMBDA answer :
       /\ answer.status \in {200, 422, 500}
       /\ answer.status # 200 => answer.entries = <<>>
       /\ \A i \in DOMAIN answer.entries : DOMAIN answer.entries[i].values = Channels)

(* Page after page, with any page sizes and either form of cursor, while   *)
(* checkpoints are added: the client gets every checkpoint below the first *)
(* it got, newest first, none twice.                                       *)
PagesTile ==
  \A i \in 1 .. Len(listed) - 1 : listed[i + 1] = listed[i] - 1

(* The writes to channel c in the checkpoints from the first to the last,  *)
(* by checkpoint and place in it, and their order.                         *)
WritesTo(c, first, last) ==
  {p \in UNION {{n} \X DOMAIN checkpoints[n] : n \in first .. last} :
     checkpoints[p[1]][p[2]].channel = c}
Earlier(p, q) == p[1] < q[1] \/ (p[1] = q[1] /\ p[2] < q[2])
KindAt(p) == checkpoints[p[1]][p[2]].kind

(* The value these writes leave: the latest of them if that is a scalar,   *)
(* else the items of all, in their order.                                  *)
IsValueOf(value, writes) ==
  \/ writes = {} /\ value = Absent
  \/ \E p \in writes :
       /\ \A q \in writes : q = p \/ Earlier(q, p)
       /\ \/ KindAt(p) = "scalar" /\ value = [kind |-> "scalar", items |-> <<p>>]
          \/ /\ KindAt(p) = "list" /\ value = [kind |-> "list", items |-> value.items]
             /\ Range(value.items) = writes
             /\ \A i, j \in DOMAIN value.items :
                  i < j => Earlier(value.items[i], value.items[j])

(* A list is written to a channel that holds a scalar.                     *)
Mixed(writes) ==
  \E p, q \in writes : Earlier(p, q) /\ KindAt(p) = "scalar" /\ KindAt(q) = "list"

(* A page is, for each of its checkpoints, the net effect of the writes    *)
(* from the oldest checkpoint of the page to it, unmixed with those of     *)
(* other channels and of newer entries; and it fails, as a whole, only     *)
(* when the thread has a channel that takes a list after a scalar.         *)
NetEffect(answer) ==
  LET es == answer.entries IN
  /\ \A i \in DOMAIN es, c \in Channels :
       LET ws == WritesTo(c, es[Len(es)].id, es[i].id)
       IN ~Mixed(ws) /\ IsValueOf(es[i].values[c], ws)
  /\ answer.status = 500 => \E c \in Channels : Mixed(WritesTo(c, 1, Len(checkpoints)))
EntriesAreNetEffect == Pages(NetEffect)

(* A client that goes on gets to the oldest checkpoint, unless a page      *)
(* fails: checkpoints added meanwhile do not keep it busy.                 *)
ReachesOldest ==
  (checkpoints # <<>>) ~>
     \/ listed # <<>> /\ listed[Len(listed)] = 1
     \/ \E limit \in Limits, form \in Forms : History(limit, Before(form)).status = 500
=============================================================================
