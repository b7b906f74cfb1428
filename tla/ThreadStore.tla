---------------------------- MODULE ThreadStore ----------------------------
(***************************************************************************)
(* The thread store (threads.py): one row for each thread, with the        *)
(* assistant bound to it.  A call runs on the event loop, under the        *)
(* store's lock, and awaits nothing, so it is one step of its caller.      *)
(*                                                                         *)
(* SqliteThreadStore keeps one connection for the life of the process: it  *)
(* reads what it wrote, committed or not, and a commit writes everything   *)
(* written since the last one that succeeded.  MemoryThreadStore has no    *)
(* disk and no errors; it is the case where Durable is FALSE.              *)
(*                                                                         *)
(* Metadata and timestamps are left out: nothing depends on them.          *)
(***************************************************************************)
CONSTANTS
  Threads,        \* thread ids
  Assistants,     \* names of assistants
  NoThread,       \* no row under this id
  NoAssistant,    \* a row no assistant was bound to yet
  Durable         \* sqlite(path) rather than memory()

VARIABLES
  rows,           \* what get returns: the rows as the connection sees them
  disk            \* the rows that were committed

Row == Assistants \cup {NoAssistant, NoThread}

Typed == rows \in [Threads -> Row] /\ disk \in [Threads -> Row]

Empty == [t \in Threads |-> NoThread]

Open == rows = Empty /\ disk = Empty

Exists(t) == rows[t] # NoThread

(* The end of create and of set_assistant: the transaction is committed.   *)
Commit_Forgotten == disk' = disk
Commit == disk' = rows'

(* create: a row under an id nobody used, with no assistant.               *)
Create(t) ==
  /\ ~Exists(t)
  /\ rows' = [rows EXCEPT ![t] = NoAssistant]
  /\ Commit

SetAssistant(t, a) ==
  /\ rows' = [rows EXCEPT ![t] = a]
  /\ Commit

(* set_assistant raises: the statement failed and nothing changed, or the  *)
(* commit failed and the row stays in the open transaction.                *)
SetAssistantRaises(t, a) ==
  /\ Durable
  /\ rows' \in {rows, [rows EXCEPT ![t] = a]}
  /\ UNCHANGED disk

(* The process restarts: what was not committed is gone, and so is all of  *)
(* a memory store.                                                         *)
Reopen ==
  /\ rows' = IF Durable THEN disk ELSE Empty
  /\ disk' = rows'
=============================================================================
