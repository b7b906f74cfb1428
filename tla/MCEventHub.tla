----------------------------- MODULE MCEventHub -----------------------------
(***************************************************************************)
(* Instances of EventHub for TLC.                                          *)
(***************************************************************************)
EXTENDS EventHub, TLC

Root == <<>>
Sub == <<"sub">>

(* A message of a subgraph and an input request of the root: every filter  *)
(* below but All tells them apart, by namespace or by channel.             *)
SubMessage == [method |-> "messages", namespace |-> Sub]
Request == [method |-> "input.requested", namespace |-> Root]
MCContents == {SubMessage, Request}
MCOneContent == {SubMessage}

All == [channels |-> {}, namespaces |-> {}]
RootOnly == [channels |-> {}, namespaces |-> {Root}]
SubInput == [channels |-> {"input", "messages"}, namespaces |-> {Sub}]
InputOnly == [channels |-> {"input"}, namespaces |-> {}]
MCFilters == {All, RootOnly, SubInput, InputOnly}
MCNoFilter == {All}

(* A negative cursor, none, one of the past, one ahead of the thread.      *)
MCSinces == {-1, 0, 1, 3}
MCNoSince == {0}
=============================================================================
