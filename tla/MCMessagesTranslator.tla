------------------------ MODULE MCMessagesTranslator ------------------------
(***************************************************************************)
(* Instances of MessagesTranslator for TLC.                                *)
(***************************************************************************)
EXTENDS MessagesTranslator, TLC

Frag(i, a) == [index |-> i, args |-> a]
None == <<>>
(* No tool call; a call of index 0 and more of its arguments; two calls in *)
(* one chunk, the second without index.                                    *)
MCFragments == {None, <<Frag(0, TRUE)>>, <<Frag(1, FALSE), Frag(NoIndex, TRUE)>>}
MCNoFragments == {None}
Symmetry == Permutations(Named)
=============================================================================
