--------------------------- MODULE MCThreadHistory ---------------------------
(***************************************************************************)
(* Instances of ThreadHistory for TLC.                                     *)
(***************************************************************************)
EXTENDS ThreadHistory

(* A limit the router refuses, pages of one and two entries, and one page  *)
(* for the whole thread.                                                   *)
MCLimits == {0, 1, 2, 10}
=============================================================================
