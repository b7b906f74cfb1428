----------------------------- MODULE MCProtocol -----------------------------
(***************************************************************************)
(* Instances of Protocol for TLC.                                          *)
(***************************************************************************)
EXTENDS Protocol, TLC

(* Threads, runs, requests, assistants and interrupts are interchangeable: *)
(* no definition names one (Named is all threads or none of them), and     *)
(* they are only compared for equality.                                    *)
Symmetry ==
  Permutations(Threads) \cup Permutations(Runs) \cup Permutations(Requests)
    \cup Permutations(Assistants) \cup Permutations(Interrupts)
=============================================================================
