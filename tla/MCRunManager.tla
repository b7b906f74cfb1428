---------------------------- MODULE MCRunManager ----------------------------
(***************************************************************************)
(* Instances of RunManager for TLC.                                        *)
(***************************************************************************)
EXTENDS RunManager, TLC

(* Runs and assistants are interchangeable: no definition names one, and   *)
(* they are only compared for equality.                                    *)
Symmetry == Permutations(Runs) \cup Permutations(Assistants)
=============================================================================
