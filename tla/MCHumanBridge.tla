---------------------------- MODULE MCHumanBridge ----------------------------
(***************************************************************************)
(* Small instances of HumanBridge for TLC.                                 *)
(***************************************************************************)
EXTENDS HumanBridge, TLC

Symmetry == Permutations(Conns) \cup Permutations(Messages)
=============================================================================
