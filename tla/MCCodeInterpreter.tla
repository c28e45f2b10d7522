-------------------------- MODULE MCCodeInterpreter --------------------------
(***************************************************************************)
(* Small instances of CodeInterpreter for TLC.                             *)
(***************************************************************************)
EXTENDS CodeInterpreter, TLC

Symmetry == Permutations(Runs)
=============================================================================
