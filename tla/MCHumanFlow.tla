---------------------------- MODULE MCHumanFlow ----------------------------
(***************************************************************************)
(* Small instances of HumanFlow for TLC.                                   *)
(***************************************************************************)
EXTENDS HumanFlow, TLC

CONSTANTS tool, prompt

MCPrompt == tool :> prompt
=============================================================================
