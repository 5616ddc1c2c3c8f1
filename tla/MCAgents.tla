------------------------------ MODULE MCAgents ------------------------------
(***************************************************************************)
(* An instance of Mq9Agents for TLC.                                       *)
(***************************************************************************)
EXTENDS Mq9Agents, TLC

RunSymmetry == Permutations(Runs)
=============================================================================
