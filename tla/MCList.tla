------------------------------- MODULE MCList -------------------------------
(***************************************************************************)
(* Instances of AgentList for TLC.                                         *)
(***************************************************************************)
EXTENDS AgentList, TLC

Accounts == Permutations(Uin)

=============================================================================
