----------------------------- MODULE MCService -----------------------------
(***************************************************************************)
(* Instances of CSService for TLC.                                         *)
(***************************************************************************)
EXTENDS CSService

\* A server whose id has more than 8 bits, and the one that is connected to instead.
Far == {257}

Near == {1}

Everything == {"db", "stall", "connect", "hang"}

=============================================================================
