------------------------------ MODULE MCQueue ------------------------------
(***************************************************************************)
(* Instances of CSQueue for TLC: the workloads and the symmetry its runs   *)
(* use.                                                                    *)
(***************************************************************************)
EXTENDS CSQueue, TLC

MCUin == Staff \cup Customers

\* Every request and the death of the process, but for scores, which touch
\* nothing the invariants read.
AllButScore ==
  {"presence", "absence", "accept", "refuse", "redirect", "offline",
   "join", "depart", "end", "crash"}

\* Agents that keep the conversations they accepted.
NoRedirect ==
  {"presence", "absence", "accept", "refuse", "offline", "join", "score", "end"}

Accounts == Permutations(Staff) \cup Permutations(Customers)

=============================================================================
