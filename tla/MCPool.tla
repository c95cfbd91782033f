------------------------------- MODULE MCPool -------------------------------
(***************************************************************************)
(* Instances of ConnPool for TLC.                                          *)
(***************************************************************************)
EXTENDS ConnPool, TLC

\* An entry that does not parse, a server to write to, and one to read from.
Writers == <<[name |-> "junk", fields |-> 1], [name |-> "w1", fields |-> 2]>>

Readers == <<[name |-> "r1", fields |-> 4]>>

Symmetry == Permutations(Thread) \cup Permutations(Conn)

=============================================================================
