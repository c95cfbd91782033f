----------------------------- MODULE MCCallback -----------------------------
(***************************************************************************)
(* Instances of CallbackQueue for TLC.                                     *)
(***************************************************************************)
EXTENDS CallbackQueue

AllFaults == {"encode", "send", "lost", "unreadable"}

=============================================================================
