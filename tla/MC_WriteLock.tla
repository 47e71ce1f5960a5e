------------------------------ MODULE MC_WriteLock ------------------------------
(* Three windows, a lock that is old after two minutes. *)
EXTENDS WriteLock, TLC

WindowSymmetry == Permutations(Window)

=============================================================================
