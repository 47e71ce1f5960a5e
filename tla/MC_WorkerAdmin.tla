----------------------------- MODULE MC_WorkerAdmin -----------------------------
(* Two people, who come and go, and three ids. *)
EXTENDS WorkerAdmin, TLC

People == Permutations(Person)

=============================================================================
