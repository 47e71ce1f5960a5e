------------------------------ MODULE MC_DataDir ------------------------------
(* Two windows, two workers, three days of two months; prune keeps today. *)
EXTENDS DataDir, TLC

MCAbsence == {[worker |-> 1, from |-> 1, to |-> 2], [worker |-> 2, from |-> 2, to |-> 2]}

MCMonthOf == <<1, 2, 2>>

WindowSymmetry == Permutations(Window)

=============================================================================
