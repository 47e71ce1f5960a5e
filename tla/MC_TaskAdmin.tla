------------------------------ MODULE MC_TaskAdmin ------------------------------
(* Two of each; spans that overlap, adjoin and are empty. *)
EXTENDS TaskAdmin

MCSpan == {<<1, 3>>, <<2, 4>>, <<3, 4>>, <<4, 4>>}

=============================================================================
