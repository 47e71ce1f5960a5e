---------------------------- MODULE MC_UpdateService ----------------------------
(* 1.9.0, and a 2.0.0 that has a pre-release; a program file besides *)
(* sched.exe comes with the update.                                  *)
EXTENDS UpdateService

CONSTANTS v190, v200rc, v200

MCNumber ==
    [v \in Version |->
        CASE v = v190   -> [major |-> 1, minor |-> 9, patch |-> 0, pre |-> 0]
          [] v = v200rc -> [major |-> 2, minor |-> 0, patch |-> 0, pre |-> 1]
          [] v = v200   -> [major |-> 2, minor |-> 0, patch |-> 0, pre |-> 0]]

=============================================================================
