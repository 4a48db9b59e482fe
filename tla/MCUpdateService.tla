--------------------------- MODULE MCUpdateService ---------------------------
(* Finite instances of UpdateService and SupervisorLock for TLC, which share no state: *)
(* the initial state says which moves.  "service": the bundled build and two newer     *)
(* ones, and two staging directories (one named by the request file, one in the        *)
(* making).  "lock": three supervisors are started on one directory, one that left a   *)
(* lock behind and two that meet over it.                                              *)
EXTENDS UpdateService, SupervisorLock

CONSTANTS o1, o2, p1, p2, p3

TwoOps == {o1, o2}
ThreeSupervisors == {p1, p2, p3}

VARIABLE moves

checkedVars == <<moves, vars, lockVars>>

CheckedInit == moves \in {"service", "lock"} /\ ServiceInit /\ LockInit

(* Every process has come to an end: this is no deadlock. *)
AllEnded ==
    /\ moves = "lock" /\ \A p \in Supervisors : place[p] \in Finished \cup {"dead"}
    /\ UNCHANGED checkedVars

CheckedNext ==
    \/ moves = "service" /\ ServiceNext /\ UNCHANGED <<moves, lockVars>>
    \/ moves = "lock" /\ LockNext /\ UNCHANGED <<moves, vars>>
    \/ AllEnded

CheckedSpec == CheckedInit /\ [][CheckedNext]_checkedVars /\ ServiceFairness
=============================================================================
