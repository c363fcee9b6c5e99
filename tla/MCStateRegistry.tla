-------------------------- MODULE MCStateRegistry --------------------------
(***************************************************************************)
(* Instances of StateRegistry.                                             *)
(***************************************************************************)
EXTENDS StateRegistry, TLC

CONSTANTS v1, v2, p1, p2, c1

Plan(owner2, pid2, name2, wantsIp, readErrors) ==
    [owner |-> [v \in Vms |-> IF v = v1 THEN p1 ELSE owner2],
     pid |-> [p \in Procs |-> IF p = p1 THEN 1 ELSE pid2],
     name |-> [v \in Vms |-> IF v = v1 THEN "x" ELSE name2],
     wantsIp |-> wantsIp,
     readErrors |-> readErrors]

(* Two processes at once for one name, a process that gets the PID of another one,
   two VMs of one process, and reads that fail. *)
AllPlans ==
    {Plan(p2, 2, "x", {v1}, FALSE), Plan(p2, 1, "x", {v1, v2}, FALSE),
     Plan(p1, 2, "y", {v1, v2}, FALSE), Plan(p1, 2, "y", {v2}, TRUE)}
=============================================================================
