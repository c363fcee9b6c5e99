--------------------------- MODULE VmStateRegister ---------------------------
(***************************************************************************)
(* What src/src/state/manager.rs promises about one VM's state file, with  *)
(* the lock files, temporary files, retries and crashes left out: the file *)
(* is a register that its owner saves, that any process updates one field  *)
(* of at a time without reverting another's field, and that is removed     *)
(* once and stays removed.                                                 *)
(*                                                                         *)
(* A state is a function from processes to numbers: entry p counts the     *)
(* updates of process p that the file carries.  An update that starts from *)
(* a stale copy of the file would lower somebody else's entry.             *)
(***************************************************************************)
EXTENDS Naturals

CONSTANTS Procs,      \* the processes and tasks that use the state file
          NoState     \* the state file does not exist

VARIABLES reg,        \* the state the file holds, or NoState
          ownerUp,    \* the VM's owner runs and has not begun its teardown
          removed     \* the state file has been removed

regVars == <<reg, ownerUp, removed>>

(* The state a launch writes: no update has been applied to it. *)
Blank == [p \in Procs |-> 0]

RegInit == reg = NoState /\ ownerUp = TRUE /\ removed = FALSE

(* The owner writes its whole in-memory copy: only before its teardown. *)
RegSave == ownerUp /\ reg' = Blank /\ UNCHANGED <<ownerUp, removed>>

(* A locked read-modify-write of one field of a file that exists. *)
RegUpdate(p) ==
    /\ reg # NoState
    /\ reg' = [reg EXCEPT ![p] = @ + 1]
    /\ UNCHANGED <<ownerUp, removed>>

(* Teardown, or somebody who saw that the owner is dead, removes the file. *)
RegRemove == ~ownerUp /\ reg' = NoState /\ removed' = TRUE /\ UNCHANGED ownerUp

(* The owner begins its teardown, exits, or is killed. *)
RegOwnerDown == ownerUp' = FALSE /\ UNCHANGED <<reg, removed>>

RegNext == RegSave \/ (\E p \in Procs : RegUpdate(p)) \/ RegRemove \/ RegOwnerDown

RegSpec == RegInit /\ [][RegNext]_regVars
==============================================================================
