----------------------------- MODULE StateFile -----------------------------
(***************************************************************************)
(* The files of ONE VM in the state directory, and the processes that use  *)
(* them: src/src/state/manager.rs.                                         *)
(*                                                                         *)
(*   <vm_id>.json       the state            variable state                *)
(*   <vm_id>.json.tmp   the next state       variable tmp                  *)
(*   <vm_id>.json.lock  flock coordination   variable lock: the inode the  *)
(*                                           path names                    *)
(*                                                                         *)
(* The lock file is unlinked when the state is deleted, so a process may   *)
(* hold a flock on an inode the path no longer names; every locker stats   *)
(* the path after its flock and starts over when the inode differs.  One   *)
(* action is one system call of the code.  An inode number is reused once  *)
(* no descriptor and no path refers to it, so inodes come from a finite    *)
(* set.                                                                    *)
(*                                                                         *)
(* A process slot is one fcvm process (or one task of the VM's owner); a   *)
(* killed client's slot is used by the next client.  Owner is the process  *)
(* that runs the VM and that the state's pid names; Monitors are the       *)
(* health-monitor tasks inside it.                                         *)
(***************************************************************************)
EXTENDS Integers

CONSTANTS Procs, Owner, Monitors,
          Inodes, NoInode,
          NoState, Torn,      \* no file; a file cut short by a crash or an error
          MaxUpdates,         \* bound: updates of one process the file may carry
          BudgetMayExpire     \* may a monitor miss HEALTH_MONITOR_STOP_BUDGET?

Clients == Procs \ (Monitors \union {Owner})
States == [Procs -> Nat]

ASSUME ProcsAssumption ==
    /\ Owner \in Procs
    /\ Monitors \subseteq Procs \ {Owner}
    /\ MaxUpdates \in Nat
    /\ BudgetMayExpire \in BOOLEAN
ASSUME ValuesAssumption ==
    /\ NoInode \notin Inodes
    /\ NoState \notin States
    /\ Torn \notin States \union {NoState}

VARIABLES state, tmp, lock,
          pc,        \* the next system call of each process
          op,        \* the StateManager operation it is in
          fd,        \* the inode of the lock file it has open
          held,      \* the flock it holds on that inode
          buf,       \* the state it read, or is about to write
          owner,     \* "up"; "stopping" and "closing" in its teardown; "zombie"; "gone"
          orphan,    \* blocking-pool call of an aborted task, still to run
          removed    \* history: the state file has been removed

vars == <<state, tmp, lock, pc, op, fd, held, buf, owner, orphan, removed>>

Ops == {"none", "save_state", "update_state", "delete_state",
        "cleanup_stale_state", "with_locked_state"}
PCs == {"idle", "open", "flock", "check", "read", "inspect", "write", "rename",
        "rm_state", "rm_tmp", "rm_lock", "unlock"}
Orphans == [call : {"none", "write", "rename"}, buf : States \union {NoState, Torn}]
NoOrphan == [call |-> "none", buf |-> NoState]

(* The steps that touch the state or the temporary file, or retire the lock. *)
Payload == {"read", "inspect", "write", "rename", "rm_state", "rm_tmp", "rm_lock"}

TypeOK ==
    /\ state \in States \union {NoState, Torn}
    /\ tmp \in States \union {NoState, Torn}
    /\ lock \in Inodes \union {NoInode}
    /\ pc \in [Procs -> PCs]
    /\ op \in [Procs -> Ops]
    /\ fd \in [Procs -> Inodes \union {NoInode}]
    /\ held \in [Procs -> {"none", "shared", "exclusive"}]
    /\ buf \in [Procs -> States \union {NoState, Torn}]
    /\ owner \in {"up", "stopping", "closing", "zombie", "gone"}
    /\ orphan \in Orphans
    /\ removed \in BOOLEAN

Init ==
    /\ state = NoState /\ tmp = NoState /\ lock = NoInode
    /\ pc = [p \in Procs |-> "idle"] /\ op = [p \in Procs |-> "none"]
    /\ fd = [p \in Procs |-> NoInode] /\ held = [p \in Procs |-> "none"]
    /\ buf = [p \in Procs |-> NoState]
    /\ owner = "up" /\ orphan = NoOrphan /\ removed = FALSE

-----------------------------------------------------------------------------
(* Entering an operation: its caller's condition and its early returns.    *)

Goto(p, label) == pc' = [pc EXCEPT ![p] = label]

Begin(p, o) ==
    /\ pc[p] = "idle"
    /\ Goto(p, "open")
    /\ op' = [op EXCEPT ![p] = o]
    /\ UNCHANGED <<state, tmp, lock, fd, held, buf, orphan, removed>>

(* claim_name, allocate_loopback_ip and save_vm_state_with_network: the owner
   writes its whole copy while it sets the VM up. *)
save_state(p) == p = Owner /\ owner = "up" /\ Begin(p, "save_state") /\ UNCHANGED owner

(* The fast path returns when the state file does not exist. *)
update_state(p) ==
    /\ state # NoState
    /\ state # Torn => state[p] < MaxUpdates
    /\ p \in Clients \/ owner = "up"
    /\ Begin(p, "update_state")
    /\ UNCHANGED owner

(* The owner's teardown begins: the monitors are told to stop. *)
cleanup_vm ==
    /\ owner = "up" /\ pc[Owner] = "idle"
    /\ owner' = "stopping"
    /\ UNCHANGED <<state, tmp, lock, pc, op, fd, held, buf, orphan, removed>>

(* The teardown deletes the state after its monitors have stopped; anybody else
   deletes a listed state whose owner is not live (owner_is_live: nor a zombie). *)
delete_state(p) ==
    /\ \/ /\ p = Owner /\ owner = "stopping"
          /\ \A m \in Monitors : pc[m] = "idle"
          /\ owner' = "closing"
       \/ /\ p \in Clients /\ owner \in {"zombie", "gone"} /\ state # NoState
          /\ UNCHANGED owner
    /\ Begin(p, "delete_state")

(* A sweep visits the VM when its scan shows a state or a temporary file. *)
cleanup_stale_state(p) ==
    /\ p \in Clients
    /\ state # NoState \/ tmp # NoState
    /\ Begin(p, "cleanup_stale_state")
    /\ UNCHANGED owner

with_locked_state(p) == p \in Clients /\ Begin(p, "with_locked_state") /\ UNCHANGED owner

-----------------------------------------------------------------------------
(* The lock protocol.                                                      *)

(* Back to idle without a flock: the descriptor, if any, is closed. *)
Return(p) ==
    /\ Goto(p, "idle")
    /\ op' = [op EXCEPT ![p] = "none"]
    /\ fd' = [fd EXCEPT ![p] = NoInode]
    /\ held' = [held EXCEPT ![p] = "none"]
    /\ buf' = [buf EXCEPT ![p] = NoState]

Unreferenced == Inodes \ ({lock} \union {fd[q] : q \in Procs})

(* O_CREAT: the inode at the path, or a new one published there, or an error. *)
open_lock_file(p) ==
    /\ pc[p] = "open" /\ op[p] # "with_locked_state"
    /\ \/ /\ IF lock # NoInode THEN lock' = lock ELSE lock' \in Unreferenced
          /\ fd' = [fd EXCEPT ![p] = lock']
          /\ Goto(p, "flock")
          /\ UNCHANGED <<op, held, buf>>
       \/ Return(p) /\ UNCHANGED lock
    /\ UNCHANGED <<state, tmp, owner, orphan, removed>>

(* with_locked_state opens without O_CREAT: no lock file means no state; an
   error also ends it. *)
lock_existing_state_file(p) ==
    /\ pc[p] = "open" /\ op[p] = "with_locked_state"
    /\ \/ Return(p)
       \/ /\ lock # NoInode
          /\ fd' = [fd EXCEPT ![p] = lock] /\ Goto(p, "flock") /\ UNCHANGED <<op, held, buf>>
    /\ UNCHANGED <<state, tmp, lock, owner, orphan, removed>>

(* Mutant: an update reads, and so locks, as with_locked_state does. *)
Mode_SharedUpdate(p) ==
    IF op[p] \in {"update_state", "with_locked_state"} THEN "shared" ELSE "exclusive"

(* LockShared for the inspection, LockExclusive for everything else. *)
Mode(p) == IF op[p] = "with_locked_state" THEN "shared" ELSE "exclusive"

Grantable(p) ==
    \A q \in Procs \ {p} :
        fd[q] = fd[p] => held[q] = "none" \/ (held[q] = "shared" /\ Mode(p) = "shared")

(* flock on the opened inode; LOCK_NB for the sweep, which skips the VM. *)
Flock(p) ==
    /\ pc[p] = "flock"
    /\ \/ /\ Grantable(p)
          /\ held' = [held EXCEPT ![p] = Mode(p)]
          /\ Goto(p, "check")
          /\ UNCHANGED <<op, fd, buf>>
       \/ ~Grantable(p) /\ op[p] = "cleanup_stale_state" /\ Return(p)
    /\ UNCHANGED <<state, tmp, lock, owner, orphan, removed>>

(* Mutant: delete_state unlinks the lock file first. *)
FirstStep_LockFirst(p) ==
    CASE op[p] = "save_state" -> "write"
      [] op[p] = "delete_state" -> "rm_lock"
      [] OTHER -> "read"

(* Where each operation goes once it holds the published inode. *)
FirstStep(p) ==
    CASE op[p] = "save_state" -> "write"
      [] op[p] = "delete_state" -> "rm_state"
      [] op[p] \in {"update_state", "cleanup_stale_state", "with_locked_state"} -> "read"
      [] OTHER -> "idle"

(* Mutant: the flock alone is enough, the inode is not compared. *)
CheckInode_Trusting(p) ==
    /\ pc[p] = "check"
    /\ Goto(p, FirstStep(p))
    /\ buf' = [buf EXCEPT ![p] = IF op[p] = "save_state" THEN [q \in Procs |-> 0] ELSE @]
    /\ UNCHANGED <<op, fd, held, state, tmp, lock, owner, orphan, removed>>

(* Mutant: a mismatch takes the same, retired, inode again. *)
CheckInode_SameFile(p) ==
    /\ pc[p] = "check"
    /\ \/ /\ lock = fd[p]
          /\ Goto(p, FirstStep(p))
          /\ buf' = [buf EXCEPT ![p] = IF op[p] = "save_state" THEN [q \in Procs |-> 0] ELSE @]
          /\ UNCHANGED held
       \/ /\ lock # fd[p]
          /\ Goto(p, "flock")
          /\ held' = [held EXCEPT ![p] = "none"]
          /\ UNCHANGED buf
    /\ UNCHANGED <<op, fd, state, tmp, lock, owner, orphan, removed>>

(* Compare the held inode with the path's: on a mismatch drop the guard and
   open again.  A reader whose path is gone returns None, and a stat that
   fails is an error. *)
CheckInode(p) ==
    /\ pc[p] = "check"
    /\ \/ /\ lock = fd[p]
          /\ Goto(p, FirstStep(p))
          /\ buf' = [buf EXCEPT ![p] = IF op[p] = "save_state" THEN [q \in Procs |-> 0] ELSE @]
          /\ UNCHANGED <<op, fd, held>>
       \/ /\ lock # fd[p]
          /\ op[p] # "with_locked_state" \/ lock # NoInode
          /\ Goto(p, "open")
          /\ fd' = [fd EXCEPT ![p] = NoInode]
          /\ held' = [held EXCEPT ![p] = "none"]
          /\ UNCHANGED <<op, buf>>
       \/ Return(p)
    /\ UNCHANGED <<state, tmp, lock, owner, orphan, removed>>

-----------------------------------------------------------------------------
(* The payload, under the validated flock.                                 *)

Updated(p, s) == [s EXCEPT ![p] = @ + 1]

(* cleanup_stale_state: no state (the temporary file is an orphan), or the
   recorded process is gone.  A zombie still has its /proc entry. *)
Stale == state = NoState \/ owner = "gone"

(* Mutant: an update of a missing state starts from a default one. *)
ReadState_Default(p) ==
    /\ pc[p] = "read"
    /\ CASE op[p] = "update_state" ->
              /\ buf' = [buf EXCEPT ![p] = Updated(p, IF state = NoState THEN [q \in Procs |-> 0]
                                                      ELSE state)]
              /\ Goto(p, "write")
         [] op[p] = "cleanup_stale_state" -> buf' = buf /\ Goto(p, IF Stale THEN "rm_state" ELSE "unlock")
         [] OTHER -> buf' = buf /\ Goto(p, "unlock")
    /\ UNCHANGED <<state, tmp, lock, op, fd, held, owner, orphan, removed>>

(* Reading the state: an update computes its successor, or retires the lock of
   a VM deleted meanwhile; a sweep decides; with_locked_state inspects. A state
   that cannot be read, or does not parse, ends the operation. *)
ReadState(p) ==
    /\ pc[p] = "read"
    /\ \/ /\ op[p] = "update_state" /\ state \in States
          /\ buf' = [buf EXCEPT ![p] = Updated(p, state)] /\ Goto(p, "write")
       \/ /\ op[p] = "update_state" /\ state = NoState
          /\ buf' = buf /\ Goto(p, "rm_tmp")
       \/ /\ op[p] = "cleanup_stale_state" /\ state # Torn /\ Stale
          /\ buf' = buf /\ Goto(p, "rm_state")
       \/ /\ op[p] = "with_locked_state" /\ state \in States
          /\ buf' = [buf EXCEPT ![p] = state] /\ Goto(p, "inspect")
       \/ buf' = buf /\ Goto(p, "unlock")
    /\ UNCHANGED <<state, tmp, lock, op, fd, held, owner, orphan, removed>>

(* The caller's decision, made from the state read, still under the lock. *)
Inspect(p) ==
    /\ pc[p] = "inspect"
    /\ Goto(p, "unlock")
    /\ UNCHANGED <<state, tmp, lock, op, fd, held, buf, owner, orphan, removed>>

(* fs::write of the temporary file and its chmod: whole, or an error that
   leaves what it had, a prefix or all of it, and ends the operation. *)
WriteTemp(p) ==
    /\ pc[p] = "write"
    /\ \/ tmp' = buf[p] /\ Goto(p, "rename")
       \/ tmp' \in {tmp, Torn, buf[p]} /\ Goto(p, "unlock")
    /\ UNCHANGED <<state, lock, op, fd, held, buf, owner, orphan, removed>>

(* rename(2) publishes whatever the temporary file holds, or fails. *)
RenameTemp(p) ==
    /\ pc[p] = "rename"
    /\ \/ tmp # NoState /\ state' = tmp /\ tmp' = NoState
       \/ UNCHANGED <<state, tmp>>
    /\ Goto(p, "unlock")
    /\ UNCHANGED <<lock, op, fd, held, buf, owner, orphan, removed>>

(* The three unlinks of delete_state and of a sweep, in this order; an update
   that found no state makes the last two.  One that fails ends the operation. *)
RemoveState(p) ==
    /\ pc[p] = "rm_state"
    /\ \/ state' = NoState /\ removed' = (removed \/ state # NoState) /\ Goto(p, "rm_tmp")
       \/ UNCHANGED <<state, removed>> /\ Goto(p, "unlock")
    /\ UNCHANGED <<tmp, lock, op, fd, held, buf, owner, orphan>>

RemoveTemp(p) ==
    /\ pc[p] = "rm_tmp"
    /\ \/ tmp' = NoState /\ Goto(p, "rm_lock")
       \/ tmp' = tmp /\ Goto(p, "unlock")
    /\ UNCHANGED <<state, lock, op, fd, held, buf, owner, orphan, removed>>

(* The lock is retired while it is still held. *)
RemoveLock(p) ==
    /\ pc[p] = "rm_lock"
    /\ lock' \in {NoInode, lock}
    /\ Goto(p, "unlock")
    /\ UNCHANGED <<state, tmp, op, fd, held, buf, owner, orphan, removed>>

Unlock(p) ==
    /\ pc[p] = "unlock"
    /\ Return(p)
    /\ UNCHANGED <<state, tmp, lock, owner, orphan, removed>>

-----------------------------------------------------------------------------
(* Kills, and the abort of a monitor.                                      *)

(* SIGKILL of the processes in K: the kernel releases their flocks; a write in
   progress, also one on the owner's blocking pool, leaves a prefix. *)
Kill(K) ==
    /\ pc' = [p \in Procs |-> IF p \in K THEN "idle" ELSE pc[p]]
    /\ op' = [p \in Procs |-> IF p \in K THEN "none" ELSE op[p]]
    /\ fd' = [p \in Procs |-> IF p \in K THEN NoInode ELSE fd[p]]
    /\ held' = [p \in Procs |-> IF p \in K THEN "none" ELSE held[p]]
    /\ buf' = [p \in Procs |-> IF p \in K THEN NoState ELSE buf[p]]
    /\ \/ tmp' = tmp
       \/ (\E p \in K : pc[p] = "write") /\ tmp' = Torn
       \/ Owner \in K /\ orphan.call = "write" /\ tmp' = Torn
    /\ UNCHANGED <<state, lock, removed>>

KillClient(p) == p \in Clients /\ pc[p] # "idle" /\ Kill({p}) /\ UNCHANGED <<owner, orphan>>

(* The owner exits or is killed, with its tasks and its blocking pool. *)
KillOwner ==
    /\ owner \in {"up", "stopping", "closing"}
    /\ Kill({Owner} \union Monitors)
    /\ owner' = "zombie"
    /\ orphan' = NoOrphan

ReapOwner ==
    /\ owner = "zombie"
    /\ owner' = "gone"
    /\ UNCHANGED <<state, tmp, lock, pc, op, fd, held, buf, orphan, removed>>

(* stop_health_monitor: a monitor that misses its budget is aborted at an await.
   Its future is dropped, so its flock is released, but the tokio::fs call it
   awaits stays queued on the blocking pool; between its write and its rename it
   may still await set_permissions, which changes nothing here. *)
stop_health_monitor(m) ==
    /\ BudgetMayExpire
    /\ owner = "stopping"
    /\ pc[m] \in {"read", "write", "rename"} /\ orphan.call = "none"
    /\ \/ pc[m] # "write" /\ orphan' = orphan
       \/ pc[m] # "read" /\ orphan' = [call |-> pc[m], buf |-> buf[m]]
    /\ Return(m)
    /\ UNCHANGED <<state, tmp, lock, owner, removed>>

OrphanCall ==
    /\ orphan.call # "none"
    /\ orphan' = NoOrphan
    /\ \/ orphan.call = "write" /\ tmp' \in {orphan.buf, tmp, Torn} /\ UNCHANGED state
       \/ orphan.call = "rename" /\ tmp = NoState /\ UNCHANGED <<state, tmp>>
       \/ orphan.call = "rename" /\ tmp # NoState /\ state' = tmp /\ tmp' = NoState
    /\ UNCHANGED <<lock, pc, op, fd, held, buf, owner, removed>>

-----------------------------------------------------------------------------
Start(p) ==
    \/ save_state(p) \/ update_state(p) \/ delete_state(p)
    \/ cleanup_stale_state(p) \/ with_locked_state(p)

(* The system calls of an operation in progress. *)
Step(p) ==
    \/ open_lock_file(p) \/ lock_existing_state_file(p) \/ Flock(p) \/ CheckInode(p)
    \/ ReadState(p) \/ Inspect(p) \/ WriteTemp(p) \/ RenameTemp(p)
    \/ RemoveState(p) \/ RemoveTemp(p) \/ RemoveLock(p) \/ Unlock(p)

Next ==
    \/ \E p \in Procs : Start(p) \/ Step(p) \/ KillClient(p)
    \/ \E m \in Monitors : stop_health_monitor(m)
    \/ cleanup_vm \/ KillOwner \/ ReapOwner \/ OrphanCall

Spec == Init /\ [][Next]_vars

(* A process that runs makes its next call; a flock waiter is served, in the
   kernel's queue order, if the lock is free again and again. *)
Fairness == \A p \in Procs : WF_vars(Step(p)) /\ SF_vars(Flock(p))

FairSpec == Spec /\ Fairness

-----------------------------------------------------------------------------
(* PROPERTIES                                                              *)

(* No two processes work on the files of one VM at a time, except readers of
   with_locked_state: lock_opened_state_file lets nobody touch the payload
   before it holds the inode the path names, although delete_state,
   cleanup_stale_state and update_state unlink lock files that others wait on. *)
PayloadMutex ==
    \A p, q \in Procs :
        p # q /\ pc[p] \in Payload /\ pc[q] \in Payload
            => op[p] = "with_locked_state" /\ op[q] = "with_locked_state"

(* Every saved state has a lock file until delete_state has removed the state:
   lock_existing_state_file reads a missing lock as a missing state, and
   list_vms finds VMs through their lock files. *)
LockCoversState == state # NoState => lock # NoInode

(* While with_locked_state's caller decides, the state it was handed is the
   state on disk: no write and no removal lands before it returns. *)
InspectedIsCurrent == \A p \in Procs : pc[p] = "inspect" => buf[p] = state

(* A VM's state file that was removed stays removed: a late update_state, of a
   health monitor or of another process, never brings it back. *)
NeverResurrected == removed => state = NoState

(* The state file behaves as the register: whole states only, no update lost,
   removed only after its owner's end and once. *)
Reg == INSTANCE VmStateRegister WITH reg <- state, ownerUp <- (owner = "up")
ImplementsRegister == Reg!RegSpec

(* Every operation on the state file returns, whatever the others do to the
   lock file under it. *)
OpsReturn == \A p \in Procs : pc[p] # "idle" ~> pc[p] = "idle"
=============================================================================
