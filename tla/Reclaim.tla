------------------------------ MODULE Reclaim ------------------------------
(***************************************************************************)
(* Owner records: how a launch takes back the host resources of fcvm       *)
(* processes that were killed (src/src/reclaim.rs), together with the      *)
(* bridged network whose objects it deletes by name                        *)
(* (src/src/network/bridged.rs, names.rs, portmap.rs).                     *)
(*                                                                         *)
(* Every VM is one process.  It first reclaims what dead owners recorded,  *)
(* then owns an id of its own (ids are never reused), builds a runtime     *)
(* directory, a network namespace and a veth, runs, and tears them down.   *)
(* A process can be killed between any two steps, and the host can reboot. *)
(*                                                                         *)
(* The objects of one VM are always recorded in the order of Kinds, so a   *)
(* record is a set of kinds and "newest first" is the largest rank.  The   *)
(* namespace and the veth are named by a base that VMs compete for; a veth *)
(* stands for itself and for the rules and routes that name it.            *)
(***************************************************************************)
EXTENDS Naturals

CONSTANTS
    Vms,         \* vm ids, each the id of one launch process
    Bases,       \* network name bases (names::candidate_base)
    Inodes,      \* identities of the lock files of one id
    Nobody,      \* no VM
    NoInode,     \* no lock file, no descriptor
    NoRecord,    \* no <id>.json
    MaxFailures  \* bound: SIGKILLs, failing commands or writes, and reboots together

ASSUME ReclaimAssumption ==
    /\ Nobody \notin Vms \union Bases
    /\ NoInode \notin Inodes
    /\ MaxFailures \in Nat

VARIABLES
    pc,          \* what each launch process does next
    todo,        \* the ids a pass has listed and not visited yet
    target,      \* the id a process acts for
    fd,          \* its descriptor of the target's lock file
    locked,      \* whether that descriptor holds the flock
    mem,         \* the owner's `resources`, or the `pending` of undo_all
    kept,        \* the `remaining` of undo_all
    hold,        \* its `hold_kernel`
    cur,         \* the kernel object whose record was just retired
    same,        \* its `same_boot`
    base,        \* the name base a VM reserved, or Nobody
    handles,     \* what its network object remembers: namespace_id, host_veth
    repeat,      \* whether prepare_vm calls cleanup() a second time, or has
    lockfile,    \* <id>.lock: the inode at the name
    rec,         \* <id>.json
    helpers,     \* VMs whose disk helper (mkfs.ext4) runs
    helperFd,    \* the owner lock that helper inherited
    dirs,        \* VMs whose runtime directory exists
    netns,       \* the creator of the namespace of each base
    link,        \* the creator of the veth of each base
    nat,         \* whether the shared MASQUERADE rules are there
    natLock,     \* holder of bridged-nat.lock
    subnetLock,  \* holder of bridged-subnet.lock
    boot,        \* the kernel's boot id
    failures     \* how often something failed

passVars == <<todo, target>>
lockVars == <<fd, locked>>
undoVars == <<kept, hold, cur, same>>
netVars == <<base, handles, repeat>>
local == <<pc, passVars, lockVars, mem, undoVars, netVars>>
files == <<lockfile, rec, dirs>>
kernel == <<netns, link, nat, natLock, subnetLock>>
help == <<helpers, helperFd>>
env == <<boot, failures>>
vars == <<local, files, kernel, help, env>>

(* In the order an owner records them (podman/mod.rs 1827, bridged.rs 338, 363). *)
Kinds == {"dir", "nat", "netns", "link"}
Rank == [dir |-> 1, nat |-> 2, netns |-> 3, link |-> 4]

(* <id>.json: what is recorded, and under which boot *)
Recorded == [res : SUBSET Kinds, boot : Nat]
ASSUME NoRecordAssumption == NoRecord \notin Recorded

(* Resource::is_kernel_object *)
KernelObject(k) == k # "dir"

(* pending.pop() *)
Newest(set) == CHOOSE k \in set : \A j \in set : Rank[j] <= Rank[k]

Passing == {"pass"}
Locking == {"open", "flock"}
Setup == {"record_dir", "mkdir", "record_nat", "reserve", "record_netns",
          "record_link", "veth", "ensure_nat", "build", "helping"}
Teardown == {"forget_link", "del_link", "forget_netns", "del_netns",
             "check_nat", "del_nat", "forget_nat", "net_done", "rmdir"}
Undoing == {"read", "undo", "delete", "rerecord", "undo_nat", "rm_record", "rm_lock"}
Gone == {"idle", "done", "dead"}
PCs == Passing \union Locking \union Setup \union {"running"}
         \union Teardown \union Undoing \union Gone

-----------------------------------------------------------------------------
(* The lock of an owner.  A flock belongs to an open file description, so a
   helper that inherited the descriptor keeps it (Holder::hold_in). *)

HoldsLock(p, i, n) == locked[p] /\ target[p] = i /\ fd[p] = n

Held(i, n) ==
    \/ \E q \in Vms : HoldsLock(q, i, n)
    \/ i \in helpers /\ helperFd[i] = n

(* An inode number is free again once no name and no descriptor has it. *)
FreeInodes(i) ==
    {n \in Inodes : /\ lockfile[i] # n
                    /\ \A q \in Vms : ~ (target[q] = i /\ fd[q] = n)
                    /\ ~ (i \in helpers /\ helperFd[i] = n)}

Goto(p, s) == pc' = [pc EXCEPT ![p] = s]

(* write_record: a temporary that is renamed over <id>.json. *)
WriteRecord(i, res) == rec' = [rec EXCEPT ![i] = [res |-> res, boot |-> boot]]

(* Every command and write may fail, within the bound. *)
Succeeds == UNCHANGED failures
Fails == failures < MaxFailures /\ failures' = failures + 1

-----------------------------------------------------------------------------
(* reclaim_abandoned: one pass over the ids that have a file. *)

StartPass(p) ==
    /\ pc[p] = "idle"
    /\ todo' = [todo EXCEPT ![p] = {i \in Vms : lockfile[i] # NoInode \/ rec[i] # NoRecord}]
    /\ Goto(p, "pass")
    /\ UNCHANGED <<target, lockVars, mem, undoVars, netVars, files, kernel, help, env>>

VisitOwner(p) ==
    /\ pc[p] = "pass"
    /\ \E i \in todo[p] :
          /\ todo' = [todo EXCEPT ![p] = @ \ {i}]
          /\ target' = [target EXCEPT ![p] = i]
    /\ Goto(p, "open")
    /\ UNCHANGED <<lockVars, mem, undoVars, netVars, files, kernel, help, env>>

(* The pass is over: Owner::begin for the launch's own id. *)
Begin(p) ==
    /\ pc[p] = "pass" /\ todo[p] = {}
    /\ target' = [target EXCEPT ![p] = p]
    /\ Goto(p, "open")
    /\ UNCHANGED <<todo, lockVars, mem, undoVars, netVars, files, kernel, help, env>>

(* lock_owner_file: open with O_CREAT ... *)
OpenLock(p) ==
    /\ pc[p] = "open"
    /\ LET i == target[p]
           n == IF lockfile[i] # NoInode THEN lockfile[i] ELSE CHOOSE m \in FreeInodes(i) : TRUE
       IN  /\ lockfile[i] # NoInode \/ FreeInodes(i) # {}
           /\ lockfile' = [lockfile EXCEPT ![i] = n]
           /\ fd' = [fd EXCEPT ![p] = n]
    /\ Goto(p, "flock")
    /\ UNCHANGED <<passVars, locked, mem, undoVars, netVars, rec, dirs, kernel, help, env>>

(* Mutant: the inode that was locked is not compared with the one at the name. *)
TakeLock_AnyInode(p) ==
    LET i == target[p] IN
    /\ pc[p] = "flock"
    /\ ~ Held(i, fd[p])
    /\ locked' = [locked EXCEPT ![p] = TRUE]
    /\ mem' = [mem EXCEPT ![p] = {}]
    /\ Goto(p, IF i = p THEN "record_dir" ELSE "read")
    /\ UNCHANGED <<passVars, fd, undoVars, netVars, files, kernel, help, env>>

(* ... then flock and compare the inode held with the one at the name: only an
   equal one counts, any other was unlinked by its last holder.  Begin waits for
   the lock and, once it has it, fails if the id already has a record. *)
TakeLock(p) ==
    LET i == target[p]
        current == lockfile[i] = fd[p]
        granted == current /\ (i = p => rec[p] = NoRecord)
    IN
    /\ pc[p] = "flock"
    /\ ~ Held(i, fd[p])
    /\ locked' = [locked EXCEPT ![p] = granted]
    /\ fd' = [fd EXCEPT ![p] = IF granted THEN @ ELSE NoInode]
    /\ mem' = [mem EXCEPT ![p] = {}]
    /\ Goto(p, IF ~ current THEN "open"
               ELSE IF ~ granted THEN "done"
               ELSE IF i = p THEN "record_dir" ELSE "read")
    /\ UNCHANGED <<passVars, undoVars, netVars, files, kernel, help, env>>

(* Mutant: a pass waits until the lock is free. *)
SkipHeld_Waits(p) ==
    /\ pc[p] = "flock" /\ target[p] # p
    /\ Held(target[p], fd[p]) /\ pc[target[p]] \in Gone
    /\ fd' = [fd EXCEPT ![p] = NoInode]
    /\ Goto(p, "pass")
    /\ UNCHANGED <<passVars, locked, mem, undoVars, netVars, files, kernel, help, env>>

(* A pass never waits on a live owner. *)
SkipHeld(p) ==
    /\ pc[p] = "flock" /\ target[p] # p
    /\ Held(target[p], fd[p])
    /\ fd' = [fd EXCEPT ![p] = NoInode]
    /\ Goto(p, "pass")
    /\ UNCHANGED <<passVars, locked, mem, undoVars, netVars, files, kernel, help, env>>

(* No record: an owner that recorded nothing, or one between creating its lock
   file and locking it, which will find the file gone. *)
ReadRecord(p) ==
    LET i == target[p] IN
    /\ pc[p] = "read"
    /\ kept' = [kept EXCEPT ![p] = {}]
    /\ hold' = [hold EXCEPT ![p] = FALSE]
    /\ \/ /\ rec[i] = NoRecord
          /\ Goto(p, "rm_record")
          /\ UNCHANGED <<mem, same>>
       \/ /\ rec[i] # NoRecord
          /\ mem' = [mem EXCEPT ![p] = rec[i].res]
          /\ same' = [same EXCEPT ![p] = (rec[i].boot = boot)]
          /\ Goto(p, "undo")
    /\ UNCHANGED <<passVars, lockVars, cur, netVars, files, kernel, help, env>>

(* Close the descriptor without unlocking it (`release`); a launch's own
   `complete` is its last step. *)
Release(p) ==
    /\ locked' = [locked EXCEPT ![p] = FALSE]
    /\ fd' = [fd EXCEPT ![p] = NoInode]
    /\ kept' = [kept EXCEPT ![p] = {}]
    /\ Goto(p, IF target[p] = p THEN "done" ELSE "pass")

(* A record that cannot be read or parsed is left where it is. *)
SkipUnreadable(p) ==
    /\ pc[p] = "read" /\ rec[target[p]] # NoRecord
    /\ Fails
    /\ Release(p)
    /\ UNCHANGED <<passVars, mem, hold, cur, same, netVars, files, kernel, help, boot>>

-----------------------------------------------------------------------------
(* undo_all, for the owner's own `complete` and for the records of a pass. *)

UndoDir(p) ==
    LET i == target[p] IN
    /\ pc[p] = "undo" /\ mem[p] # {} /\ Newest(mem[p]) = "dir"
    /\ mem' = [mem EXCEPT ![p] = @ \ {"dir"}]
    /\ \/ Succeeds /\ dirs' = dirs \ {i} /\ UNCHANGED kept
       \/ Fails /\ kept' = [kept EXCEPT ![p] = @ \union {"dir"}] /\ UNCHANGED dirs
    /\ UNCHANGED <<pc, passVars, lockVars, hold, cur, same, netVars, lockfile, rec, kernel, help, boot>>

(* Mutant: an object of another boot stays recorded. *)
UndoPasses_KeepsOld(p) ==
    LET k == Newest(mem[p]) IN
    /\ pc[p] = "undo" /\ mem[p] # {} /\ KernelObject(k)
    /\ ~ same[p] \/ hold[p]
    /\ mem' = [mem EXCEPT ![p] = @ \ {k}]
    /\ kept' = [kept EXCEPT ![p] = @ \union {k}]
    /\ UNCHANGED <<pc, passVars, lockVars, hold, cur, same, netVars, files, kernel, help, env>>

(* An object of another boot is left alone, and one older than an object that
   stays is kept with it. *)
UndoPasses(p) ==
    LET k == Newest(mem[p]) IN
    /\ pc[p] = "undo" /\ mem[p] # {} /\ KernelObject(k)
    /\ ~ same[p] \/ hold[p]
    /\ mem' = [mem EXCEPT ![p] = @ \ {k}]
    /\ kept' = [kept EXCEPT ![p] = IF same[p] THEN @ \union {k} ELSE @]
    /\ UNCHANGED <<pc, passVars, lockVars, hold, cur, same, netVars, files, kernel, help, env>>

(* The record is rewritten without a kernel object before the object goes. *)
UndoRetires(p) ==
    LET i == target[p]
        k == Newest(mem[p])
    IN
    /\ pc[p] = "undo" /\ mem[p] # {} /\ KernelObject(k)
    /\ same[p] /\ ~ hold[p]
    /\ mem' = [mem EXCEPT ![p] = @ \ {k}]
    /\ \/ /\ Succeeds
          /\ WriteRecord(i, (mem[p] \ {k}) \union kept[p])
          /\ cur' = [cur EXCEPT ![p] = k]
          /\ Goto(p, "delete")
          /\ UNCHANGED <<kept, hold>>
       \/ /\ Fails
          /\ kept' = [kept EXCEPT ![p] = @ \union {k}]
          /\ hold' = [hold EXCEPT ![p] = TRUE]
          /\ UNCHANGED <<pc, cur, rec>>
    /\ UNCHANGED <<passVars, lockVars, same, netVars, lockfile, dirs, kernel, help, boot>>

(* delete_veth_pair, delete_namespace: by name, whoever made what has it. *)
DelLink(b) == link' = [link EXCEPT ![b] = Nobody] /\ UNCHANGED netns
DelNetns(b) == netns' = [netns EXCEPT ![b] = Nobody] /\ UNCHANGED link

(* cleanup_global_nat_if_unused, under bridged-nat.lock: list the links ... *)
CheckNat(p, used, unused) ==
    /\ natLock = Nobody
    /\ IF \E b \in Bases : link[b] # Nobody
       THEN Goto(p, used) /\ UNCHANGED natLock
       ELSE Goto(p, unused) /\ natLock' = p

(* ... and delete the rules if none was there. *)
DeleteNat(p, next) ==
    /\ Goto(p, next)
    /\ natLock' = Nobody
    /\ nat' = FALSE

UndoDelete(p) ==
    LET b == base[target[p]] IN
    /\ pc[p] = "delete"
    /\ Succeeds
    /\ \/ cur[p] = "link" /\ DelLink(b) /\ Goto(p, "undo") /\ UNCHANGED natLock
       \/ cur[p] = "netns" /\ DelNetns(b) /\ Goto(p, "undo") /\ UNCHANGED natLock
       \/ cur[p] = "nat" /\ CheckNat(p, "undo", "undo_nat") /\ UNCHANGED <<link, netns>>
    /\ UNCHANGED <<passVars, lockVars, mem, undoVars, netVars, files, nat, subnetLock, help, boot>>

UndoNat(p) ==
    /\ pc[p] = "undo_nat"
    /\ DeleteNat(p, "undo")
    /\ UNCHANGED <<passVars, lockVars, mem, undoVars, netVars, files, link, netns, subnetLock,
                   help, env>>

(* Still this owner's: it is recorded repeat, and holds the older ones. *)
UndoFails(p) ==
    /\ pc[p] = "delete"
    /\ Fails
    /\ kept' = [kept EXCEPT ![p] = @ \union {cur[p]}]
    /\ hold' = [hold EXCEPT ![p] = TRUE]
    /\ Goto(p, "rerecord")
    /\ UNCHANGED <<passVars, lockVars, mem, cur, same, netVars, files, kernel, help, boot>>

Rerecord(p) ==
    /\ pc[p] = "rerecord"
    /\ \/ Succeeds /\ WriteRecord(target[p], mem[p] \union kept[p])
       \/ Fails /\ UNCHANGED rec
    /\ Goto(p, "undo")
    /\ UNCHANGED <<passVars, lockVars, mem, undoVars, netVars, lockfile, dirs, kernel, help, boot>>

(* Mutant: the record goes although something remains. *)
UndoEnd_Discards(p) ==
    /\ pc[p] = "undo" /\ mem[p] = {}
    /\ Goto(p, "rm_record")
    /\ UNCHANGED <<passVars, lockVars, mem, undoVars, netVars, files, kernel, help, env>>

(* What remains is recorded for the next launch. *)
UndoEnd(p) ==
    /\ pc[p] = "undo" /\ mem[p] = {}
    /\ \/ kept[p] = {} /\ Succeeds /\ Goto(p, "rm_record") /\ UNCHANGED <<locked, fd, kept, rec>>
       \/ kept[p] # {} /\ Succeeds /\ WriteRecord(target[p], kept[p]) /\ Release(p)
       \/ kept[p] # {} /\ Fails /\ UNCHANGED rec /\ Release(p)
    /\ UNCHANGED <<passVars, mem, hold, cur, same, netVars, lockfile, dirs, kernel, help, boot>>

(* delete_owner_files: the record first, the lock file last, then the lock.  A
   file that cannot be removed leaves it and the later ones. *)
DeleteRecord(p) ==
    /\ pc[p] = "rm_record"
    /\ \/ Succeeds /\ rec' = [rec EXCEPT ![target[p]] = NoRecord] /\ Goto(p, "rm_lock")
          /\ UNCHANGED <<locked, fd, kept>>
       \/ Fails /\ UNCHANGED rec /\ Release(p)
    /\ UNCHANGED <<passVars, mem, hold, cur, same, netVars, lockfile, dirs, kernel, help, boot>>

DeleteLock(p) ==
    /\ pc[p] = "rm_lock"
    /\ \/ Succeeds /\ lockfile' = [lockfile EXCEPT ![target[p]] = NoInode]
       \/ Fails /\ UNCHANGED lockfile
    /\ Release(p)
    /\ UNCHANGED <<passVars, mem, hold, cur, same, netVars, rec, dirs, kernel, help, boot>>

-----------------------------------------------------------------------------
(* Setup of a VM: each object is recorded before it is created, except the
   namespace, whose creation decides which VM has its name. *)

(* Inner::record *)
Record(p, k) ==
    /\ mem' = [mem EXCEPT ![p] = @ \union {k}]
    /\ WriteRecord(p, mem[p] \union {k})

RecordDir(p) ==
    /\ pc[p] = "record_dir"
    /\ \/ Succeeds /\ Record(p, "dir") /\ Goto(p, "mkdir") /\ UNCHANGED <<fd, locked, kept>>
       \/ Fails /\ UNCHANGED <<mem, rec>> /\ Release(p)
    /\ UNCHANGED <<passVars, hold, cur, same, netVars, lockfile, dirs, kernel, help, boot>>

MakeDir(p) ==
    /\ pc[p] = "mkdir"
    /\ dirs' = dirs \union {p}
    /\ Goto(p, "record_nat")
    /\ UNCHANGED <<passVars, lockVars, mem, undoVars, netVars, lockfile, rec, kernel, help, env>>

(* From here to the veth's address the setup holds bridged-subnet.lock; an error
   here is left to the caller's cleanup(). *)
RecordNat(p) ==
    /\ pc[p] = "record_nat"
    /\ subnetLock = Nobody
    /\ \/ Succeeds /\ Record(p, "nat") /\ subnetLock' = p /\ Goto(p, "reserve")
       \/ Fails /\ UNCHANGED <<mem, rec, subnetLock>> /\ Goto(p, "forget_link")
    /\ UNCHANGED <<passVars, lockVars, undoVars, netVars, lockfile, dirs, netns, link, nat, natLock,
                   help, boot>>

(* names::reserve: a base is taken if its veth or its namespace exists, and
   `ip netns add` settles it, unless it fails. *)
FreeBase(b) == link[b] = Nobody /\ netns[b] = Nobody

Reserve(p) ==
    /\ pc[p] = "reserve"
    /\ \/ \E b \in Bases :
             /\ FreeBase(b) /\ Succeeds
             /\ netns' = [netns EXCEPT ![b] = p]
             /\ base' = [base EXCEPT ![p] = b]
             /\ handles' = [handles EXCEPT ![p] = {"netns"}]
             /\ Goto(p, "record_netns")
             /\ UNCHANGED subnetLock
       \/ /\ Fails \/ (Succeeds /\ \A b \in Bases : ~ FreeBase(b))
          /\ subnetLock' = Nobody
          /\ Goto(p, "forget_link")
          /\ UNCHANGED <<netns, base, handles>>
    /\ UNCHANGED <<passVars, lockVars, mem, undoVars, repeat, files, link, nat, natLock,
                   help, boot>>

(* An error after the reservation: setup() calls cleanup() itself, still with
   the lock if it has it, and prepare_vm calls cleanup() once more. *)
SetupFails(p) ==
    /\ Fails
    /\ repeat' = [repeat EXCEPT ![p] = "due"]
    /\ Goto(p, "forget_link")

RecordObject(p, k, next) ==
    /\ \/ /\ Succeeds
          /\ Record(p, k)
          /\ Goto(p, next)
          /\ UNCHANGED <<handles, repeat>>
       \/ /\ SetupFails(p)
          /\ handles' = [handles EXCEPT ![p] = {"netns", "link"}]
          /\ UNCHANGED <<mem, rec>>
    /\ UNCHANGED <<passVars, lockVars, undoVars, base, lockfile, dirs, kernel, help, boot>>

RecordNetns(p) == pc[p] = "record_netns" /\ RecordObject(p, "netns", "record_link")
RecordLink(p) == pc[p] = "record_link" /\ RecordObject(p, "link", "veth")

(* The veth pair, its address and the probe of its route, each of which may fail. *)
CreateVeth(p) ==
    /\ pc[p] = "veth"
    /\ \/ SetupFails(p) /\ UNCHANGED <<link, handles, subnetLock>>
       \/ /\ link' = [link EXCEPT ![base[p]] = p]
          /\ handles' = [handles EXCEPT ![p] = {"netns", "link"}]
          /\ \/ Succeeds /\ subnetLock' = Nobody /\ Goto(p, "ensure_nat") /\ UNCHANGED repeat
             \/ SetupFails(p) /\ UNCHANGED subnetLock
    /\ UNCHANGED <<passVars, lockVars, mem, undoVars, base, files, netns, nat, natLock, help, boot>>

(* Mutant: the check-then-add does not take bridged-nat.lock. *)
EnsureNat_Unlocked(p) ==
    /\ pc[p] = "ensure_nat"
    /\ \/ Succeeds /\ nat' = TRUE /\ Goto(p, "build") /\ UNCHANGED repeat
       \/ SetupFails(p) /\ UNCHANGED nat
    /\ UNCHANGED <<passVars, lockVars, mem, undoVars, base, handles, files, netns, link, natLock,
                   subnetLock, help, boot>>

(* ensure_global_nat: check-then-add under bridged-nat.lock. *)
EnsureNat(p) ==
    /\ pc[p] = "ensure_nat"
    /\ natLock = Nobody
    /\ \/ Succeeds /\ nat' = TRUE /\ Goto(p, "build") /\ UNCHANGED repeat
       \/ SetupFails(p) /\ UNCHANGED nat
    /\ UNCHANGED <<passVars, lockVars, mem, undoVars, base, handles, files, netns, link, natLock,
                   subnetLock, help, boot>>

(* Mutant: the helper does not inherit the owner's lock. *)
StartHelper_NoLock(p) ==
    /\ pc[p] = "build"
    /\ helpers' = helpers \union {p}
    /\ Goto(p, "helping")
    /\ UNCHANGED <<passVars, lockVars, mem, undoVars, netVars, files, kernel, helperFd, env>>

(* --disk-dir: mkfs.ext4 writes in the runtime directory and inherits the lock. *)
StartHelper(p) ==
    /\ pc[p] = "build"
    /\ helpers' = helpers \union {p}
    /\ helperFd' = [helperFd EXCEPT ![p] = fd[p]]
    /\ Goto(p, "helping")
    /\ UNCHANGED <<passVars, lockVars, mem, undoVars, netVars, files, kernel, env>>

HelperExits(p) ==
    /\ p \in helpers
    /\ helpers' = helpers \ {p}
    /\ helperFd' = [helperFd EXCEPT ![p] = NoInode]
    /\ Goto(p, IF pc[p] = "helping" THEN "running" ELSE pc[p])
    /\ UNCHANGED <<passVars, lockVars, mem, undoVars, netVars, files, kernel, env>>

Run(p) ==
    /\ pc[p] = "build"
    /\ Goto(p, "running")
    /\ UNCHANGED <<passVars, lockVars, mem, undoVars, netVars, files, kernel, help, env>>

-----------------------------------------------------------------------------
(* BridgedNetwork::cleanup and the rest of teardown.  The records of the veth,
   and of what it names, go before the veth, because afterwards another VM can
   have its name; likewise for the namespace. *)

Stop(p) ==
    /\ pc[p] = "running"
    /\ Goto(p, "forget_link")
    /\ UNCHANGED <<passVars, lockVars, mem, undoVars, netVars, files, kernel, help, env>>

(* `forget`: on disk first, and nothing to write if nothing matches. *)
Forget(p, k) ==
    /\ mem' = [mem EXCEPT ![p] = @ \ {k}]
    /\ IF k \in mem[p] THEN WriteRecord(p, mem[p] \ {k}) ELSE UNCHANGED rec

(* A rule that cannot be removed, or a record that cannot be dropped, keeps the
   whole network for the next launch. *)
ForgetLink(p) ==
    /\ pc[p] = "forget_link"
    /\ \/ Succeeds /\ Forget(p, "link") /\ Goto(p, "del_link")
       \/ Fails /\ UNCHANGED <<mem, rec>> /\ Goto(p, "net_done")
    /\ UNCHANGED <<passVars, lockVars, undoVars, netVars, lockfile, dirs, kernel, help, boot>>

DeleteVeth(p) ==
    /\ pc[p] = "del_link"
    /\ \/ Succeeds /\ "link" \in handles[p] /\ DelLink(base[p])
       \/ Succeeds /\ "link" \notin handles[p] /\ UNCHANGED <<netns, link>>
       \/ Fails /\ UNCHANGED <<netns, link>>
    /\ Goto(p, "forget_netns")
    /\ UNCHANGED <<passVars, lockVars, mem, undoVars, netVars, files, nat, natLock, subnetLock, help, boot>>

ForgetNetns(p) ==
    /\ pc[p] = "forget_netns"
    /\ \/ Succeeds /\ Forget(p, "netns") /\ Goto(p, "del_netns")
       \/ Fails /\ UNCHANGED <<mem, rec>> /\ Goto(p, "check_nat")
    /\ UNCHANGED <<passVars, lockVars, undoVars, netVars, lockfile, dirs, kernel, help, boot>>

DeleteNetns(p) ==
    /\ pc[p] = "del_netns"
    /\ \/ Succeeds /\ "netns" \in handles[p] /\ DelNetns(base[p])
       \/ Succeeds /\ "netns" \notin handles[p] /\ UNCHANGED <<netns, link>>
       \/ Fails /\ UNCHANGED <<netns, link>>
    /\ Goto(p, "check_nat")
    /\ UNCHANGED <<passVars, lockVars, mem, undoVars, netVars, files, nat, natLock, subnetLock, help, boot>>

TeardownCheckNat(p) ==
    /\ pc[p] = "check_nat"
    /\ \/ Succeeds /\ CheckNat(p, "forget_nat", "del_nat")
       \/ Fails /\ Goto(p, "net_done") /\ UNCHANGED natLock
    /\ UNCHANGED <<passVars, lockVars, mem, undoVars, netVars, files, netns, link, nat, subnetLock,
                   help, boot>>

TeardownDeleteNat(p) ==
    /\ pc[p] = "del_nat"
    /\ \/ Succeeds /\ DeleteNat(p, "forget_nat")
       \/ Fails /\ natLock' = Nobody /\ Goto(p, "net_done") /\ UNCHANGED nat
    /\ UNCHANGED <<passVars, lockVars, mem, undoVars, netVars, files, netns, link, subnetLock, help, boot>>

ForgetNat(p) ==
    /\ pc[p] = "forget_nat"
    /\ \/ Succeeds /\ Forget(p, "nat")
       \/ Fails /\ UNCHANGED <<mem, rec>>
    /\ Goto(p, "net_done")
    /\ UNCHANGED <<passVars, lockVars, undoVars, netVars, lockfile, dirs, kernel, help, boot>>

(* cleanup() returns, and from a failed setup() with it the subnet lock goes. *)
CleanupReturns(p) ==
    /\ pc[p] = "net_done"
    /\ repeat' = [repeat EXCEPT ![p] = IF @ = "due" THEN "done" ELSE @]
    /\ subnetLock' = IF subnetLock = p THEN Nobody ELSE subnetLock
    /\ Goto(p, IF repeat[p] = "due" THEN "forget_link" ELSE "rmdir")
    /\ UNCHANGED <<passVars, lockVars, mem, undoVars, base, handles, files, netns, link, nat, natLock,
                   help, env>>

(* remove_runtime_dir, then reclaim::complete undoes what is still recorded. *)
RemoveDir(p) ==
    /\ pc[p] = "rmdir"
    /\ \/ Succeeds /\ dirs' = dirs \ {p}
       \/ Fails /\ UNCHANGED dirs
    /\ kept' = [kept EXCEPT ![p] = {}]
    /\ hold' = [hold EXCEPT ![p] = FALSE]
    /\ same' = [same EXCEPT ![p] = TRUE]
    /\ Goto(p, "undo")
    /\ UNCHANGED <<passVars, lockVars, mem, cur, netVars, lockfile, rec, kernel, help, boot>>

-----------------------------------------------------------------------------
(* SIGKILL: the kernel closes the descriptors and ends the commands the process
   runs (helper_command), but not the disk helper. *)
Kill(p) ==
    /\ pc[p] \notin Gone
    /\ Fails
    /\ Goto(p, "dead")
    /\ fd' = [fd EXCEPT ![p] = NoInode]
    /\ locked' = [locked EXCEPT ![p] = FALSE]
    /\ todo' = [todo EXCEPT ![p] = {}]
    /\ target' = [target EXCEPT ![p] = p]
    /\ mem' = [mem EXCEPT ![p] = {}]
    /\ kept' = [kept EXCEPT ![p] = {}]
    /\ natLock' = IF natLock = p THEN Nobody ELSE natLock
    /\ subnetLock' = IF subnetLock = p THEN Nobody ELSE subnetLock
    /\ UNCHANGED <<hold, cur, same, netVars, files, netns, link, nat, help, boot>>

(* A reboot ends every process and every kernel object; files stay. *)
Reboot ==
    /\ Fails
    /\ boot' = boot + 1
    /\ pc' = [p \in Vms |-> IF pc[p] \in Gone THEN pc[p] ELSE "dead"]
    /\ fd' = [p \in Vms |-> NoInode]
    /\ locked' = [p \in Vms |-> FALSE]
    /\ todo' = [p \in Vms |-> {}]
    /\ target' = [p \in Vms |-> p]
    /\ mem' = [p \in Vms |-> {}]
    /\ kept' = [p \in Vms |-> {}]
    /\ netns' = [b \in Bases |-> Nobody]
    /\ link' = [b \in Bases |-> Nobody]
    /\ nat' = FALSE
    /\ natLock' = Nobody
    /\ subnetLock' = Nobody
    /\ helpers' = {}
    /\ helperFd' = [p \in Vms |-> NoInode]
    /\ UNCHANGED <<hold, cur, same, netVars, files>>

-----------------------------------------------------------------------------
Init ==
    /\ pc = [p \in Vms |-> "idle"]
    /\ todo = [p \in Vms |-> {}]
    /\ target = [p \in Vms |-> p]
    /\ fd = [p \in Vms |-> NoInode]
    /\ locked = [p \in Vms |-> FALSE]
    /\ mem = [p \in Vms |-> {}]
    /\ kept = [p \in Vms |-> {}]
    /\ hold = [p \in Vms |-> FALSE]
    /\ cur = [p \in Vms |-> "nat"]
    /\ same = [p \in Vms |-> FALSE]
    /\ base = [p \in Vms |-> Nobody]
    /\ handles = [p \in Vms |-> {}]
    /\ repeat = [p \in Vms |-> "no"]
    /\ lockfile = [p \in Vms |-> NoInode]
    /\ rec = [p \in Vms |-> NoRecord]
    /\ helpers = {}
    /\ helperFd = [p \in Vms |-> NoInode]
    /\ dirs = {}
    /\ netns = [b \in Bases |-> Nobody]
    /\ link = [b \in Bases |-> Nobody]
    /\ nat = FALSE
    /\ natLock = Nobody
    /\ subnetLock = Nobody
    /\ boot = 0 /\ failures = 0

Pass(p) ==
    \/ VisitOwner(p) \/ Begin(p) \/ OpenLock(p) \/ TakeLock(p) \/ SkipHeld(p)
    \/ ReadRecord(p)

Undo(p) ==
    \/ SkipUnreadable(p) \/ UndoDir(p) \/ UndoPasses(p) \/ UndoRetires(p) \/ UndoDelete(p) \/ UndoNat(p)
    \/ UndoFails(p) \/ Rerecord(p) \/ UndoEnd(p) \/ DeleteRecord(p) \/ DeleteLock(p)

SetUp(p) ==
    \/ RecordDir(p) \/ MakeDir(p) \/ RecordNat(p) \/ Reserve(p) \/ RecordNetns(p)
    \/ RecordLink(p) \/ CreateVeth(p) \/ EnsureNat(p) \/ StartHelper(p) \/ Run(p)

TearDown(p) ==
    \/ ForgetLink(p) \/ DeleteVeth(p) \/ ForgetNetns(p) \/ DeleteNetns(p)
    \/ TeardownCheckNat(p) \/ TeardownDeleteNat(p) \/ ForgetNat(p)
    \/ CleanupReturns(p) \/ RemoveDir(p)

Step(p) == Pass(p) \/ Undo(p) \/ SetUp(p) \/ TearDown(p) \/ HelperExits(p)

Next ==
    \/ \E p \in Vms : StartPass(p) \/ Step(p) \/ Stop(p) \/ Kill(p)
    \/ Reboot

Spec == Init /\ [][Next]_vars

(* A process that has started keeps running until it is killed; nothing says
   that a VM is ever stopped or another one launched. *)
FairSpec == Spec /\ \A p \in Vms : WF_vars(Step(p))

-----------------------------------------------------------------------------
Records == Recorded \union {NoRecord}

TypeOK ==
    /\ pc \in [Vms -> PCs]
    /\ todo \in [Vms -> SUBSET Vms]
    /\ target \in [Vms -> Vms]
    /\ fd \in [Vms -> Inodes \union {NoInode}]
    /\ locked \in [Vms -> BOOLEAN]
    /\ mem \in [Vms -> SUBSET Kinds]
    /\ kept \in [Vms -> SUBSET Kinds]
    /\ hold \in [Vms -> BOOLEAN]
    /\ cur \in [Vms -> Kinds \ {"dir"}]
    /\ same \in [Vms -> BOOLEAN]
    /\ base \in [Vms -> Bases \union {Nobody}]
    /\ handles \in [Vms -> SUBSET {"netns", "link"}]
    /\ repeat \in [Vms -> {"no", "due", "done"}]
    /\ lockfile \in [Vms -> Inodes \union {NoInode}]
    /\ rec \in [Vms -> Records]
    /\ helpers \subseteq Vms
    /\ helperFd \in [Vms -> Inodes \union {NoInode}]
    /\ dirs \subseteq Vms
    /\ netns \in [Bases -> Vms \union {Nobody}]
    /\ link \in [Bases -> Vms \union {Nobody}]
    /\ nat \in BOOLEAN
    /\ natLock \in Vms \union {Nobody}
    /\ subnetLock \in Vms \union {Nobody}
    /\ boot \in 0 .. failures
    /\ failures \in 0 .. MaxFailures

Acting(p, i) == locked[p] /\ target[p] = i

(* Nobody acts for an owner while its process, another pass or a helper that
   inherited its lock does, and whoever acts holds the lock file that is at the
   name, where the next opener finds it: the flock is the owner's liveness,
   although passes and owners keep unlinking and recreating the lock file
   (reclaim.rs 425-451). *)
OneActor ==
    \A i \in Vms :
        /\ \A p \in Vms : Acting(p, i) => lockfile[i] = fd[p]
        /\ \A p, q \in Vms : Acting(p, i) /\ Acting(q, i) => p = q
        /\ i \in helpers => \A p \in Vms \ {i} : ~ Acting(p, i)

Intact(p) ==
    /\ p \in dirs
    /\ netns[base[p]] = p
    /\ link[base[p]] = p
    /\ nat

(* Whatever passes, teardowns and kills of other VMs happen around it, a VM that
   runs keeps its directory, its namespace, its veth and the shared NAT rules:
   nothing that is deleted by name is a namesake's (reclaim.rs 30-37).  Here for
   as long as no failed setup was cleaned up a second time: prepare_vm calls
   cleanup() after setup() called it (podman/mod.rs 2243-2256), and by then another
   VM can have the names. *)
RunningIntact ==
    (\A q \in Vms : repeat[q] # "done") => \A p \in Vms : pc[p] = "running" => Intact(p)

(* A runtime directory is never there without a record that names it, at any
   moment at which its owner, or the pass that undoes it, could be killed or the
   host reboot (podman/mod.rs 1824-1829). *)
DirsRecorded ==
    \A i \in dirs : rec[i] # NoRecord /\ "dir" \in rec[i].res

(* The directory a helper still writes in is not taken from under it, whatever
   happened to the process that started it (reclaim.rs 580-604). *)
HelperKeepsDir == helpers \subseteq dirs

(* Runtime directories are neither leaked nor removed too early, whoever is killed
   between an act and its record. *)
DirsKept == DirsRecorded /\ HelperKeepsDir

Abandoned(i) ==
    /\ failures = MaxFailures
    /\ pc[i] = "dead" /\ i \notin helpers
    /\ \E p \in Vms : pc[p] = "pass" /\ i \in todo[p]

(* Once nothing fails any more, a launch that lists a dead owner gets rid of all
   it recorded, unless a helper of that owner still runs (reclaim.rs 993-1075). *)
AbandonedIsReclaimed == \A i \in Vms : Abandoned(i) ~> (rec[i] = NoRecord /\ i \notin dirs)

(* A launch gets through its pass and its setup: it waits for no live owner, and
   the locks it does wait for are released. *)
LaunchesEnd == \A p \in Vms : (pc[p] = "pass") ~> (pc[p] \in {"running", "done", "dead"})
=============================================================================
