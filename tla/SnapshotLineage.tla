-------------------------- MODULE SnapshotLineage --------------------------
(***************************************************************************)
(* Memory snapshots and the chain of diffs they form: who creates a        *)
(* snapshot of which VM under which name, over which parent, and what the  *)
(* published memory.bin then holds.                                        *)
(*                                                                         *)
(* src/src/commands/snapshot.rs (cmd_snapshot_create), podman/snapshot.rs  *)
(* (create_podman_snapshot) and common.rs (create_snapshot_core and the    *)
(* generation locks).                                                      *)
(*                                                                         *)
(* Firecracker keeps the set of pages written since the VM's last save     *)
(* (variable dirty) and a Diff save writes just those.  The creator merges *)
(* them onto the memory.bin of the parent, which it knows by the NAME in   *)
(* the VM's state file (variable parent).  The image is the guest's memory *)
(* only if the parent's memory.bin is the VM's last saved memory.          *)
(*                                                                         *)
(* A creator is an `fcvm snapshot create` process (Clis) or the process    *)
(* that runs a VM, named by the VM, which takes the pre-start and startup  *)
(* snapshots of its cache.  The pause around a save is in                  *)
(* SnapshotBoundary: no guest runs in it, so a save is one step here.      *)
(***************************************************************************)
EXTENDS Integers, FiniteSets, FiniteSetsExt

CONSTANTS Vms, Clis,
          NameCount,          \* snapshot names, in the order of their paths
          PreKey, StartKey,   \* the names of the owners' cache entries, or NoName
          Pages,
          MaxWrites,          \* bound: guest writes
          MaxCreates,         \* bound: calls of `fcvm snapshot create`
          RetryLimit,         \* SNAPSHOT_LINEAGE_RETRY_LIMIT
          Features            \* what may happen, see AllFeatures

Names == 1 .. NameCount
NoName == 0
Creators == Clis \union Vms
AllFeatures ==
    {"owner",       \* owners take their cache snapshots
     "reuse",       \* `snapshot create` may name a snapshot that exists or did
     "restore",     \* VMs are restored from snapshots
     "delete",      \* `snapshots rm` and prune
     "disk_only",   \* `snapshot create --disk-only`
     "reboot",      \* a guest reboots in place
     "fail"}        \* a step of a create fails, or the creator is killed

ASSUME LineageAssumption ==
    /\ Vms # {} /\ Vms \intersect Clis = {}
    /\ NameCount \in Nat \ {0} /\ MaxWrites \in Nat /\ MaxCreates \in Nat
    /\ RetryLimit \in Nat \ {0}
    /\ PreKey \in Names \union {NoName} /\ StartKey \in Names \union {NoName}
    /\ Features \subseteq AllFeatures
    /\ "owner" \in Features => PreKey # NoName /\ StartKey # NoName

VARIABLES st,       \* of a VM: "new", "up" or "gone"
          mem,      \* its guest memory
          dirty,    \* the pages written since its last save or restore
          parent,   \* snapshot_name in its state file
          known,    \* snapshot_name in its owner's copy of the state
          due,      \* the cache snapshot its owner takes next, or "none"
          snap,     \* the snapshot directories
          job,      \* of a creator: where it is in its create
          dirlock,  \* the generation locks it holds
          vmlock,   \* whether it holds the per-VM snapshot lock
          clock, creates, used

vars == <<st, mem, dirty, parent, known, due, snap, job, dirlock, vmlock,
          clock, creates, used>>
vmVars == <<st, mem, dirty, parent, known, due, clock>>

Image == [Pages -> 0 .. MaxWrites]
Zero == [pg \in Pages |-> 0]

(* A snapshot directory: absent, without a memory.bin, or with one.  guest is
   history: the guest memory at the pause the image was saved in. *)
NoSnap == [kind |-> "none", mem |-> Zero, guest |-> Zero]
DiskOnly == [kind |-> "disk", mem |-> Zero, guest |-> Zero]
Snaps == [kind : {"none", "disk", "memory"}, mem : Image, guest : Image]
HasMemory(n) == n # NoName /\ snap[n].kind = "memory"

PCs == {"idle", "lock", "vmlock", "check", "clear", "stage", "save", "merge",
        "publish", "record", "release", "record_late"}
Jobs ==
    [pc : PCs, vm : Vms, target : Names, parent : Names \union {NoName},
     diskOnly : BOOLEAN, mode : {"full", "inplace", "diff"}, pages : SUBSET Pages,
     img : Image, guest : Image, retries : 0 .. RetryLimit - 1]
(* The job of a creator of VM v as target n over par, before its first step. *)
NewJob(pc, v, n, par, d) ==
    [pc |-> pc, vm |-> v, target |-> n, parent |-> par, diskOnly |-> d, mode |-> "full",
     pages |-> {}, img |-> Zero, guest |-> Zero, retries |-> 0]
Idle == NewJob("idle", CHOOSE v \in Vms : TRUE, 1, NoName, FALSE)

TypeOK ==
    /\ st \in [Vms -> {"new", "up", "gone"}]
    /\ mem \in [Vms -> Image] /\ dirty \in [Vms -> SUBSET Pages]
    /\ parent \in [Vms -> Names \union {NoName}] /\ known \in [Vms -> Names \union {NoName}]
    /\ due \in [Vms -> {"pre", "startup", "none"}]
    /\ snap \in [Names -> Snaps]
    /\ job \in [Creators -> Jobs]
    /\ dirlock \in [Creators -> [Names -> {"none", "shared", "exclusive"}]]
    /\ vmlock \in [Creators -> BOOLEAN]
    /\ clock \in 0 .. MaxWrites /\ creates \in 0 .. MaxCreates /\ used \subseteq Names

Unlocked == [n \in Names |-> "none"]

Init ==
    /\ st = [v \in Vms |-> "new"]
    /\ mem = [v \in Vms |-> Zero] /\ dirty = [v \in Vms |-> {}]
    /\ parent = [v \in Vms |-> NoName] /\ known = [v \in Vms |-> NoName]
    /\ due = [v \in Vms |-> "none"]
    /\ snap = [n \in Names |-> NoSnap]
    /\ job = [a \in Creators |-> Idle]
    /\ dirlock = [a \in Creators |-> Unlocked] /\ vmlock = [a \in Creators |-> FALSE]
    /\ clock = 0 /\ creates = 0 /\ used = {}

-----------------------------------------------------------------------------
(* The VMs.                                                                *)

(* `fcvm podman run` on a cache miss: a cold boot, whose first cache snapshot
   is the pre-start one. *)
Boot(v) ==
    /\ st[v] = "new"
    /\ st' = [st EXCEPT ![v] = "up"]
    /\ due' = [due EXCEPT ![v] = IF "owner" \in Features THEN "pre" ELSE "none"]
    /\ UNCHANGED <<mem, dirty, parent, known, snap, job, dirlock, vmlock, clock, creates, used>>

(* `fcvm snapshot run`: the shared generation lock is held from reading
   config.json until the VMM has loaded the memory. *)
Restore(v, n) ==
    /\ "restore" \in Features
    /\ st[v] = "new" /\ HasMemory(n)
    /\ \A a \in Creators : dirlock[a][n] # "exclusive"
    /\ st' = [st EXCEPT ![v] = "up"]
    /\ mem' = [mem EXCEPT ![v] = snap[n].mem]
    /\ parent' = [parent EXCEPT ![v] = n] /\ known' = [known EXCEPT ![v] = n]
    /\ due' = [due EXCEPT ![v] = IF "owner" \in Features THEN "startup" ELSE "none"]
    /\ UNCHANGED <<dirty, snap, job, dirlock, vmlock, clock, creates, used>>

(* The guest writes a page. *)
GuestWrite(v, pg) ==
    /\ st[v] = "up" /\ clock < MaxWrites
    /\ clock' = clock + 1
    /\ mem' = [mem EXCEPT ![v][pg] = clock + 1]
    /\ dirty' = [dirty EXCEPT ![v] = @ \union {pg}]
    /\ UNCHANGED <<st, parent, known, due, snap, job, dirlock, vmlock, creates, used>>

(* The owner's own records of the parent ignore a failed update_state. *)
RecordIgnored == "fail" \in Features /\ UNCHANGED parent

(* The guest reboots and its owner, in its event loop and so not in a create of
   its own, starts a new VMM: memory and dirty set start over.  The parent is
   cleared first, without the per-VM snapshot lock. *)
Reboot(v) ==
    /\ "reboot" \in Features
    /\ st[v] = "up" /\ job[v].pc = "idle"
    /\ parent' = [parent EXCEPT ![v] = NoName] \/ RecordIgnored
    /\ known' = [known EXCEPT ![v] = NoName]
    /\ due' = [due EXCEPT ![v] = "none"]
    /\ mem' = [mem EXCEPT ![v] = Zero] /\ dirty' = [dirty EXCEPT ![v] = {}]
    /\ UNCHANGED <<st, snap, job, dirlock, vmlock, clock, creates, used>>

(* The VM's owner exits, with the create it may be in; its state file goes. *)
Exit(v) ==
    /\ st[v] = "up"
    /\ st' = [st EXCEPT ![v] = "gone"]
    /\ job' = [job EXCEPT ![v] = Idle]
    /\ dirlock' = [dirlock EXCEPT ![v] = Unlocked] /\ vmlock' = [vmlock EXCEPT ![v] = FALSE]
    /\ UNCHANGED <<mem, dirty, parent, known, due, snap, clock, creates, used>>

(* delete_snapshot, and prune's delete_snapshot_if_generation: under the
   exclusive generation lock; the lock file stays. *)
delete_snapshot(n) ==
    /\ "delete" \in Features
    /\ snap[n].kind # "none"
    /\ \A a \in Creators : dirlock[a][n] = "none"
    /\ snap' = [snap EXCEPT ![n] = NoSnap]
    /\ UNCHANGED <<vmVars, job, dirlock, vmlock, creates, used>>

-----------------------------------------------------------------------------
(* Creators: from the call to the locks.                                   *)

Goto(a, label) == job' = [job EXCEPT ![a].pc = label]

(* `fcvm snapshot create` of v as n: the parent it expects is the one it reads
   now, without a lock. *)
cmd_snapshot_create(a, v, n, d) ==
    /\ a \in Clis /\ job[a].pc = "idle" /\ creates < MaxCreates
    /\ st[v] = "up"
    /\ "reuse" \in Features \/ n \notin used \union {PreKey, StartKey}
    /\ d => "disk_only" \in Features
    /\ job' = [job EXCEPT ![a] = NewJob("lock", v, n, parent[v], d)]
    /\ creates' = creates + 1 /\ used' = used \union {n}
    /\ UNCHANGED <<vmVars, snap, dirlock, vmlock>>

Key(v) == IF due[v] = "pre" THEN PreKey ELSE StartKey
NextDue(v) == IF due[v] = "pre" THEN "startup" ELSE "none"

(* The owner's pre-start snapshot, when the guest asks, and its startup snapshot,
   when the VM is healthy; the latter is skipped if its name exists.  It expects
   the parent in its own copy of the state. *)
create_podman_snapshot(v) ==
    /\ st[v] = "up" /\ due[v] # "none" /\ job[v].pc = "idle"
    /\ IF due[v] = "startup" /\ snap[StartKey].kind # "none"
       THEN due' = [due EXCEPT ![v] = "none"] /\ UNCHANGED job
       ELSE /\ job' = [job EXCEPT ![v] = NewJob("lock", v, Key(v), known[v], FALSE)]
            /\ UNCHANGED due
    /\ UNCHANGED <<st, mem, dirty, parent, known, clock, snap, dirlock, vmlock, creates, used>>

(* snapshot_create_lock_requests: the target, and a distinct parent. *)
Requests(a) == {job[a].target} \union ({job[a].parent} \ {NoName})

(* Mutant: the target is locked first, whatever its place in the order. *)
NextRequest_TargetFirst(a) ==
    IF dirlock[a][job[a].target] = "none" THEN job[a].target ELSE job[a].parent

(* The locks are taken in the order of their paths. *)
NextRequest(a) == Min({n \in Requests(a) : dirlock[a][n] = "none"})

DirMode(a, n) == IF n = job[a].target THEN "exclusive" ELSE "shared"

(* try_lock: no other creator's lock is in the way. *)
Grantable(a, n) ==
    \A b \in Creators \ {a} :
        \/ dirlock[b][n] = "none"
        \/ dirlock[b][n] = "shared" /\ DirMode(a, n) = "shared"

(* acquire_snapshot_dir_lock polls try_lock until it is granted. *)
acquire_snapshot_dir_lock(a) ==
    /\ job[a].pc = "lock"
    /\ LET n == NextRequest(a)
       IN  /\ Grantable(a, n)
           /\ dirlock' = [dirlock EXCEPT ![a][n] = DirMode(a, n)]
           /\ IF \E m \in Requests(a) \ {n} : dirlock[a][m] = "none"
              THEN UNCHANGED job
              ELSE Goto(a, "vmlock")
    /\ UNCHANGED <<vmVars, snap, vmlock, creates, used>>

(* Every return of a creator gives its locks back; an owner's cache snapshot is
   attempted once. *)
Return(a) ==
    /\ job' = [job EXCEPT ![a] = Idle]
    /\ dirlock' = [dirlock EXCEPT ![a] = Unlocked] /\ vmlock' = [vmlock EXCEPT ![a] = FALSE]
    /\ due' = IF a \in Vms THEN [due EXCEPT ![a] = NextDue(a)] ELSE due

(* Mutant: the cache entry of another VM is recorded as this VM's parent. *)
KeepInstalled_Recorded(a) ==
    /\ parent' = [parent EXCEPT ![a] = job[a].target]
    /\ known' = [known EXCEPT ![a] = job[a].target]

(* SnapshotOutcome::Existing leaves the VM's parent alone (#1231). *)
KeepInstalled(a) == UNCHANGED <<parent, known>>

(* The owner's cache entry is there already. *)
Installed(a) == a \in Vms /\ snap[job[a].target].kind # "none"

(* With the generation locks held an owner keeps a cache entry that another VM
   installed meanwhile; a creator goes on to the per-VM lock. *)
keeps_installed_generation(a) ==
    /\ job[a].pc = "vmlock" /\ Installed(a)
    /\ Return(a)
    /\ KeepInstalled(a)
    /\ UNCHANGED <<st, mem, dirty, clock, snap, creates, used>>

VmLockFree(a) == \A b \in Creators \ {a} : vmlock[b] => job[b].vm # job[a].vm

acquire_vm_snapshot_lock(a) ==
    /\ job[a].pc = "vmlock" /\ ~Installed(a)
    /\ VmLockFree(a)
    /\ vmlock' = [vmlock EXCEPT ![a] = TRUE]
    /\ Goto(a, "check")
    /\ UNCHANGED <<vmVars, snap, dirlock, creates, used>>

(* `snapshot create` gives up when its RetryLimit-th round fails too. *)
record_snapshot_lineage_retry(a) == a \in Clis => job[a].retries + 1 < RetryLimit

FirstStep(a) == IF a \in Clis /\ ~job[a].diskOnly THEN "clear" ELSE "stage"

(* Mutant: the parent read before the locks is trusted. *)
CheckLineage_Trusting(a) ==
    /\ job[a].pc = "check" /\ st[job[a].vm] = "up"
    /\ Goto(a, FirstStep(a))
    /\ UNCHANGED <<vmVars, snap, dirlock, vmlock, creates, used>>

(* The state is read again under the locks.  A parent that moved meanwhile
   releases them and starts over with it.  A VM that is gone fails validate_snapshot_vm_identity. *)
CheckLineage(a) ==
    LET j == job[a]
        current == parent[j.vm]
    IN  /\ j.pc = "check"
        /\ \/ /\ st[j.vm] = "up" /\ current = j.parent
              /\ Goto(a, FirstStep(a))
              /\ UNCHANGED <<due, dirlock, vmlock>>
           \/ /\ st[j.vm] = "up" /\ current # j.parent
              /\ record_snapshot_lineage_retry(a)
              /\ job' = [job EXCEPT ![a].pc = "lock", ![a].parent = current,
                                    ![a].retries = IF a \in Clis THEN @ + 1 ELSE @]
              /\ dirlock' = [dirlock EXCEPT ![a] = Unlocked]
              /\ vmlock' = [vmlock EXCEPT ![a] = FALSE]
              /\ UNCHANGED due
           \/ /\ \/ st[j.vm] # "up"
                 \/ current # j.parent /\ ~record_snapshot_lineage_retry(a)
              /\ Return(a)
        /\ UNCHANGED <<st, mem, dirty, parent, known, clock, snap, creates, used>>

-----------------------------------------------------------------------------
(* Creators: the create itself, under the locks.                           *)

(* Mutant: the parent is left recorded over the save. *)
ClearParent_Skipped(a) ==
    /\ job[a].pc = "clear"
    /\ Goto(a, "stage")
    /\ UNCHANGED <<vmVars, snap, dirlock, vmlock, creates, used>>

(* record_diff_parent(None): `snapshot create` clears the parent before the save
   consumes the dirty set, so that a create that fails later leaves none. *)
ClearParent(a) ==
    /\ job[a].pc = "clear"
    /\ Goto(a, "stage")
    /\ parent' = [parent EXCEPT ![job[a].vm] = NoName]
    /\ UNCHANGED <<st, mem, dirty, known, due, clock, snap, dirlock, vmlock, creates, used>>

(* create_snapshot_core up to the pause.  A parent that still has a memory.bin
   makes the snapshot a diff: onto a clone of the base made now, or a sparse
   file merged later, as the file system allows. *)
Stage(a) ==
    LET j == job[a]
    IN  /\ j.pc = "stage"
        /\ \/ j.diskOnly /\ Goto(a, "publish")
           \/ ~j.diskOnly /\ ~HasMemory(j.parent)
              /\ job' = [job EXCEPT ![a].pc = "save", ![a].mode = "full"]
           \/ ~j.diskOnly /\ HasMemory(j.parent)
              /\ \/ job' = [job EXCEPT ![a].pc = "save", ![a].mode = "diff"]
                 \/ job' = [job EXCEPT ![a].pc = "save", ![a].mode = "inplace",
                                       ![a].img = snap[j.parent].mem]
        /\ UNCHANGED <<vmVars, snap, dirlock, vmlock, creates, used>>

Merge(base, guest, pages) == [pg \in Pages |-> IF pg \in pages THEN guest[pg] ELSE base[pg]]

(* The pause, the save and the resume: the save writes every page or the dirty
   ones and empties the dirty set.  A diff below the minimum size is taken for
   lost dirty tracking and saved again in full. *)
Save(a) ==
    LET j == job[a]
        guest == mem[j.vm]
        full == j.mode = "full" \/ dirty[j.vm] = {}
    IN  /\ j.pc = "save" /\ st[j.vm] = "up"
        /\ dirty' = [dirty EXCEPT ![j.vm] = {}]
        /\ job' = [job EXCEPT ![a].pc = IF ~full /\ j.mode = "diff" THEN "merge" ELSE "publish",
                              ![a].img = CASE full -> guest
                                           [] ~full /\ j.mode = "inplace" -> Merge(@, guest, dirty[j.vm])
                                           [] OTHER -> @,
                              ![a].pages = IF full THEN {} ELSE dirty[j.vm],
                              ![a].guest = guest]
        /\ UNCHANGED <<st, mem, parent, known, due, clock, snap, dirlock, vmlock, creates, used>>

(* After the resume the sparse diff is merged onto a copy of the parent's
   memory.bin. *)
MergeDiff(a) ==
    LET j == job[a]
    IN  /\ j.pc = "merge"
        /\ job' = [job EXCEPT ![a].pc = "publish",
                              ![a].img = Merge(snap[j.parent].mem, j.guest, j.pages)]
        /\ UNCHANGED <<vmVars, snap, dirlock, vmlock, creates, used>>

(* publish_snapshot_dir: config.json, then the directory swap. *)
Publish(a) ==
    LET j == job[a]
    IN  /\ j.pc = "publish"
        /\ snap' = [snap EXCEPT ![j.target] =
                       IF j.diskOnly THEN DiskOnly
                       ELSE [kind |-> "memory", mem |-> j.img, guest |-> j.guest]]
        /\ Goto(a, IF a \in Clis /\ ~j.diskOnly THEN "record" ELSE "release")
        /\ UNCHANGED <<vmVars, dirlock, vmlock, creates, used>>

RecordParent(v, n) ==
    parent' = IF st[v] = "up" THEN [parent EXCEPT ![v] = n] ELSE parent

(* `snapshot create` records the parent under its locks, then releases them. *)
RecordAndRelease(a) ==
    /\ job[a].pc = "record"
    /\ RecordParent(job[a].vm, job[a].target)
    /\ Goto(a, "release")
    /\ UNCHANGED <<st, mem, dirty, known, due, clock, snap, dirlock, vmlock, creates, used>>

(* A disk-only create is done with its locks; an owner releases its locks in
   create_podman_snapshot and its caller records the parent afterwards. *)
Release(a) ==
    /\ job[a].pc = "release"
    /\ IF a \in Clis
       THEN Return(a)
       ELSE /\ Goto(a, "record_late")
            /\ dirlock' = [dirlock EXCEPT ![a] = Unlocked]
            /\ vmlock' = [vmlock EXCEPT ![a] = FALSE]
            /\ UNCHANGED due
    /\ UNCHANGED <<st, mem, dirty, parent, known, clock, snap, creates, used>>

(* The caller of an owner's create. *)
RecordLate(a) ==
    /\ job[a].pc = "record_late"
    /\ \/ RecordParent(job[a].vm, job[a].target)
       \/ RecordIgnored
    /\ known' = [known EXCEPT ![a] = job[a].target]
    /\ Return(a)
    /\ UNCHANGED <<st, mem, dirty, clock, snap, creates, used>>

(* A step fails, or a `snapshot create` is killed: the locks go back.  A save
   that failed, and a save whose disk copy or resume failed, may have emptied
   the dirty set.  A failed swap may have moved the old directory away. *)
Fail(a) ==
    LET j == job[a]
    IN  /\ "fail" \in Features
        /\ j.pc \notin {"idle", "release", "record_late"}
        /\ Return(a)
        /\ dirty' \in {dirty} \union
               (IF j.pc = "save" /\ st[j.vm] = "up" THEN {[dirty EXCEPT ![j.vm] = {}]} ELSE {})
        /\ snap' \in {snap} \union
               (IF j.pc = "publish" THEN {[snap EXCEPT ![j.target] = NoSnap]} ELSE {})
        /\ UNCHANGED <<st, mem, parent, known, clock, creates, used>>

(* The VMM is gone at the save: its socket refuses. *)
SaveRefused(a) ==
    /\ job[a].pc = "save" /\ st[job[a].vm] # "up"
    /\ Return(a)
    /\ UNCHANGED <<st, mem, dirty, parent, known, clock, snap, creates, used>>

-----------------------------------------------------------------------------
Step(a) ==
    \/ acquire_snapshot_dir_lock(a) \/ keeps_installed_generation(a)
    \/ acquire_vm_snapshot_lock(a) \/ CheckLineage(a)
    \/ ClearParent(a) \/ Stage(a) \/ Save(a) \/ SaveRefused(a) \/ MergeDiff(a)
    \/ Publish(a) \/ RecordAndRelease(a) \/ Release(a) \/ RecordLate(a)

Next ==
    \/ \E a \in Creators : Step(a) \/ Fail(a)
    \/ \E a \in Clis, v \in Vms, n \in Names, d \in BOOLEAN : cmd_snapshot_create(a, v, n, d)
    \/ \E v \in Vms : Boot(v) \/ Reboot(v) \/ Exit(v) \/ create_podman_snapshot(v)
    \/ \E v \in Vms, n \in Names : Restore(v, n)
    \/ \E v \in Vms, pg \in Pages : GuestWrite(v, pg)
    \/ \E n \in Names : delete_snapshot(n)

Spec == Init /\ [][Next]_vars

-----------------------------------------------------------------------------
(* PROPERTIES                                                              *)

(* Every published memory.bin is the memory its guest had at the pause it was
   saved in, however many diffs it was built from and whatever creates, deletes,
   restores and failures came between: create_snapshot_core's merge base is the
   VM's immediate parent. *)
PublishedIsGuest ==
    \A n \in Names : snap[n].kind = "memory" => snap[n].mem = snap[n].guest

(* Whenever a VM's state names a parent that has a memory.bin, that image plus
   the pages in the dirty set is the guest's memory: the next diff is sound.
   `snapshot create` clears the parent before the save for this. *)
ParentReproduces ==
    \A v \in Vms :
        st[v] = "up" /\ HasMemory(parent[v])
            => Merge(snap[parent[v]].mem, mem[v], dirty[v]) = mem[v]

(* A creator waits for the lock of another one: every other step of a create can
   be taken at once. *)
WaitsForLock(a) ==
    \/ job[a].pc = "lock" /\ ~Grantable(a, NextRequest(a))
    \/ job[a].pc = "vmlock" /\ ~Installed(a) /\ ~VmLockFree(a)

(* While creates are under way some creator can go on: creators that name each
   other's parents as targets never wait for each other's generation locks in a
   circle, since snapshot_create_lock_requests sorts them, and who has the per-VM
   lock waits for none. *)
SomeCreatorMoves ==
    (\E a \in Creators : job[a].pc # "idle")
        => \E a \in Creators : job[a].pc # "idle" /\ ~WaitsForLock(a)
=============================================================================
