# Formal models of fcvm

TLA+ specifications of the parts of fcvm in which several processes, threads or
tasks meet over shared files, locks and a VM that may be paused, rebooted or
killed under them, with the TLC runs that check them and the TLAPS proofs about
them. fcvm runs Podman containers in Firecracker or Cloud Hypervisor microVMs and
clones them from memory snapshots. There is no daemon: every command is a process
of its own, and they coordinate through files, `flock(2)` and Unix sockets under
one data directory. Inside a process, tokio tasks share atomics and channels;
across the VM's boundary, a guest agent and a fault handler talk to them. That is
where its hard behaviour is, and what these modules are about.

Paths below are relative to `src/src/` unless they begin with `fc-agent/` or
`fuse-pipe/`.

## 1. The system

| Part | State | Operations | Meets |
|---|---|---|---|
| VM state files, `state/manager.rs` | `<vm>.json`, `.json.tmp`, `.json.lock` | save, update, delete, sweep, locked inspection | every command; the owner's health monitor |
| State registry, same file | the set of state files, `names.lock`, `loopback-ip.lock` | claim a name, allocate a loopback IP, sweep, list, find by name or PID | launches, `ls`, `exec` |
| Lifecycle gate and signals, `commands/common.rs` | phase and token of each gate, the process's shutdown flag | publish readiness, cancel, register | launch, run loop, restore, teardown |
| Run loop, `commands/podman/mod.rs` | VMM child, cache and startup channels, power-off watchdog | wait, snapshot, reboot in place, converge on a restore, tear down | status listener, health monitor, guest |
| Status channel, `commands/podman/listeners.rs`, `types.rs`; `fc-agent/src/vsock.rs` | verdict cell, reboot and exit flags, ready and exit files | ready, exit, reboot, cache ask, drain probe | run loop, guest agent |
| Health monitor, `health.rs` | last status | check, trigger the startup snapshot, persist | run loop, state file |
| fc-agent's cache handshake, `fc-agent/src/container.rs` | one session per ask | ask, wait, ask again when severed, give up | status channel, snapshots |
| Snapshot creation, `commands/common.rs`, `commands/snapshot.rs`, `commands/podman/snapshot.rs` | snapshot directories, generation locks, per-VM lock, recorded diff parent | `snapshot create`, pre-start and startup cache snapshots | VMM, state file, guest agent, other creators |
| Pause boundary, `create_snapshot_core`, `create_snapshot_ch` | VM running or paused, guest gate, vsock epoch | gate, pause, save, copy disks, bump, resume, reopen | guest agent, exec sessions |
| exec, `commands/exec.rs`, `fc-agent/src/exec.rs` | a connection, an epoch, a handshake | connect, send, ACK, GO, stream, exit | pause boundary |
| Reclaim records, `reclaim.rs` | owner lock and record per VM id | begin, record, forget, complete, reclaim the abandoned | launches, network, disks |
| Bridged network, `network/bridged.rs`, `names.rs`, `portmap.rs` | namespaces, veths and NAT rules by name, two host-wide locks | set up, clean up | reclaim records, other VMs |
| UFFD memory server, `uffd/server.rs`, `prefetch.rs` | one fault handler per clone, its workers and gate, removed pages | answer faults, replay the working set, follow the balloon, fail closed | kernel, the clone's VMM |
| Snapshot store, `storage/snapshot.rs`, `commands/snapshots.rs` | snapshot directories | publish, delete, prune, list | creators, restores |
| Restore and clone, `commands/snapshot.rs`, `fc-agent/src/restore.rs` | a new VM, restore epochs | `snapshot run` | store, UFFD server, guest agent |
| fuse-pipe, `fuse-pipe/src/client/multiplexer.rs`, `server/pipelined.rs` | request channel, map of pending requests, connections with a generation | send, answer, forget, reconnect, send again, fail all | guest mounts, volume server, snapshots that reset connections |
| Other networks, storage, images, GPU, sandbox server, fleet, setup, CLI | see PROJECT.json | mostly commands and I/O | launch |

What makes each modelled part correct:

* a state file is a register: no update is lost, torn, or brought back;
* a published snapshot is the memory the guest had at its pause, and the recorded
  parent plus the dirty pages reproduce the guest;
* an image is of one instant, the source VM runs on after a create, and a command
  runs at most once although snapshots cut connections;
* resources of a killed owner are reclaimed, and never a live VM's;
* a cancelled run never counts as ready, a container runs in one VM only, a
  reboot relaunches and an exit ends, and the reported code is the current guest's;
* a clone's page holds the snapshot's bytes or, once given back, zeros; every
  fault is answered or the VMM is killed;
* names and loopback addresses have one VM each, a listing misses none, and nobody
  removes the state of a VM that is up;
* every file request is answered or failed although connections are reset, a forget
  counts once, and a working connection is not replaced.

Behaviours that tests hardly reach:

* a waiter is granted the flock of a lock file that was unlinked meanwhile;
* a task is aborted at an `await` whose blocking call still runs later;
* a value (the diff parent, the vsock epoch, the verdict, the generation of the
  balloon's removals) is read before a lock, a pause or a copy and used after it;
* a save consumes the dirty-page set although a later step of the create fails;
* a reply is lost, so that it is unknown whether a pause or a guest command took
  effect;
* a snapshot silently cuts a connection: neither end gets an error;
* a request is sent again while its first copy is still somewhere;
* a process is killed, or the host rebooted, between an act and its record;
* the VMM's exit is seen before the message that explains it;
* creators, queues and handlers wait for each other;
* a directory is listed while its files are renamed, made and removed;
* the notice of a dead connection arrives after the connection was replaced.

PROJECT.json lists them, at their lines, with the properties that would catch
them.

## 2. Modules

| Module | Models | Composed with |
|---|---|---|
| `VmStateRegister` | abstract specification of a state file: a register saved by its owner, updated field by field, removed after the owner's end | implemented by `StateFile` |
| `StateFile` | `state/manager.rs` on one VM's three files, one action per system call | `Reg == INSTANCE VmStateRegister` |
| `StateFileProofs` | theorems about `StateFile` | extends it |
| `SnapshotLineage` | creators, generation locks, dirty set, diff parent, published images | its save is the pause of `SnapshotBoundary` |
| `SnapshotLineageProofs` | theorems about `SnapshotLineage` | extends it |
| `SnapshotBoundary` | the pause of one VM, and exec sessions through it | its bump is an update of `StateFile` |
| `SnapshotBoundaryProofs` | theorems about `SnapshotBoundary` | extends it |
| `Reclaim` | owner records and the bridged network together, over several launches | its launches are the processes that run `RunLoop` |
| `ReclaimProofs` | theorems about `Reclaim` | extends it |
| `RunLoop` | gate, signals, run loop, status listener, watchdog, health monitor and guest of one run | its cache snapshots are `SnapshotLineage`'s owner creates |
| `RunLoopProofs` | theorems about `RunLoop` | extends it |
| `UffdClone` | the memory service of one clone with its workers, and the kernel under it | a clone is a restore of `SnapshotLineage` |
| `UffdCloneProofs` | theorems about `UffdClone` | extends it |
| `StateRegistry` | the state directory of all VMs: names, addresses, sweeps, listings and lookups | each operation on one VM's files is one of `StateFile`'s, in one or two steps |
| `StateRegistryProofs` | theorems about `StateRegistry` | extends it |
| `FusePipe` | multiplexer and volume server over successive connections | its resets are the cuts of `SnapshotBoundary` |
| `FusePipeProofs` | theorems about `FusePipe` | extends it |
| `MC*` | model values, command lines and symmetry sets for TLC | |

### StateFile

`state`, `tmp` and `lock` are the three files; `lock` is the inode that the path
names, `fd` and `held` the inode a process has open and the flock it holds on
it. An operation starts with `save_state`, `update_state`, `delete_state`,
`cleanup_stale_state` or `with_locked_state` and then takes one action per
system call: open, flock, comparison of the inode with the path's, read, write
of the temporary file, rename, the three unlinks, unlock. Every call may fail
where the code returns its error. `Kill*` ends a process between any two calls,
or inside a write, which leaves a prefix (`Torn`). The owner has a teardown
(`cleanup_vm`), becomes a zombie and is reaped; `delete_state` by others asks
for an owner that is not live, the sweep for a PID that does not exist, and the
two differ on a zombie, as in the code. `stop_health_monitor` aborts a monitor
that misses its budget: its flock goes at once, its queued `tokio::fs` call runs
later (`OrphanCall`).

A state is abstracted to a count of updates per process: enough to see a lost,
duplicated or resurrected write. `update_health_status` and `bump_vsock_epoch`
are updates of one entry. A `chmod` that fails leaves a whole temporary file, as does a
rename that fails.

### SnapshotLineage

A VM has guest memory (`mem`), the pages written since its last save (`dirty`)
and the diff parent in its state file (`parent`). A creator is an
`fcvm snapshot create` (`Clis`) or a VM's owner taking its pre-start and startup
snapshots. It reads the parent, takes the generation locks in path order
(`acquire_snapshot_dir_lock`), the per-VM lock, reads the parent again
(`CheckLineage`), clears it (`snapshot create` only), saves in full, as a sparse
diff or in place on a clone of the base, merges, publishes and records. Owners
release the locks first and record afterwards, as the code does. Guests write
and reboot, VMs are restored from snapshots, snapshots are deleted, and any step
may fail; the owner ignores a failed update of its state file (`RecordIgnored`), so the
parent it knows and the recorded one may then differ. `Features` selects which of these a run explores. `guest` in a
snapshot is history: the memory at the pause it was saved in.

The pages stand for the guest's memory, a write for the clock value it stores.
A diff that is empty stands for one below the minimum size, which the code
retakes in full.

### SnapshotBoundary

The creator's program counter goes through the steps of `create_snapshot_core`;
`create_snapshot_ch` has the same order. Each may fail, and an ambiguous one
(the guest command, the pause, the resume) may have had its effect. `After` is
the order of the steps inside the pause. `work` is what memory and disks hold,
so an image whose `mem` and `disk` differ is not of one instant. A session has
one connection per attempt, with the lines in flight on it and the guest's
handler; `CutAll` is the reset at a save, which loses what the guest has not
read and, per session, what has not reached the host. Time-outs are always
possible, so they race with every answer.

Not in this module: the parent and the locks (`SnapshotLineage`), the frames
after GO other than the exit, TTYs and window grants.

### Reclaim

One process per VM. It runs a pass over the ids that have a lock file or a record
(`reclaim_abandoned`: skip those whose lock is held, undo the others), owns its own
id (`Owner::begin`), and builds: it records each resource before it creates it,
forgets a kernel object before it deletes it, and removes the record before the
lock file, each a step of its own. Lock files are inodes: a pass may unlink the
file that another process has opened, so `TakeLock` compares the inode with the
name's, as the code does. A helper (`mkfs.ext4`) inherits the descriptor and with
it the flock. `undo_all` pops newest first, keeps what it could not undo, and
forgets kernel objects recorded under an older boot without touching them. The
NAT rules are shared and guarded by `bridged-nat.lock`; names are competed for
under `bridged-subnet.lock`. Every command, write or unlink may fail, a veth's creation
also with the veth made, and a record that cannot be read is left alone
(`SkipUnreadable`); a process may be
killed between any two steps, and the host may reboot, which takes processes,
namespaces, veths and rules and leaves the files; `MaxFailures` bounds all these
together.

A veth stands for itself and the rules and routes that name it; the directory
stands for everything below it.

### RunLoop

`main` is the program counter of the run: set-up, the claim of the gate, the
select loop with its arms, the cache snapshot, the startup snapshot, the reboot,
the teardown, the restore of a converging run. The arms of the select can be taken
in any order, as tokio's unbiased `select!` may. Beside it run the status
listener (one connection at a time; a cache ask blocks it until the verdict), the
watchdog's tracker with its generation, the health monitor, the signal handler and
the guest. Command lines are constants: with or without snapshots, nested
virtualisation, `--gpu`, a startup snapshot, the balloon check, a TTY. A converging run
restores its own snapshot (`CacheResumed`) or one that another process installed first,
without a pause (`CacheExisting`); a watchdog whose kill fails ends the run with an
error.

Where the code holds a flag or a file, the model holds the boot of the message that
set it, which only the properties read. The guest may send what it sends late, in
any order the channel allows, or never; it may reboot, stop without a word, hang in
its power-off, and give up its handshake. Another process may snapshot the VM while
an ask waits (`MaxSevers`), after which the guest asks again.

Where the properties make exceptions, `hist` records them: a guest that started its
container without an answer after its ten minutes (`gaveUp`), a listener that was
still blocked on an ask when the drain probe's two seconds ended (`stuck`), an exit
message of the old guest that the listener handled after the relaunch had cleared the
flag and the file (`late`), and a relaunch that failed after that clearing
(`cleared`). The properties say what holds outside them.

### UffdClone

The handler is the task of `handle_vm_page_faults`: it reads the userfaultfd,
applies the REMOVE of a read before it answers the faults of that read, hands
faults to the fault workers or answers them itself, parks those the kernel refuses
while it changes the mapping, and between reads plans and dispatches the recorded
set to the replay workers through a bounded queue. A fill is three steps, as in the
code: enter the gate, compare the generation, copy. Reading a REMOVE closes the
gate, waits for those inside, and moves the generation; what was planned or queued
under an older one comes back stale. The select is biased, so the later arms need an
fd that is not readable.

A page is one piece of `COPY_BYTES`; a chunk or a segment may end after any page. It
is absent, holds the snapshot's bytes, or zeros. The kernel is external and modelled
by what the code relies on: a vCPU looks at the page, then sleeps on its fault, and
may be woken before it slept; `madvise` queues a REMOVE and fills are refused
(`EAGAIN`) until the event is read and the balloon's thread has lowered `mmap_changing`
(`LowerFlag`); it drops the pages in a later step (`Zap`), and a fill that lands in
between goes with them without a second REMOVE, which is why a fill takes no granule
out of `RemovedPages`; a fill of a present page is `EEXIST` and leaves the waking to the
service; the exit of the VMM takes its memory and threads.

The service fails when an answer, a retry or a worker's fill does (`ServiceFails`,
`WorkerFailed`); it then joins the replay workers, kills the VMM and drops the fault
workers, in that order. A replay worker reports a job it did or a VM that is gone, and
only the latter tells the handler so (`OutcomeReported`); a queue without workers drops
the pool, and the handler copies alone (`PoolGone`).

### StateRegistry

A launch (`Vms`) goes through `claim_name`, `allocate_loopback_ip` if its network
wants an address, and `save_vm_state_with_network`, each of which ends in
`save_state` with its sweep of states under the same PID. `claim_name` holds
`names.lock`, and the allocation `loopback-ip.lock`, from before the listing until
the state is written. A listing (`list_vms`) opens the directory, reads its entries
and then reads each state file by its path, as separate steps between which anybody
may save, rewrite or remove a file. On btrfs a scan misses an entry that was made or
renamed after the open, so `seenState` loses a VM whenever its file is replaced;
`seenLock` does not, which is why `list_vms` looks at the lock files too. A process
has a PID and a start time; a later one may get the PID of one that is gone, and one
process may launch several VMs (`fcvm serve`). `owner_is_live`, the test of
`cleanup_stale_state` and `pid_identity_matches` differ on zombies as in the code. A
process may exit at any step, which drops its locks and leaves its files. Who
launches what (processes, PIDs, names, who wants an address, whether reads may fail)
is the variable `plan`, chosen from `Plans` at the start and never changed. With
`ReadErrors` a directory or a file may fail to be read, with the consequences the
caller draws: `claim_name` fails, `save_state` skips its sweep, and
`allocate_loopback_ip` takes no address to be in use.

### FusePipe

A request goes from its caller into the bounded channel, into the map of pending
requests (not if it is a forget, which has no answer) and onto the current connection;
the server makes a task of each frame, and its response writer flushes a full batch,
the last response there is, or on its timer. `at[g][r]` is where the frame of request
r, or its answer, is on connection g. The variable `mode`, chosen from `Modes` at the
start and never changed, says which multiplexer it is, who calls and what may go
wrong. `Reconnectable` selects the multiplexer: with it a failed write, or the notice
of the current connection's reader, leads to `do_reconnect`, which opens the next
generation and sends what is in the map again; without it a failed write answers that
caller with EIO and a dead reader fails everybody in the map. Connections are reset at
any point (`LinkDown`, as a snapshot does), which loses any part of what is on its
way; what has reached the server is still run. `BadFrames` allows an answer that is
too large or cannot be parsed, which ends the reader and leaves the connection open.
`GivesUp` allows `do_reconnect` to use up its attempts.

## 3. Runs

| Run | Bounds | Shows |
|---|---|---|
| `state_file` | owner, monitor, two clients; 5 inodes; 1 update per process | `PayloadMutex`, `LockCoversState`, `InspectedIsCurrent` and the refinement of the register, with kills and errors |
| `state_file_live` | owner, monitor, one client; 4 inodes; monitors may be aborted; fair | `OpsReturn`: every operation returns although locks are unlinked under waiters |
| `state_file_resurrect` | same | **violated**, finding 1 |
| `lineage` | 1 VM, 2 creators, 2 names, 2 pages, 2 writes, 4 creates; names reused, deletion, disk-only, failures | `PublishedIsGuest`, `ParentReproduces`, and `SomeCreatorMoves`: no deadlock of crossing parents and targets |
| `lineage_cache` | 2 VMs whose owners have the same two keys; restores, reboots, failures | `PublishedIsGuest`: no cache entry of another VM becomes a base |
| `lineage_window` | 1 owner and 1 creator | **violated**, finding 2 |
| `boundary` | 1 session, 2 attempts, 2 snapshots, 1 unit of work, 1 recovery that fails; fair | `RunsAsReported` (`AtMostOnce` and `UnackedNeverRan`), `NoFalseAbort`, `OneInstant`, `SourceRestored`, and `SessionsEnd` unless a bump was lost |
| `reclaim` | 2 launches, 2 name bases, 3 inodes, any 2 failures, kills or reboots; fair | `OneActor`, `RunningIntact`, `DirsKept` (`DirsRecorded` and `HelperKeepsDir`), `AbandonedIsReclaimed`, `LaunchesEnd` |
| `run_loop` | 4 command lines, 1 signal, 1 reboot of the guest, 1 snapshot by another process; fair | `CancelledNeverReady`, `NoDoubleRun`, `HealthyNotPaused`, `RebootHonoured`, `ExitCodeIsCurrent`, `WatchdogSparesRelaunched`, `ShutdownStops`, `ExitEnds`, `AsksEnd` |
| `uffd_clone` | 1 vCPU, 2 pages, 1 fault worker, 1 replay worker, queue of 1, 1 range given back; each pool and the recorded set may be absent; fair | `PagesRight`, `EndsClean`, `FaultsAnswered`, `ServiceStops` |
| `registry` | 2 launches, 1 lookup, 1 address; 4 plans: one name in two processes, a PID that is used again, two VMs of one process, reads that fail | `ClaimsUnique` (`NamesUnique` and `IpsUnique`), `ListingsRight` (`ListsAll` and `ListsNameOnce`), `InstalledStays`, `HoldersGoOn` |
| `fuse` | 2 requests, 1 forget; 4 modes: plain, a server that does not come back, 1 reconnection with bad frames, 2 reconnections with giving up for 1 request and 1 forget; fair | `WaitersServed`, `ForgetsOnce`, `HealthyKept`, `AllAnswered` |

Each module has a type invariant, `TypeOK`. The runs leave it to the theorems of section
5, which prove it for every instance.

Why the bounds suffice. The inodes of `state_file` are one more than the
processes, so that every process can have a retired inode open while a new one
is published; one update per process is enough for one to be lost, and no step
compares counters. In `lineage` two names give a parent and a target that can
cross; two pages tell a page inside a diff from one outside; two writes put one
before and one after a save. `RetryLimit` is 64 in the code: with 2 both a retry and
the giving-up happen. `MaxAttempts` is 5 in the code; with 2 there is an attempt
that is followed by another and a last one, and the theorems hold for any number.
Two snapshots are needed for an epoch that is captured between them. Sessions share
no state but the epoch and the VM, so one is enough for TLC; the theorems are about
any number. In `reclaim` every interaction is between an owner and one other
process; a third inode lets a name be unlinked and recreated twice under an open
descriptor, two bases let a VM fall back to another name, and two failures allow a
kill during the recovery from a kill. In `run_loop` the command lines are one for
each route through the cache and startup arms (startup snapshot with the balloon
check, convergence for nested virtualisation, convergence for a GPU, neither, with
a TTY); one reboot gives an old and a new guest, and together with a convergence
three VMMs. In `uffd_clone` two pages tell a page that is given back from one that
is not, and give the replay a second job while the queue of one is full; the hazards
are between two of the handler, a worker and the balloon at a time, and one thread
of each pool keeps every such pair. In `registry` a claim races with one rival and
with one reader of the directory, who may be of the same process, of another one or
of one that gets its PID; one address for two launches makes the range run out, and
still leaves one to hand out twice. In `fuse` three connections allow a notice that is
late while the connection after it is up; batches of two with two requests have a
full, a partial and an empty batch. Larger instances of both are left to the theorems.

`CHECK_DEADLOCK FALSE` is set for the modules whose systems may come to rest: all VMs
gone, all creates made, all calls ended. `RunLoop` and `UffdClone` stutter
explicitly when the run is over, so there TLC's deadlock check is on and shows that
nobody waits for ever before that.

Fairness. `StateFile`: a running process makes its next system call (`WF`), and
a flock waiter is served when the lock becomes free again and again (`SF`),
because the kernel queues flock requests. No operation has to begin, and nobody
has to be killed. `SnapshotBoundary`: `WF` of the creator, of each client and of each
guest handler, which only moves while the VM runs; commands end. With a bump that
fails a cut session waits on, as the code's comment at
`record_vsock_reset_for_snapshot` concedes; `SessionsEnd` says so. `Reclaim`: `WF` of
each launch's next step; no launch has to begin, and commands return. `RunLoop`: `WF`
of each tokio task, which the runtime polls when it is ready, and of the guest's
steps; signals, reboots and wedges need not happen. `UffdClone`: `WF` of the handler
task and of each worker thread, of both steps of the thread inside `madvise` and of a
vCPU that goes to sleep.
The balloon, the touches and the exit need not happen. `FusePipe`: `WF` of all threads
and tasks of client and server together, the batch timer included, which is weaker
than fairness of each: while one of them can take a step, some step of theirs
follows. Nobody need call, and connections need not fail. `StateRegistry` states no
fairness: `HoldersGoOn` says in its place that nobody waits for a launch that is over.

Every property of a passing run has a mutant in PROJECT.json, and a conjunction one
for each of its parts: a change of one definition that a slip in the code would make, under which TLC finds the
property violated.

## 4. Findings

1. `state_file_resurrect`. `delete_state` says that a late health update "can
   never resurrect the state file of a deleted VM". A monitor aborted at its
   `fs::rename` await gives the flock back while the rename stays queued on the
   blocking pool. The rename can land between the removal of the state file and
   that of the temporary file.
2. `lineage_window`. `create_podman_snapshot` returns its locks before its
   caller records the new parent. A `snapshot create` in between merges a diff
   that counts from the cache snapshot onto the parent before it.

Races and limits seen while modelling, without a run of their own:

* `snapshot create` clears the parent before the save, because a create that fails
  after it "would leave a parent whose diff misses every page dirtied before it".
  `create_podman_snapshot` does not (`podman/snapshot.rs:406`): a startup snapshot that
  fails after its save leaves the pre-start snapshot recorded. This is why
  `lineage_cache` does not check `ParentReproduces`;
* `BridgedNetwork::setup` cleans up after its own errors, and `prepare_vm` calls
  `cleanup()` again, believing that "it tears nothing down itself". The handles are
  never cleared: the second call deletes by name the veth and the namespace that
  another VM took in between. `RunningIntact` excludes it;
* `allocate_loopback_ip` promises that "no other process can allocate the same IP".
  When its listing fails it goes on, "assuming no IPs in use", and a state file that
  cannot be read counts as one without an address (`state/manager.rs:743`, `:982`): a
  live VM's address is handed out again. `claim_name` fails when its listing does, but
  skips single files in the same way. The uniqueness properties exclude both with
  `~ReadErrors`;
* `reader_loop` ends on an answer that it cannot parse and fails what is in the map
  (`multiplexer.rs:882`), but the connection stays open and the writer does not know.
  Later requests are written, run and answered, and nobody reads the answers: the
  callers wait for ever, where a test asks for "an error instead of hanging". The
  reconnectable multiplexer has the same gap after it has given up. No mode of `fuse`
  has bad frames in these cases, and `FramesHandled` excludes them in the proof;
* a reconnection sends everything in the map again (`multiplexer.rs:729`), which the
  comment calls safe on the same server. The first copy may have been run already, or
  may be run later, even after the caller has its answer: only forgets are shown to run
  once;
* the diff parent is known by name (`common.rs:5724`): when another VM re-creates
  the snapshot of that name, the next diff is merged onto the wrong memory;
* a reboot in place clears the parent without the per-VM snapshot lock
  (`podman/mod.rs:3040`), so a `snapshot create` between its lineage check and its
  save merges the fresh boot onto the old parent (`Features = {"reboot"}` together
  with a creator shows it);
* a crash between the two renames of `replace_dir` (`common.rs:4605`) leaves only the
  `.old` directory;
* a creator that is killed inside the pause leaves the VM paused;
* a guest that gives up its handshake after ten minutes runs its container although
  a restore may still replace it; `NoDoubleRun` excludes it;
* a partly lost KVM dirty log above the minimum diff size passes for a small diff
  (`common.rs:5992`).

## 5. Proofs

All theorems hold for every value of the constants that the named assumptions of
the modules allow: any number of processes, inodes, sessions, attempts, snapshots,
VMs, names, launches, workers, pages, command lines, reboots, callers and
connections. Each module's type invariant, each safety invariant and each action
property of the passing runs is proved; what has a condition says so below.

`StateFileProofs`

* `TypeCorrect`, `MutualExclusion`: no further assumption, so also with aborts.
  `PayloadMutex` says nothing of descriptors and is not inductive. `LockInv` adds
  what a process has open and holds at each step (`DescriptorInv`), that a
  process in the payload has the inode open that the path names
  (`PublishedInv`) and that an exclusive flock is the only one of its inode
  (`ExclusionInv`). Two processes in the payload then share an inode, so both
  hold it shared. The delicate steps are the unlink of the lock, made by a
  process that is alone in the payload, and the open, which publishes an inode
  only when none is published, hence when nobody is in the payload.
* `DecidesOnCurrent`, `LockFileCovers`, `RemovedForGood`, `StateFileIsRegister`:
  under `BudgetMayExpire = FALSE`, which `state_file_resurrect` shows to be
  necessary. `DataInv` adds which operation is at which step, that a writer's
  buffer is the successor of the current state (`BufferInv`: nobody else writes,
  by `LockInv`), that a state is removed only when its owner is down
  (`RemovalInv`), and that the file is never torn (`FileInv`). The refinement
  maps rename to a save or an update, the unlink to the removal, and everything
  else to a stutter.

`SnapshotBoundaryProofs`

* `BoundaryTypes`, `ExecRunsAsReported` (from `ExecAtMostOnce` and
  `UnackedIsSafe`), `AbortsAreTrue`,
  `SnapshotsAreConsistent`, `SourceIsRestored`, without assumptions on failures.
  `BoundaryInv` has a part for the creator (the counters; what has been copied at
  each step; what the recovery has restored), one for the sessions (before GO
  nothing has run; a GO in flight is on the last attempt, and nothing has run) and
  one for the epoch (an epoch that moved since its capture was bumped by a
  create that had not been resumed when the connection was made).

`SnapshotLineageProofs`

* `LineageTypes`, without conditions.
* `CreatesPublishGuest` and `CreatesKeepParents`: every published image is the guest
  of one instant, and a recorded parent plus the dirty pages gives the guest's
  memory, for `snapshot create` without cache snapshots (`CreatesAlone`: no owner
  creates, no reboot, and either no name is taken over by another VM or there is
  one VM). Any number of creators, restores, deletions, exits and failures may
  interleave. `LockInv` says which generation locks and which per-VM lock a
  creator has at each step, `CreateInv` what its images and its parent are worth,
  `AloneInv` that the parent is cleared before the save empties the dirty set and
  is sound whenever there is one, `FreshInv` that without reuse a name
  that is not yet published is nobody's parent.
* `OwnersPublishGuest`: the same of the images for the cache snapshots alone
  (`OwnersAlone`: no `snapshot create` and no deletion; reboots, restores and
  failures are allowed). The invariant adds that the recorded parent is the owner's
  copy, or none because its recording failed (`RecordInv`), that a cache entry is published where there was
  none (`WriteOnce`) and that what the owner takes its next diff against is sound
  (`OwnerSound`).
* `CreatorsNeverDeadlock`, without conditions: while creates are under way some
  creator can go on. `SomeCreatorMoves` says it with the guards of the two locks
  (`WaitsForLock`), the only steps of a create that wait for another one. `OrderInv`
  says that the generation locks a creator has are below the one it asks for next,
  because `snapshot_create_lock_requests` sorts them, and `LockInv` that who holds the
  per-VM lock asks for no other. If everybody waited, the one that waits for the
  greatest name would wait for a creator that waits for a greater one; the greatest
  name exists since `<` is well-founded on the naturals.
* Neither condition of the other three can be dropped. `lineage_window` shows an owner and a creator
  together. A parent is known by its name only, so a name that another VM takes
  over and a cache entry that is deleted and installed again break it, and so does
  a reboot without the per-VM lock (section 4).

`ReclaimProofs`

* `ReclaimTypes`; `OwnersHaveOneActor`: `OneActor` speaks of flocks only. `LockInv`
  adds `DescriptorInv` (a process holds the flock exactly at its acting steps,
  through a descriptor of its own id's file) and `HelperInv` (a helper holds the
  inode that the name still names). The delicate step is the unlink of the owner
  file, which only a process that has the flock on the published inode takes.
* `DirectoriesAreKept`, from `DirectoriesAreRecorded` and `HelpersKeepTheirDirectory`: `DirInv` adds that the list a
  launch keeps in memory mirrors the record, that `undo_all` has the directory still
  to remove or has kept it, and that a launch that built its VM has its directory.
* `RunningVmsStayIntact`, for as long as no failed setup has been cleaned up twice,
  which the property states and section 4 explains.
  `NetInv` follows each object from its record over its creation to its removal
  (`RecordNet`, `UndoNet`, `OwnNet`); `NatInv` says that the
  holder of `bridged-nat.lock` found no veth, so that nobody relies on the rules
  it is about to delete.

`RunLoopProofs`

* `RunLoopTypes`, `CancelledStaysUnready`, `ContainerRunsOnce`, `PausedNotHealthy`,
  `RebootsAnswered`, `ExitCodesCurrent`, `WatchdogKillsOwn`, from one inductive
  invariant `LoopInv`. Its parts: at most one reboot waits for an answer, of a guest
  that has a boot left (`RebootInv`; the bounds in the types need it); the
  watchdog's generation is at most the boot, but for a rearmed one, and its
  deadline runs only once an exit was seen (`WatchInv`, `StampInv`); a restored
  clone has no cache channel (`CloneInv`); what the teardown leaves (`DownInv`);
  the gate's phase, its token and the task that owns it (`GateInv`); a verdict is
  pending while the main task works on a request, and no guest is answered before
  it is something else (`VerdictInv`); Healthy is not persisted while the startup
  trigger is out (`HealthInv`); a boot has one probe, which stands behind
  everything its guest sent, so that nothing of it is unread once the probe is
  acknowledged (`MessageInv`, `DrainInv`). The last one carries
  `RebootSeen` and `ExitInv`: an exit is judged after the message that
  explains it was read.

`UffdCloneProofs`

* `UffdCloneTypes`: the queue keeps its bound, and no job has a generation to come.
* `PagesStayRight`: a dropped page never maps the snapshot's bytes again, and zeros are
  only in pages that were dropped or are about to be (`Dropping`). `PageInv` adds
  `GateInv` (nobody copies while a REMOVE is being read, and who copies has the current
  generation), `GivenInv` (what the kernel dropped, or will drop once its event was
  read, is in `removed` or in the read that is being applied, and nothing else is) and
  `JobInv` (a job of the current generation names no page in `removed`). The delicate step is a
  worker that took its job before a REMOVE: it compares generations inside the
  gate and drops the job.
* `ServiceEndsClean`: `EndInv` says what of the replay is still held at each step until
  the pool is closed (`ReplayInv`), and that the handler takes the clone for gone
  only when it is, and joins its workers only then (`GoneInv`).

`StateRegistryProofs`

* `RegistryTypes`, `StatesStay`, also when reads fail: from `LaunchInv`, which says at
  which steps a call may stand (`CallInv`), that a launch under way has a live process
  (`LiveInv`) and has the host-wide locks exactly over its check and its write
  (`HeldInv`). Whoever removes the state of another VM has just seen that its owner is
  not live, in the step that removes it, so it is of no launch under way.
* `LocksAreLeft`: `HoldersGoOn` is `LiveInv` and `HeldInv` of whoever holds one of the two
  host-wide locks. Every way out of a launch between lock and release drops it.
* `ClaimsHaveOneVm` (from `ClaimsAreUnique` and `AddressesAreUnique`) and `ListingsAreRight`
  (from `ListingsAreComplete` and `ListingsNameOnce`). The
  properties say "while reads do not fail" themselves (section 4 explains why).
  `RegistryInv` says what a listing knows. `LockFileInv` and `ScanInv`: every state
  file has a lock file that outlives it, so what was there all along is found, then
  read. `ClaimInv`: a claim has read every rival of its name or has yet to read it,
  and none comes, for its launch would have to hold `names.lock`. `AllocInv` and
  `WantInv` say the same of addresses. `StartedInv` and `OnceInv`, for
  `ListsNameOnce`: when a listing has read a VM, another VM of that name that it has
  found and not yet read is over. The delicate step is a name that changes hands
  between two reads of one listing.

`FusePipeProofs`

* `PipeTypes`, `ForgetsApplyOnce`, `WorkingConnectionsStay`, without conditions, from
  `PipeInv`: which connections exist and that the writer reconnects only from one that
  is down or has lost its reader (`ConnInv`), what the writer has in hand
  (`HandInv`), and that a forget is in one place, with its caller, in the channel, in
  the hand or on one connection, and has not run before it is there (`ForgetInv`).
* `NoRequestIsLost`, for `FramesHandled`: no bad frames, or a multiplexer that
  reconnects and does not give up (section 4 explains why). `ServedInv` adds that
  a caller waits exactly while its request is in the channel or in the map
  (`PendingInv`) and that the writer has yet to hear of a reader that stopped on a
  connection that is up or new (`HearInv`). The delicate step is a re-send that fails
  on a connection that died at once: the notice of its reader is still to be read,
  and is of the current generation.

TLC checked each inductive invariant as an invariant before it was proved.

Only model-checked are the liveness properties (`OpsReturn`, `SessionsEnd`,
`AbandonedIsReclaimed`, `LaunchesEnd`, `ShutdownStops`, `ExitEnds`, `AsksEnd`,
`FaultsAnswered`, `ServiceStops`, `AllAnswered`), which are out of the prover's reach.
`SomeCreatorMoves` and `HoldersGoOn` would say directly that a step is `ENABLED`,
which is too; TLC confirmed on `lineage` and `lineage_cache` that a creator that is
not idle has a step exactly when it is not at one of the two guards. The two runs that
expect a violation show what `BudgetMayExpire = FALSE` and `CreatesAlone` exclude.
`ParentReproduces` has no theorem for owners, for whom it does not hold (section 4).

## 6. Plan

Done: the modules above and their theorems. Open, as theorems: which parents are
sound when only owners create, and the largest combination of owners and creators
for which images are right (`SnapshotLineage`).

Modules after that:

1. `SnapshotStore`: restores with shared generation locks, deletion and prune by
   generation, the two renames of `replace_dir` with a crash in between.
2. The restore path with fc-agent's restore epochs and `snapshot_network` phases,
   refining the gate of `SnapshotBoundary`.
3. The UFFD server's admission and handshake; fuse-pipe's remap table; `pmem_store`;
   routed leases; `serve`; the fleet coordinator.

## 7. Not modelled

PROJECT.json gives the reason for each part. In short: parts that are I/O or
sequences of external commands (routed and pasta networking, disks, images, setup,
hypervisor clients), formatting and terminals, performance policies of the UFFD
server (minor mode, fault-around, traces), GPU handling, and the parts of the plan
that are still to come. Of the modelled parts: the states of different VMs are
independent files, so `StateFile` has one VM, and what relates them is in
`StateRegistry`; the file system behind the volume server and its wire format;
permissions and timestamps are left
out; KVM's dirty log is taken to be exact; the probes of the health monitor are one
answer.

Simplifications inside the modules, each with what it leaves out:

* `UffdClone`: the kill of a failed service succeeds. The code logs a kill that is
  refused and goes on (`uffd/server.rs:438`); the VMM is then left on memory nobody
  serves, which is what `EndsClean` denies.
* `RunLoop`: the exit and ready files can be written. When they cannot, the listener
  ends (`listeners.rs:140`), and nothing the guest says afterwards is heard:
  `RebootHonoured`, `ExitEnds` and `AsksEnd` are claimed only of a run whose directory
  is writable. With it goes the drain that finds a finished listener. A health check
  and its hand-over to the startup channel are one step, since the observation is not
  shared before; `HealthyNotPaused` is about the pause, not about observations that a
  reboot drops.
* `Reclaim`: all records are of one user namespace. Unlink and close of a lock file
  are one step: the flock of an unlinked inode excludes nobody who opens the path.
  With two VMs TLC hardly sees a pass near a namesake that runs; for more, the theorem
  `RunningVmsStayIntact` speaks.
* `FusePipe`: an error of the server's reader is a reset (`LinkDown`), and a reset takes
  both directions at once, without the moment in which only one half is shut. Every
  response can be serialised. Bad frames are as many as there are connections to
  replace: an answer that is bad on each would reconnect for ever. No TLC mode has two
  requests pending on a new connection that may die; `NoRequestIsLost` covers it.
