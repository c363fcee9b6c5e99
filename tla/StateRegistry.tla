--------------------------- MODULE StateRegistry ---------------------------
(***************************************************************************)
(* The state directory as a registry: VM names and loopback addresses are  *)
(* claimed by listing the files of all VMs under a host-wide lock.         *)
(*                                                                         *)
(* src/src/state/manager.rs (claim_name, allocate_loopback_ip, save_state  *)
(* with its PID sweep, cleanup_stale_state, list_vms, load_state_by_name,  *)
(* load_state_by_pid) and the launches that call them in podman/mod.rs and *)
(* snapshot.rs.                                                            *)
(*                                                                         *)
(* StateFile has one VM's files at the grain of system calls.  Here each   *)
(* operation on one VM's files is one step, or two where the order of its  *)
(* files matters, and the steps of a listing are apart: the directory is   *)
(* opened, its entries are read, and then each state file by its path.     *)
(* A btrfs scan misses an entry that was renamed or made after the open.   *)
(***************************************************************************)
EXTENDS Integers, FiniteSets, FiniteSetsExt

CONSTANTS Vms,          \* one launch each, with a vm_id of its own
          Procs,        \* fcvm processes: a PID and a start time
          Clients,      \* lookups: `fcvm exec`, `snapshot create`, ...
          IpCount,      \* bound: loopback addresses, in the order they are tried
          SoughtPid,    \* the PID the lookups by PID ask for
          Plans         \* which launches there are, and what may fail

Actors == Vms \union Clients
Ips == 1 .. IpCount
NoIp == 0
None == "none"

ASSUME RegistryAssumption ==
    /\ Vms \intersect Clients = {} /\ None \notin Vms /\ IpCount \in Nat
    /\ \A p \in Plans :
        /\ p.owner \in [Vms -> Procs] /\ DOMAIN p.pid = Procs /\ DOMAIN p.name = Vms
        /\ p.wantsIp \subseteq Vms /\ p.readErrors \in BOOLEAN

VARIABLES plan,         \* which plan it is; it never changes
          proc,         \* of a process: "none", "live", "zombie" or "gone"
          file,         \* the VMs with a state file
          lock,         \* the VMs with a lock file
          ip,           \* the loopback address in a state file
          names, ips,   \* who holds names.lock and loopback-ip.lock
          pc, op,       \* of an actor: its place, and the call it is in
          want,         \* the address in a launch's own copy of the state
          seenState,    \* of a scan: entries that were there when it began
          seenLock,     \*   and were not renamed or removed since
          owed,         \* history: the states on disk since the scan began
          todo, got,    \* of a listing: the files to read, and the states read
          used          \* the addresses in the states read

procVars == <<proc>>
dirVars == <<file, lock, ip, seenState, seenLock, owed>>
lockVars == <<names, ips>>
listVars == <<todo, got, used>>
vars == <<plan, procVars, dirVars, lockVars, pc, op, want, listVars>>

OwnerOf == plan.owner            \* the process that launches a VM
PidOf == plan.pid                \* the PID of a process; a later one may have it again
NameOf == plan.name              \* the name a VM is launched under
WantsIp == plan.wantsIp          \* the VMs of rootless and some routed networks
ReadErrors == plan.readErrors    \* whether reading a directory or a file may fail

(* A list_vms belongs to claim_name, to allocate_loopback_ip, to the save_state
   of one of them or of save_vm_state_with_network, or to a lookup. *)
Saves == {"claim_save", "alloc_save", "net_save"}
Lookups == {"by_name", "by_pid", "by_pid_again"}
Ops == {"claim", "alloc"} \union Saves \union Lookups
PCs == {"new", "wait", "clean", "open", "scan", "read", "judge", "write", "release",
        "running", "delete", "retire", "end", "dead"}

TypeOK ==
    /\ plan \in Plans
    /\ proc \in [Procs -> {"none", "live", "zombie", "gone"}]
    /\ file \subseteq Vms /\ lock \subseteq Vms /\ ip \in [Vms -> Ips \union {NoIp}]
    /\ names \in Vms \union {None} /\ ips \in Vms \union {None}
    /\ pc \in [Actors -> PCs] /\ op \in [Actors -> Ops]
    /\ want \in [Vms -> Ips \union {NoIp}]
    /\ seenState \in [Actors -> SUBSET Vms] /\ seenLock \in [Actors -> SUBSET Vms]
    /\ owed \in [Actors -> SUBSET Vms]
    /\ todo \in [Actors -> SUBSET Vms] /\ got \in [Actors -> SUBSET Vms]
    /\ used \in [Actors -> SUBSET Ips]

Init ==
    /\ plan \in Plans
    /\ proc = [p \in Procs |-> "none"]
    /\ file = {} /\ lock = {} /\ ip = [v \in Vms |-> NoIp]
    /\ names = None /\ ips = None
    /\ pc = [a \in Actors |-> "new"]
    /\ op = [a \in Actors |-> IF a \in Vms THEN "claim" ELSE "by_name"]
    /\ want = [v \in Vms |-> NoIp]
    /\ seenState = [a \in Actors |-> {}] /\ seenLock = [a \in Actors |-> {}]
    /\ owed = [a \in Actors |-> {}]
    /\ todo = [a \in Actors |-> {}] /\ got = [a \in Actors |-> {}]
    /\ used = [a \in Actors |-> {}]

Goto(a, label) == pc' = [pc EXCEPT ![a] = label]
Call(a, label, call) == Goto(a, label) /\ op' = [op EXCEPT ![a] = call]

-----------------------------------------------------------------------------
(* Processes.                                                              *)

(* A process that is to launch a VM starts with a PID that no process has, a
   zombie included. *)
StartProc(p) ==
    /\ proc[p] = "none" /\ \E v \in Vms : OwnerOf[v] = p
    /\ \A q \in Procs : PidOf[q] = PidOf[p] => proc[q] \in {"none", "gone"}
    /\ proc' = [proc EXCEPT ![p] = "live"]
    /\ UNCHANGED <<dirVars, lockVars, pc, op, want, listVars>>

(* It exits or is killed at any point: its launches end there and the kernel
   drops their locks.  Their files stay. *)
ExitProc(p) ==
    /\ proc[p] = "live"
    /\ proc' = [proc EXCEPT ![p] = "zombie"]
    /\ pc' = [a \in Actors |-> IF a \in Vms /\ OwnerOf[a] = p THEN "dead" ELSE pc[a]]
    /\ names' = IF names # None /\ OwnerOf[names] = p THEN None ELSE names
    /\ ips' = IF ips # None /\ OwnerOf[ips] = p THEN None ELSE ips
    /\ UNCHANGED <<dirVars, op, want, listVars>>

ReapProc(p) ==
    /\ proc[p] = "zombie"
    /\ proc' = [proc EXCEPT ![p] = "gone"]
    /\ UNCHANGED <<dirVars, lockVars, pc, op, want, listVars>>

(* Mutant: a state with the PID of this process is taken for stale. *)
owner_is_live_NotMine(v) == FALSE

(* owner_is_live: the process of the recorded PID has the recorded start time
   and is no zombie. *)
owner_is_live(v) == proc[OwnerOf[v]] = "live"

(* cleanup_stale_state removes less: /proc has a zombie, with its start time. *)
Stale(v) == proc[OwnerOf[v]] \in {"none", "gone"}

(* pid_identity_matches: the start time alone. *)
pid_identity_matches(v) == proc[OwnerOf[v]] \in {"live", "zombie"}

-----------------------------------------------------------------------------
(* The files of one VM.                                                    *)

Without(f, v) == [a \in Actors |-> f[a] \ {v}]

(* delete_state, or a removal of cleanup_stale_state, by another process: state
   and lock go under the VM's lock. *)
Remove(v) ==
    /\ file' = file \ {v} /\ lock' = lock \ {v}
    /\ seenState' = Without(seenState, v) /\ seenLock' = Without(seenLock, v)
    /\ owed' = Without(owed, v)
    /\ UNCHANGED ip

(* update_state by anybody: the state file is replaced by a rename. *)
update_state(v) ==
    /\ v \in file
    /\ seenState' = Without(seenState, v)
    /\ UNCHANGED <<procVars, file, lock, ip, seenLock, owed, lockVars, pc, op, want, listVars>>

(* save_state makes the lock file first. *)
MakeLock(v) ==
    /\ lock' = lock \union {v}
    /\ UNCHANGED <<file, ip, seenState, seenLock, owed>>

(* The rename into place. *)
RenameIntoPlace(v) ==
    /\ pc[v] = "write"
    /\ file' = file \union {v}
    /\ ip' = [ip EXCEPT ![v] = want[v]]
    /\ seenState' = Without(seenState, v)
    /\ Goto(v, "release")
    /\ UNCHANGED <<procVars, lock, seenLock, owed, lockVars, op, want, listVars>>

(* delete_state by the VM's own launch: the state file, then the lock file. *)
RemoveState(v) ==
    /\ pc[v] = "delete"
    /\ file' = file \ {v}
    /\ seenState' = Without(seenState, v) /\ owed' = Without(owed, v)
    /\ Goto(v, "retire")
    /\ UNCHANGED <<procVars, lock, ip, seenLock, lockVars, op, want, listVars>>

RemoveLock(v) ==
    /\ pc[v] = "retire"
    /\ lock' = lock \ {v}
    /\ seenLock' = Without(seenLock, v)
    /\ Goto(v, "end")
    /\ UNCHANGED <<procVars, file, ip, seenState, owed, lockVars, op, want, listVars>>

(* A deletion that fails is logged, and what is left stays. *)
DeleteFails(v) ==
    /\ pc[v] \in {"delete", "retire"}
    /\ Goto(v, "end")
    /\ UNCHANGED <<procVars, dirVars, lockVars, op, want, listVars>>

-----------------------------------------------------------------------------
(* list_vms, for any caller.                                               *)

OpenDir(a) ==
    /\ pc[a] = "open"
    /\ seenState' = [seenState EXCEPT ![a] = file]
    /\ seenLock' = [seenLock EXCEPT ![a] = lock]
    /\ owed' = [owed EXCEPT ![a] = file]
    /\ Goto(a, "scan")
    /\ UNCHANGED <<procVars, file, lock, ip, lockVars, op, want, listVars>>

(* Mutant: only the state files name a VM. *)
Found_JsonOnly(a) == seenState[a]

(* The vm_ids of the state files and of the lock files found for certain. *)
Found(a) == seenState[a] \union seenLock[a]

(* Entries made or renamed since the open are found or not. *)
ReadDir(a) ==
    /\ pc[a] = "scan"
    /\ \E extra \in SUBSET (file \union lock) : todo' = [todo EXCEPT ![a] = Found(a) \union extra]
    /\ got' = [got EXCEPT ![a] = {}] /\ used' = [used EXCEPT ![a] = {}]
    /\ seenState' = [seenState EXCEPT ![a] = {}] /\ seenLock' = [seenLock EXCEPT ![a] = {}]
    /\ Goto(a, "read")
    /\ UNCHANGED <<procVars, file, lock, ip, owed, lockVars, op, want>>

(* The state file is read by its path; one that is gone is skipped. *)
ReadFile(a, v) ==
    /\ pc[a] = "read" /\ v \in todo[a]
    /\ todo' = [todo EXCEPT ![a] = @ \ {v}]
    /\ IF v \in file
       THEN /\ got' = [got EXCEPT ![a] = @ \union {v}]
            /\ used' = [used EXCEPT ![a] = @ \union ({ip[v]} \ {NoIp})]
       ELSE UNCHANGED <<got, used>>
    /\ UNCHANGED <<procVars, dirVars, lockVars, pc, op, want>>

(* A file that cannot be read is skipped too, with a warning. *)
SkipFile(a, v) ==
    /\ ReadErrors
    /\ pc[a] = "read" /\ v \in todo[a]
    /\ todo' = [todo EXCEPT ![a] = @ \ {v}]
    /\ UNCHANGED <<procVars, dirVars, lockVars, pc, op, want, got, used>>

(* The directory cannot be read.  claim_name and a lookup fail; save_state does
   without its sweep, and allocate_loopback_ip takes no address to be in use. *)
ListFails(a) ==
    /\ ReadErrors
    /\ pc[a] \in {"open", "scan"}
    /\ todo' = [todo EXCEPT ![a] = {}]
    /\ got' = [got EXCEPT ![a] = {}] /\ used' = [used EXCEPT ![a] = {}]
    /\ seenState' = [seenState EXCEPT ![a] = {}] /\ seenLock' = [seenLock EXCEPT ![a] = {}]
    /\ owed' = [owed EXCEPT ![a] = {}]
    /\ CASE op[a] = "claim" -> names' = None /\ Goto(a, "delete")
         [] op[a] \in Lookups -> UNCHANGED names /\ Goto(a, "new")
         [] OTHER -> UNCHANGED names /\ Goto(a, "read")
    /\ UNCHANGED <<procVars, file, lock, ip, ips, op, want>>

Listed(a) == pc[a] = "read" /\ todo[a] = {}

(* The caller has what it wants of the listing: the states of the set kept. *)
EndList(a, kept) ==
    /\ got' = [got EXCEPT ![a] = kept] /\ used' = [used EXCEPT ![a] = {}]
    /\ owed' = [owed EXCEPT ![a] = {}]
    /\ UNCHANGED <<file, lock, ip, seenState, seenLock, todo>>

-----------------------------------------------------------------------------
(* cleanup_stale_state, for any caller.                                    *)

(* It passes over a file whose lock is held, and does not see every file. *)
cleanup_stale_state(a, v) ==
    /\ pc[a] = "clean" /\ v \in file /\ Stale(v)
    /\ Remove(v)
    /\ UNCHANGED <<procVars, lockVars, pc, op, want, listVars>>

CleanupDone(a) ==
    /\ pc[a] = "clean"
    /\ Goto(a, "open")
    /\ UNCHANGED <<procVars, dirVars, lockVars, op, want, listVars>>

-----------------------------------------------------------------------------
(* A launch.                                                               *)

Launch(v) ==
    /\ pc[v] = "new" /\ proc[OwnerOf[v]] = "live"
    /\ Goto(v, "wait")
    /\ UNCHANGED <<procVars, dirVars, lockVars, op, want, listVars>>

(* Mutant: a failed launch keeps its locks. *)
FailLaunch_Locked(v) == UNCHANGED <<names, ips>> /\ Goto(v, "delete")

(* A launch fails: its locks are dropped and its files removed. *)
FailLaunch(v) ==
    /\ names' = IF names = v THEN None ELSE names
    /\ ips' = IF ips = v THEN None ELSE ips
    /\ Goto(v, "delete")

(* Mutant: the name lock is given back before the state is written. *)
ClaimChecked_Unlocks(v) == names' = None

(* The name is free: names.lock is kept over the write. *)
ClaimChecked(v) == UNCHANGED names

claim_name(v) ==
    /\ pc[v] = "wait" /\ op[v] = "claim" /\ names = None
    /\ names' = v
    /\ Goto(v, "clean")
    /\ UNCHANGED <<procVars, dirVars, ips, op, want, listVars>>

(* Mutant: the lock is not waited for. *)
allocate_loopback_ip_Unlocked(v) ==
    /\ pc[v] = "wait" /\ op[v] = "alloc"
    /\ ips' = v
    /\ Goto(v, "clean")
    /\ UNCHANGED <<procVars, dirVars, names, op, want, listVars>>

allocate_loopback_ip(v) ==
    /\ pc[v] = "wait" /\ op[v] = "alloc" /\ ips = None
    /\ ips' = v
    /\ Goto(v, "clean")
    /\ UNCHANGED <<procVars, dirVars, names, op, want, listVars>>

(* What a caller judges of the listing: claim_name the other states of its name,
   save_state the other states of its PID. *)
Judged(v) ==
    {w \in got[v] \ {v} :
        IF op[v] = "claim" THEN NameOf[w] = NameOf[v]
        ELSE PidOf[OwnerOf[w]] = PidOf[OwnerOf[v]]}

JudgeList(v) ==
    /\ Listed(v) /\ op[v] \in {"claim"} \union Saves
    /\ EndList(v, Judged(v))
    /\ Goto(v, "judge")
    /\ UNCHANGED <<procVars, lockVars, op, want>>

(* A live VM has the name, or the state of an exited one cannot be deleted: the
   launch fails, and its cleanup removes its files. *)
ClaimRefused(v, w) ==
    /\ pc[v] = "judge" /\ op[v] = "claim" /\ w \in got[v]
    /\ FailLaunch(v)
    /\ got' = [got EXCEPT ![v] = {}]
    /\ UNCHANGED <<procVars, dirVars, op, want, todo, used>>

(* Mutant: the state of an exited VM keeps its name. *)
DropJudged_Kept(v, w) == UNCHANGED dirVars

(* A state whose owner is not live is deleted; save_state ignores a failure. *)
DropJudged(v, w) ==
    \/ ~owner_is_live(w) /\ Remove(w)
    \/ (owner_is_live(w) \/ op[v] # "claim") /\ UNCHANGED dirVars

(* The next state: claim_name deletes it, since its owner is not live; save_state
   deletes it if so. *)
JudgeState(v, w) ==
    /\ pc[v] = "judge" /\ w \in got[v]
    /\ op[v] = "claim" => ~owner_is_live(w)
    /\ DropJudged(v, w)
    /\ got' = [got EXCEPT ![v] = @ \ {w}]
    /\ UNCHANGED <<procVars, lockVars, pc, op, want, todo, used>>

ClaimFree(v) ==
    /\ pc[v] = "judge" /\ op[v] = "claim" /\ got[v] = {}
    /\ ClaimChecked(v)
    /\ Call(v, "open", "claim_save")
    /\ UNCHANGED <<procVars, dirVars, ips, want, listVars>>

(* The addresses are tried in order. *)
FreeIp(v) == Min(Ips \ used[v])

ChooseIp(v) ==
    /\ Listed(v) /\ op[v] = "alloc" /\ Ips \ used[v] # {}
    /\ want' = [want EXCEPT ![v] = FreeIp(v)]
    /\ EndList(v, {})
    /\ Call(v, "open", "alloc_save")
    /\ UNCHANGED <<procVars, lockVars>>

IpsExhausted(v) ==
    /\ Listed(v) /\ op[v] = "alloc" /\ Ips \subseteq used[v]
    /\ FailLaunch(v)
    /\ EndList(v, {})
    /\ UNCHANGED <<procVars, op, want>>

(* The sweep is over; the per-VM lock is taken and the file written. *)
save_state(v) ==
    /\ pc[v] = "judge" /\ op[v] \in Saves /\ got[v] = {}
    /\ MakeLock(v)
    /\ Goto(v, "write")
    /\ UNCHANGED <<procVars, lockVars, op, want, listVars>>

(* The write fails, claim_name's deletion of a state does, or the set-up between
   two saves. *)
SetupFails(v) ==
    /\ \/ pc[v] = "write"
       \/ pc[v] = "judge" /\ op[v] = "claim" /\ got[v] # {}
       \/ pc[v] = "wait" /\ op[v] = "alloc"
       \/ pc[v] = "open" /\ op[v] = "net_save"
    /\ FailLaunch(v)
    /\ got' = [got EXCEPT ![v] = {}]
    /\ UNCHANGED <<procVars, dirVars, op, want, todo, used>>

(* After its claim a launch allocates an address if its network wants one, and
   saves the state with the network once more. *)
Saved(v) ==
    /\ pc[v] = "release"
    /\ names' = IF op[v] = "claim_save" /\ names = v THEN None ELSE names
    /\ ips' = IF op[v] = "alloc_save" /\ ips = v THEN None ELSE ips
    /\ \/ op[v] = "claim_save" /\ v \in WantsIp /\ Call(v, "wait", "alloc")
       \/ op[v] = "claim_save" /\ v \notin WantsIp /\ Call(v, "open", "net_save")
       \/ op[v] = "alloc_save" /\ Call(v, "open", "net_save")
       \/ op[v] = "net_save" /\ Goto(v, "running") /\ UNCHANGED op
    /\ UNCHANGED <<procVars, dirVars, want, listVars>>

(* The VM ends and its owner cleans up. *)
Stop(v) ==
    /\ pc[v] = "running"
    /\ Goto(v, "delete")
    /\ UNCHANGED <<procVars, dirVars, lockVars, op, want, listVars>>

-----------------------------------------------------------------------------
(* A lookup, by a process of its own and without a lock.                   *)

Lookup(c, call) ==
    /\ pc[c] = "new" /\ call \in {"by_name", "by_pid"}
    /\ Call(c, "open", call)
    /\ UNCHANGED <<procVars, dirVars, lockVars, want, listVars>>

PidFound(c) == \E v \in got[c] : PidOf[OwnerOf[v]] = SoughtPid /\ pid_identity_matches(v)

(* load_state_by_pid cleans up and lists again when it finds no state. *)
LookupListed(c) ==
    /\ Listed(c)
    /\ IF op[c] = "by_pid" /\ ~PidFound(c)
       THEN Call(c, "clean", "by_pid_again")
       ELSE Call(c, "new", "by_name")
    /\ EndList(c, {})
    /\ UNCHANGED <<procVars, lockVars, want>>

-----------------------------------------------------------------------------
Listing(a) ==
    \/ OpenDir(a) \/ ReadDir(a) \/ ListFails(a) \/ CleanupDone(a)
    \/ \E v \in Vms : ReadFile(a, v) \/ SkipFile(a, v) \/ cleanup_stale_state(a, v)

Launching(v) ==
    \/ Launch(v) \/ claim_name(v) \/ allocate_loopback_ip(v)
    \/ JudgeList(v) \/ ClaimFree(v) \/ ChooseIp(v) \/ IpsExhausted(v)
    \/ \E w \in Vms : ClaimRefused(v, w) \/ JudgeState(v, w)
    \/ save_state(v) \/ RenameIntoPlace(v) \/ SetupFails(v) \/ Saved(v)
    \/ Stop(v) \/ RemoveState(v) \/ RemoveLock(v) \/ DeleteFails(v)

Next ==
    /\ \/ \E p \in Procs : StartProc(p) \/ ExitProc(p) \/ ReapProc(p)
       \/ \E a \in Actors : Listing(a)
       \/ \E v \in Vms : Launching(v) \/ update_state(v)
       \/ \E c \in Clients : LookupListed(c) \/ \E call \in Lookups : Lookup(c, call)
    /\ UNCHANGED plan

Spec == Init /\ [][Next]_vars

-----------------------------------------------------------------------------
(* PROPERTIES                                                              *)

(* A claim in progress or done: the VM's state has been written and its launch
   goes on. *)
Installed(v) ==
    \/ pc[v] = "running"
    \/ pc[v] = "release"
    \/ op[v] \in {"alloc", "alloc_save", "net_save"}
       /\ pc[v] \in {"wait", "clean", "open", "scan", "read", "judge", "write"}

(* No two state files have one name, of live VMs or dead: claim_name decides
   on a listing that others change under it, and a launch of the same name may
   claim, stop or be killed at any step of it. *)
NamesUnique == ~ReadErrors => \A v, w \in file : NameOf[v] = NameOf[w] => v = w

(* No two state files have one loopback address, although the states that
   allocate_loopback_ip lists are saved, rewritten and removed meanwhile. *)
IpsUnique == ~ReadErrors => \A v, w \in file : ip[v] # NoIp /\ ip[v] = ip[w] => v = w

(* What is claimed under a host-wide lock has one VM: a name of claim_name, an
   address of allocate_loopback_ip. *)
ClaimsUnique == NamesUnique /\ IpsUnique

(* Nobody but its own launch removes the state of a VM that is up or starting:
   not the cleanups that run without a lock, not the claims of other launches,
   and not the PID sweep of save_state, also when a process has several VMs or
   the PID of an exited one. *)
InstalledStays == \A v \in Vms : Installed(v) => v \in file

(* A listing misses no VM whose state was there when it began and still is,
   although the state file was renamed meanwhile and btrfs hides it. *)
ListsAll == ~ReadErrors => \A a \in Actors : Listed(a) => owed[a] \subseteq got[a]

(* No listing shows two VMs of one name, so load_state_by_name never has to
   refuse an ambiguous name, also when the name passes from one VM to the next
   between two files of the listing. *)
ListsNameOnce ==
    ~ReadErrors => \A a \in Actors : Listed(a) =>
        \A v, w \in got[a] : NameOf[v] = NameOf[w] => v = w

(* A listing of list_vms can be relied on, although the directory changes while it
   is read: nobody is missing and no name is there twice. *)
ListingsRight == ListsAll /\ ListsNameOnce

(* Who holds names.lock or loopback-ip.lock can go on: its process lives, it is
   between its check and its write, and it waits for no other lock.  A launch that
   fails, is refused or is killed inside claim_name or allocate_loopback_ip leaves
   the host-wide lock to the next. *)
HoldersGoOn ==
    \A v \in Vms : v \in {names, ips} =>
        /\ proc[OwnerOf[v]] = "live"
        /\ pc[v] \in {"clean", "open", "scan", "read", "judge", "write", "release"}
=============================================================================
