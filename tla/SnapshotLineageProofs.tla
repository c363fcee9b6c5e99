----------------------- MODULE SnapshotLineageProofs -----------------------
(***************************************************************************)
(* Proofs about SnapshotLineage for any number of VMs, creators, names and *)
(* pages, and any number of writes and creates.                            *)
(***************************************************************************)
EXTENDS SnapshotLineage, WellFoundedInduction, TLAPS

-----------------------------------------------------------------------------
(* Types, in parts that few actions disturb. *)

VmType ==
    /\ st \in [Vms -> {"new", "up", "gone"}]
    /\ mem \in [Vms -> Image] /\ dirty \in [Vms -> SUBSET Pages]
    /\ parent \in [Vms -> Names \union {NoName}] /\ known \in [Vms -> Names \union {NoName}]
    /\ due \in [Vms -> {"pre", "startup", "none"}]
    /\ \A v \in Vms : due[v] # "none" => "owner" \in Features
    /\ clock \in 0 .. MaxWrites

SnapType == snap \in [Names -> Snaps]

JobType == job \in [Creators -> Jobs]

LockType ==
    /\ dirlock \in [Creators -> [Names -> {"none", "shared", "exclusive"}]]
    /\ vmlock \in [Creators -> BOOLEAN]
    /\ creates \in 0 .. MaxCreates /\ used \subseteq Names

(* A diff is over a parent. *)
BaseType ==
    \A a \in Creators :
        job[a].pc = "merge" \/ (job[a].pc = "save" /\ job[a].mode = "diff") => job[a].parent # NoName

TypeInv == VmType /\ SnapType /\ JobType /\ LockType /\ BaseType

LEMMA TypeInvOK == TypeInv => TypeOK
  BY DEF TypeInv, TypeOK, VmType, SnapType, JobType, LockType

LEMMA Values ==
    /\ Zero \in Image /\ NoSnap \in Snaps /\ DiskOnly \in Snaps /\ Unlocked \in [Names -> {"none", "shared", "exclusive"}]
    /\ 1 \in Names /\ NoName \notin Names
    /\ \A v \in Vms, n \in Names, par \in Names \union {NoName}, d \in BOOLEAN, pc \in PCs :
          NewJob(pc, v, n, par, d) \in Jobs
    /\ Idle \in Jobs /\ Idle.pc = "idle"
  <1>1. Zero \in Image
    BY LineageAssumption DEF Zero, Image
  <1>2. NoSnap \in Snaps /\ DiskOnly \in Snaps /\ Unlocked \in [Names -> {"none", "shared", "exclusive"}]
    BY <1>1 DEF NoSnap, DiskOnly, Snaps, Unlocked
  <1>3. 1 \in Names /\ NoName \notin Names
    BY LineageAssumption DEF Names, NoName
  <1>4. ASSUME NEW v \in Vms, NEW n \in Names, NEW par \in Names \union {NoName}, NEW d \in BOOLEAN, NEW pc \in PCs
        PROVE  NewJob(pc, v, n, par, d) \in Jobs
    BY <1>1, LineageAssumption DEF NewJob, Jobs
  <1>5. Idle \in Jobs /\ Idle.pc = "idle"
    <2>1. (CHOOSE v \in Vms : TRUE) \in Vms /\ "idle" \in PCs
      BY LineageAssumption DEF PCs
    <2>2. Idle \in Jobs
      BY <1>3, <1>4, <2>1 DEF Idle
    <2> QED BY <2>2 DEF Idle, NewJob
  <1> QED BY <1>1, <1>2, <1>3, <1>4, <1>5

LEMMA TypeInit == Init => TypeInv
  BY Values, LineageAssumption DEF Init, TypeInv, VmType, SnapType, JobType, LockType, BaseType

LEMMA MergeType ==
    ASSUME NEW base \in Image, NEW guest \in Image, NEW pages PROVE Merge(base, guest, pages) \in Image
  BY DEF Merge, Image

(* Every return of a creator. *)
LEMMA ReturnType ==
    ASSUME TypeInv, NEW a \in Creators, Return(a)
    PROVE  JobType' /\ dirlock' \in [Creators -> [Names -> {"none", "shared", "exclusive"}]]
           /\ vmlock' \in [Creators -> BOOLEAN] /\ due' \in [Vms -> {"pre", "startup", "none"}]
           /\ \A v \in Vms : due'[v] # "none" => "owner" \in Features
  BY Values DEF Return, NextDue, TypeInv, VmType, JobType, LockType

LEMMA VmTypeStep ==
    ASSUME TypeInv, [Next]_vars PROVE VmType'
  <1>0. VmType
    BY DEF TypeInv
  <1>1. CASE UNCHANGED vmVars
    BY <1>0, <1>1 DEF vmVars, VmType
  <1>2. ASSUME UNCHANGED <<st, mem, dirty, parent, known, clock>>, due' \in [Vms -> {"pre", "startup", "none"}],
               \A v \in Vms : due'[v] # "none" => "owner" \in Features
        PROVE  VmType'
    BY <1>0, <1>2 DEF VmType
  <1>3. ASSUME NEW v \in Vms, Boot(v) \/ create_podman_snapshot(v) PROVE VmType'
    BY <1>0, <1>3 DEF Boot, create_podman_snapshot, VmType
  <1>4. ASSUME NEW v \in Vms, NEW n \in Names, Restore(v, n) PROVE VmType'
    <2>1. snap[n].mem \in Image
      BY DEF TypeInv, SnapType, Snaps
    <2> QED BY <1>0, <1>4, <2>1 DEF Restore, VmType
  <1>5. ASSUME NEW v \in Vms, NEW pg \in Pages, GuestWrite(v, pg) PROVE VmType'
    <2>1. clock' \in 0 .. MaxWrites /\ clock' = clock + 1
      BY <1>0, <1>5, LineageAssumption DEF GuestWrite, VmType
    <2>2. [mem[v] EXCEPT ![pg] = clock + 1] \in Image
      BY <1>0, <2>1 DEF VmType, Image
    <2>3. mem' \in [Vms -> Image]
      BY <1>0, <1>5, <2>2 DEF GuestWrite, VmType
    <2>4. dirty' \in [Vms -> SUBSET Pages]
      BY <1>0, <1>5 DEF GuestWrite, VmType
    <2> QED BY <1>0, <1>5, <2>1, <2>3, <2>4 DEF GuestWrite, VmType
  <1>6. ASSUME NEW v \in Vms, Reboot(v) PROVE VmType'
    BY <1>0, <1>6, Values DEF Reboot, RecordIgnored, VmType
  <1>7. ASSUME NEW v \in Vms, Exit(v) PROVE VmType'
    BY <1>0, <1>7 DEF Exit, VmType
  <1>8. ASSUME NEW a \in Creators, Fail(a) PROVE VmType'
    <2>1. dirty' \in [Vms -> SUBSET Pages]
      BY <1>0, <1>8 DEF Fail, VmType
    <2> QED BY <1>0, <1>8, <2>1, ReturnType DEF Fail, VmType
  <1>9. ASSUME NEW a \in Creators, Step(a) PROVE VmType'
    <2>0. job[a].target \in Names
      BY DEF TypeInv, JobType, Jobs
    <2>1. CASE acquire_snapshot_dir_lock(a) \/ acquire_vm_snapshot_lock(a) \/ Stage(a) \/ MergeDiff(a) \/ Publish(a)
      BY <1>1, <2>1 DEF acquire_snapshot_dir_lock, acquire_vm_snapshot_lock, Stage, MergeDiff, Publish
    <2>2. CASE keeps_installed_generation(a)
      BY <1>2, <2>2, ReturnType DEF keeps_installed_generation, KeepInstalled
    <2>3. CASE CheckLineage(a)
      BY <1>0, <1>2, <2>3, ReturnType DEF CheckLineage, VmType
    <2>4. CASE ClearParent(a)
      BY <1>0, <2>4 DEF ClearParent, VmType
    <2>5. CASE Save(a)
      <3>1. dirty' \in [Vms -> SUBSET Pages]
        BY <1>0, <2>5 DEF Save, VmType
      <3> QED BY <1>0, <2>5, <3>1 DEF Save, VmType
    <2>6. CASE SaveRefused(a)
      BY <1>2, <2>6, ReturnType DEF SaveRefused
    <2>7. CASE RecordAndRelease(a)
      BY <1>0, <2>0, <2>7 DEF RecordAndRelease, RecordParent, VmType
    <2>8. CASE Release(a)
      BY <1>0, <1>2, <2>8, ReturnType DEF Release, VmType
    <2>9. CASE RecordLate(a)
      BY <1>0, <2>0, <2>9, ReturnType DEF RecordLate, RecordParent, RecordIgnored, VmType
    <2> QED BY <1>9, <2>1, <2>2, <2>3, <2>4, <2>5, <2>6, <2>7, <2>8, <2>9 DEF Step
  <1> QED BY <1>1, <1>3, <1>4, <1>5, <1>6, <1>7, <1>8, <1>9
      DEF Next, cmd_snapshot_create, delete_snapshot, vars, vmVars

LEMMA SnapTypeStep ==
    ASSUME TypeInv, [Next]_vars PROVE SnapType'
  <1>0. SnapType
    BY DEF TypeInv
  <1>1. CASE UNCHANGED snap
    BY <1>0, <1>1 DEF SnapType
  <1>2. ASSUME NEW a \in Creators, Publish(a) PROVE SnapType'
    <2>1. [kind |-> "memory", mem |-> job[a].img, guest |-> job[a].guest] \in Snaps
      BY DEF Snaps, TypeInv, JobType, Jobs
    <2> QED BY <1>0, <1>2, <2>1, Values DEF Publish, SnapType
  <1>3. ASSUME NEW a \in Creators, Fail(a) PROVE SnapType'
    BY <1>0, <1>3, Values DEF Fail, SnapType
  <1>4. ASSUME NEW n \in Names, delete_snapshot(n) PROVE SnapType'
    BY <1>0, <1>4, Values DEF delete_snapshot, SnapType
  <1>5. ASSUME NEW a \in Creators, Step(a) PROVE SnapType'
    BY <1>1, <1>2, <1>5 DEF Step, acquire_snapshot_dir_lock, keeps_installed_generation, acquire_vm_snapshot_lock,
           CheckLineage, ClearParent, Stage, Save, SaveRefused, MergeDiff, RecordAndRelease, Release, RecordLate
  <1> QED BY <1>1, <1>3, <1>4, <1>5
      DEF Next, cmd_snapshot_create, Boot, Reboot, Exit, create_podman_snapshot, Restore, GuestWrite, vars

LEMMA JobTypeStep ==
    ASSUME TypeInv, [Next]_vars PROVE JobType'
  <1>0. job \in [Creators -> Jobs]
    BY DEF TypeInv, JobType
  <1>1. CASE UNCHANGED job
    BY <1>0, <1>1 DEF JobType
  <1>2. ASSUME NEW a \in Creators, NEW x \in Jobs, job' = [job EXCEPT ![a] = x] PROVE JobType'
    BY <1>0, <1>2 DEF JobType
  <1>3. Vms \subseteq Creators /\ Clis \subseteq Creators
    BY DEF Creators
  <1>4. ASSUME NEW a \in Creators, NEW l \in PCs, Goto(a, l) PROVE JobType'
    <2>1. [job[a] EXCEPT !.pc = l] \in Jobs
      BY <1>0 DEF Jobs
    <2> QED BY <1>2, <1>4, <2>1 DEF Goto
  <1>5. ASSUME NEW a \in Clis, NEW v \in Vms, NEW n \in Names, NEW d \in BOOLEAN, cmd_snapshot_create(a, v, n, d)
        PROVE  JobType'
    <2>1. NewJob("lock", v, n, parent[v], d) \in Jobs
      BY Values DEF TypeInv, VmType, PCs
    <2> QED BY <1>2, <1>3, <1>5, <2>1 DEF cmd_snapshot_create
  <1>6. ASSUME NEW v \in Vms, create_podman_snapshot(v) PROVE JobType'
    <2>1. CASE UNCHANGED job
      BY <1>1, <2>1
    <2>2. CASE job' = [job EXCEPT ![v] = NewJob("lock", v, Key(v), known[v], FALSE)]
      <3>1. Key(v) \in Names
        BY <1>6, LineageAssumption DEF create_podman_snapshot, Key, TypeInv, VmType
      <3>2. NewJob("lock", v, Key(v), known[v], FALSE) \in Jobs
        BY <3>1, Values DEF TypeInv, VmType, PCs
      <3> QED BY <1>2, <1>3, <2>2, <3>2
    <2> QED BY <1>6, <2>1, <2>2 DEF create_podman_snapshot
  <1>7. ASSUME NEW v \in Vms, Exit(v) PROVE JobType'
    BY <1>2, <1>3, <1>7, Values DEF Exit
  <1>8. ASSUME NEW a \in Creators, Fail(a) PROVE JobType'
    BY <1>8, ReturnType DEF Fail
  <1>9. ASSUME NEW a \in Creators, Step(a) PROVE JobType'
    <2>0. job[a] \in Jobs
      BY <1>0
    <2>1. CASE acquire_snapshot_dir_lock(a) \/ acquire_vm_snapshot_lock(a) \/ ClearParent(a)
      BY <1>1, <1>4, <2>1 DEF acquire_snapshot_dir_lock, acquire_vm_snapshot_lock, ClearParent, PCs
    <2>2. CASE keeps_installed_generation(a) \/ SaveRefused(a) \/ RecordLate(a)
      BY <2>2, ReturnType DEF keeps_installed_generation, SaveRefused, RecordLate
    <2>3. CASE CheckLineage(a)
      <3>1. CASE Return(a)
        BY <3>1, ReturnType
      <3>2. CASE Goto(a, FirstStep(a))
        BY <1>4, <3>2 DEF FirstStep, PCs
      <3>3. CASE /\ record_snapshot_lineage_retry(a)
                 /\ job' = [job EXCEPT ![a].pc = "lock", ![a].parent = parent[job[a].vm],
                                       ![a].retries = IF a \in Clis THEN @ + 1 ELSE @]
        <4> DEFINE x == [job[a] EXCEPT !.pc = "lock", !.parent = parent[job[a].vm],
                                       !.retries = IF a \in Clis THEN @ + 1 ELSE @]
        <4>1. job' = [job EXCEPT ![a] = x]
          BY <1>0, <3>3
        <4>2. (IF a \in Clis THEN job[a].retries + 1 ELSE job[a].retries) \in 0 .. RetryLimit - 1
          BY <2>0, <3>3, LineageAssumption DEF record_snapshot_lineage_retry, Jobs
        <4>3. parent[job[a].vm] \in Names \union {NoName} /\ "lock" \in PCs
          BY <2>0 DEF Jobs, PCs, TypeInv, VmType
        <4>4. x \in Jobs
          BY <2>0, <4>2, <4>3 DEF Jobs
        <4> HIDE DEF x
        <4> QED BY <1>2, <4>1, <4>4
      <3> QED BY <2>3, <3>1, <3>2, <3>3 DEF CheckLineage
    <2>4. CASE Stage(a)
      <3>1. CASE Goto(a, "publish")
        BY <1>4, <3>1 DEF PCs
      <3>2. CASE \E m \in {"full", "diff"} : job' = [job EXCEPT ![a].pc = "save", ![a].mode = m]
        <4>1. PICK m \in {"full", "diff"} : job' = [job EXCEPT ![a] = [job[a] EXCEPT !.pc = "save", !.mode = m]]
          BY <1>0, <3>2
        <4>2. [job[a] EXCEPT !.pc = "save", !.mode = m] \in Jobs
          BY <2>0 DEF Jobs, PCs
        <4> QED BY <1>2, <4>1, <4>2
      <3>3. CASE HasMemory(job[a].parent) /\ job' = [job EXCEPT ![a].pc = "save", ![a].mode = "inplace",
                                                                ![a].img = snap[job[a].parent].mem]
        <4> DEFINE x == [job[a] EXCEPT !.pc = "save", !.mode = "inplace", !.img = snap[job[a].parent].mem]
        <4>1. job' = [job EXCEPT ![a] = x]
          BY <1>0, <3>3
        <4>2. snap[job[a].parent].mem \in Image
          BY <2>0, <3>3 DEF HasMemory, Jobs, TypeInv, SnapType, Snaps
        <4>3. x \in Jobs
          BY <2>0, <4>2 DEF Jobs, PCs
        <4> HIDE DEF x
        <4> QED BY <1>2, <4>1, <4>3
      <3> QED BY <2>4, <3>1, <3>2, <3>3 DEF Stage
    <2>5. CASE Save(a)
      <3>1. PICK l \in {"merge", "publish"}, i \in Image, p \in SUBSET Pages :
                job' = [job EXCEPT ![a].pc = l, ![a].img = i, ![a].pages = p, ![a].guest = mem[job[a].vm]]
        <4> DEFINE full == job[a].mode = "full" \/ dirty[job[a].vm] = {}
                   l == IF ~full /\ job[a].mode = "diff" THEN "merge" ELSE "publish"
                   i == CASE full -> mem[job[a].vm]
                          [] ~full /\ job[a].mode = "inplace" -> Merge(job[a].img, mem[job[a].vm], dirty[job[a].vm])
                          [] OTHER -> job[a].img
                   p == IF full THEN {} ELSE dirty[job[a].vm]
        <4>1. job' = [job EXCEPT ![a].pc = l, ![a].img = i, ![a].pages = p, ![a].guest = mem[job[a].vm]]
          BY <1>0, <2>5 DEF Save
        <4>2. mem[job[a].vm] \in Image /\ job[a].img \in Image /\ dirty[job[a].vm] \in SUBSET Pages
          BY <2>0 DEF Jobs, TypeInv, VmType
        <4>3. i \in Image
          BY <4>2, MergeType
        <4>4. l \in {"merge", "publish"} /\ p \in SUBSET Pages
          BY <4>2
        <4> HIDE DEF l, i, p
        <4> QED BY <4>1, <4>3, <4>4
      <3> DEFINE x == [job[a] EXCEPT !.pc = l, !.img = i, !.pages = p, !.guest = mem[job[a].vm]]
      <3>2. job' = [job EXCEPT ![a] = x]
        BY <1>0, <3>1
      <3>3. mem[job[a].vm] \in Image
        BY <2>0 DEF Jobs, TypeInv, VmType
      <3>4. x \in Jobs
        BY <2>0, <3>1, <3>3 DEF Jobs, PCs
      <3> HIDE DEF x
      <3> QED BY <1>2, <3>2, <3>4
    <2>6. CASE MergeDiff(a)
      <3> DEFINE i == Merge(snap[job[a].parent].mem, job[a].guest, job[a].pages)
                 x == [job[a] EXCEPT !.pc = "publish", !.img = i]
      <3>1. job' = [job EXCEPT ![a] = x]
        BY <1>0, <2>6 DEF MergeDiff
      <3>2. i \in Image
        <4>1. snap[job[a].parent].mem \in Image /\ job[a].guest \in Image
          BY <2>0, <2>6 DEF BaseType, MergeDiff, Jobs, TypeInv, SnapType, Snaps
        <4> QED BY <4>1, MergeType
      <3>3. x \in Jobs
        <4> HIDE DEF i
        <4> QED BY <2>0, <3>2 DEF Jobs, PCs
      <3> HIDE DEF x
      <3> QED BY <1>2, <3>1, <3>3
    <2>7. CASE Publish(a) \/ RecordAndRelease(a) \/ Release(a)
      BY <1>4, <2>7, ReturnType DEF Publish, RecordAndRelease, Release, PCs
    <2> QED BY <1>9, <2>1, <2>2, <2>3, <2>4, <2>5, <2>6, <2>7 DEF Step
  <1> QED BY <1>1, <1>5, <1>6, <1>7, <1>8, <1>9
      DEF Next, Boot, Reboot, Restore, GuestWrite, delete_snapshot, vars

LEMMA LockTypeStep ==
    ASSUME TypeInv, [Next]_vars PROVE LockType'
  <1> DEFINE L == [Names -> {"none", "shared", "exclusive"}]
  <1>0. LockType /\ dirlock \in [Creators -> L]
    BY DEF TypeInv, LockType
  <1>1. CASE UNCHANGED <<dirlock, vmlock, creates, used>>
    BY <1>0, <1>1 DEF LockType
  <1>2. ASSUME dirlock' \in [Creators -> L], vmlock' \in [Creators -> BOOLEAN], UNCHANGED <<creates, used>> PROVE LockType'
    BY <1>0, <1>2 DEF LockType
  <1>3. Unlocked \in L
    BY Values
  <1>4. ASSUME NEW a \in Clis, NEW v \in Vms, NEW n \in Names, NEW d \in BOOLEAN, cmd_snapshot_create(a, v, n, d)
        PROVE  LockType'
    BY <1>0, <1>4, LineageAssumption DEF cmd_snapshot_create, LockType
  <1>5. ASSUME NEW v \in Vms, Exit(v) PROVE LockType'
    <2> HIDE DEF L
    <2>1. dirlock' \in [Creators -> L] /\ vmlock' \in [Creators -> BOOLEAN]
      BY <1>0, <1>3, <1>5 DEF Exit, LockType
    <2> QED BY <1>2, <1>5, <2>1 DEF Exit
  <1>6. ASSUME NEW a \in Creators, Fail(a) PROVE LockType'
    BY <1>2, <1>6, ReturnType DEF Fail
  <1>7. ASSUME NEW a \in Creators, Step(a) PROVE LockType'
    <2>1. CASE acquire_snapshot_dir_lock(a)
      <3> DEFINE n == NextRequest(a)
                 x == [dirlock[a] EXCEPT ![n] = DirMode(a, n)]
      <3>1. DirMode(a, n) \in {"shared", "exclusive"}
        BY DEF DirMode
      <3>2. x \in L
        <4> HIDE DEF n
        <4> QED BY <1>0, <3>1
      <3>3. dirlock' = [dirlock EXCEPT ![a] = x]
        <4> HIDE DEF n
        <4>1. dirlock' = [dirlock EXCEPT ![a][n] = DirMode(a, n)]
          BY <2>1 DEF acquire_snapshot_dir_lock, n
        <4> QED BY <1>0, <4>1
      <3> HIDE DEF L, x
      <3>4. dirlock' \in [Creators -> L]
        BY <1>0, <3>2, <3>3
      <3> QED BY <1>0, <1>2, <2>1, <3>4 DEF acquire_snapshot_dir_lock, LockType
    <2>2. CASE acquire_vm_snapshot_lock(a)
      BY <1>0, <1>2, <2>2 DEF acquire_vm_snapshot_lock, LockType
    <2>3. CASE keeps_installed_generation(a) \/ SaveRefused(a) \/ RecordLate(a)
      BY <1>2, <2>3, ReturnType DEF keeps_installed_generation, SaveRefused, RecordLate
    <2>4. ASSUME dirlock' = [dirlock EXCEPT ![a] = Unlocked], vmlock' = [vmlock EXCEPT ![a] = FALSE],
                 UNCHANGED <<creates, used>>
          PROVE  LockType'
      <3> HIDE DEF L
      <3>1. dirlock' \in [Creators -> L] /\ vmlock' \in [Creators -> BOOLEAN]
        BY <1>0, <1>3, <2>4 DEF LockType
      <3> QED BY <1>2, <2>4, <3>1
    <2>5. CASE CheckLineage(a)
      BY <1>1, <1>2, <2>4, <2>5, ReturnType DEF CheckLineage
    <2>6. CASE Release(a)
      BY <1>2, <2>4, <2>6, ReturnType DEF Release
    <2> QED BY <1>1, <1>7, <2>1, <2>2, <2>3, <2>5, <2>6 DEF Step, ClearParent, Stage, Save, MergeDiff, Publish, RecordAndRelease
  <1> QED BY <1>1, <1>4, <1>5, <1>6, <1>7
      DEF Next, Boot, Reboot, create_podman_snapshot, Restore, GuestWrite, delete_snapshot, vars

LEMMA BaseTypeStep ==
    ASSUME TypeInv, [Next]_vars PROVE BaseType'
  <1>0. job \in [Creators -> Jobs] /\ BaseType /\ Vms \subseteq Creators /\ Clis \subseteq Creators
    BY DEF TypeInv, JobType, Creators
  <1>1. CASE UNCHANGED job
    BY <1>0, <1>1 DEF BaseType
  <1>2. ASSUME NEW a \in Creators, NEW x, job' = [job EXCEPT ![a] = x],
               x.pc = "merge" \/ (x.pc = "save" /\ x.mode = "diff") => x.parent # NoName
        PROVE  BaseType'
    BY <1>0, <1>2 DEF BaseType
  <1>3. ASSUME NEW a \in Creators, NEW l, l \notin {"merge", "save"}, Goto(a, l) PROVE BaseType'
    <2>1. job' = [job EXCEPT ![a] = [job[a] EXCEPT !.pc = l]] /\ [job[a] EXCEPT !.pc = l].pc = l
      BY <1>0, <1>3 DEF Goto, Jobs
    <2> QED BY <1>2, <1>3, <2>1
  <1>4. ASSUME NEW a \in Creators, Return(a) PROVE BaseType'
    BY <1>2, <1>4, Values DEF Return
  <1>5. ASSUME NEW v, NEW n, NEW par, NEW d PROVE NewJob("lock", v, n, par, d).pc = "lock"
    BY DEF NewJob
  <1>6. ASSUME NEW v \in Vms, Exit(v) \/ create_podman_snapshot(v) PROVE BaseType'
    BY <1>0, <1>1, <1>2, <1>5, <1>6, Values DEF Exit, create_podman_snapshot
  <1>7. ASSUME NEW a \in Clis, NEW v, NEW n, NEW d, cmd_snapshot_create(a, v, n, d) PROVE BaseType'
    BY <1>0, <1>2, <1>5, <1>7 DEF cmd_snapshot_create
  <1>8. ASSUME NEW a \in Creators, Stage(a) \/ Save(a) \/ CheckLineage(a) \/ MergeDiff(a) PROVE BaseType'
    <2>0. job[a] \in Jobs
      BY <1>0
    <2>1. CASE Stage(a)
      <3>1. \/ Goto(a, "publish") \/ HasMemory(job[a].parent)
            \/ job' = [job EXCEPT ![a].pc = "save", ![a].mode = "full"]
        BY <2>1 DEF Stage
      <3>2. \A b \in Creators \ {a} : job'[b] = job[b]
        BY <1>0, <2>1 DEF Stage, Goto
      <3>3. CASE Goto(a, "publish")
        BY <1>3, <3>3
      <3>4. CASE HasMemory(job[a].parent)
        <4>1. job[a].parent # NoName /\ job'[a].parent = job[a].parent
          BY <1>0, <2>0, <2>1, <3>4 DEF Stage, Goto, HasMemory, Jobs
        <4> QED BY <1>0, <3>2, <4>1 DEF BaseType
      <3>5. CASE job' = [job EXCEPT ![a].pc = "save", ![a].mode = "full"]
        <4>1. job'[a].mode = "full" /\ job'[a].pc = "save"
          BY <1>0, <2>0, <3>5 DEF Jobs
        <4> QED BY <1>0, <3>2, <4>1 DEF BaseType
      <3> QED BY <3>1, <3>3, <3>4, <3>5
    <2>2. CASE Save(a)
      <3>1. \A b \in Creators \ {a} : job'[b] = job[b]
        BY <1>0, <2>2 DEF Save
      <3>2. job'[a].parent = job[a].parent /\ job[a].pc = "save"
            /\ job'[a].pc = (IF job[a].mode # "full" /\ dirty[job[a].vm] # {} /\ job[a].mode = "diff"
                             THEN "merge" ELSE "publish")
        BY <1>0, <2>0, <2>2 DEF Save, Jobs
      <3> QED BY <1>0, <3>1, <3>2 DEF BaseType
    <2>3. CASE CheckLineage(a)
      <3>1. CASE job' = [job EXCEPT ![a].pc = "lock", ![a].parent = parent[job[a].vm],
                                    ![a].retries = IF a \in Clis THEN @ + 1 ELSE @]
        <4>1. job'[a].pc = "lock" /\ \A b \in Creators \ {a} : job'[b] = job[b]
          BY <1>0, <2>0, <3>1 DEF Jobs
        <4> QED BY <1>0, <4>1 DEF BaseType
      <3> QED BY <1>3, <1>4, <2>3, <3>1 DEF CheckLineage, FirstStep
    <2>4. CASE MergeDiff(a)
      <3>1. job'[a].pc = "publish" /\ \A b \in Creators \ {a} : job'[b] = job[b]
        BY <1>0, <2>0, <2>4 DEF MergeDiff, Jobs
      <3> QED BY <1>0, <3>1 DEF BaseType
    <2> QED BY <1>8, <2>1, <2>2, <2>3, <2>4
  <1>9. ASSUME NEW a \in Creators, Step(a) \/ Fail(a) PROVE BaseType'
    BY <1>1, <1>3, <1>4, <1>8, <1>9
    DEF Step, Fail, acquire_snapshot_dir_lock, keeps_installed_generation, acquire_vm_snapshot_lock,
           ClearParent, SaveRefused, Publish, RecordAndRelease, Release, RecordLate
  <1> QED BY <1>1, <1>6, <1>7, <1>9
      DEF Next, Boot, Reboot, Restore, GuestWrite, delete_snapshot, vars

LEMMA TypeStep == TypeInv /\ [Next]_vars => TypeInv'
  BY VmTypeStep, SnapTypeStep, JobTypeStep, LockTypeStep, BaseTypeStep DEF TypeInv

(* Type correctness of creators, locks and images, with the bound on the   *)
(* retries of record_snapshot_lineage_retry.                               *)
THEOREM LineageTypes == Spec => []TypeOK
  BY TypeInit, TypeStep, TypeInvOK, PTL DEF Spec

-----------------------------------------------------------------------------
(* Locks: a creator at work holds its target's generation lock exclusively *)
(* and its parent's at least shared; nobody else holds the former, and one *)
(* creator at a time holds the snapshot lock of a VM.                      *)

Locked == {"check", "clear", "stage", "save", "merge", "publish", "record", "release"}

HoldsAll(a) == \A n \in Requests(a) : dirlock[a][n] = DirMode(a, n)

LockInv ==
    /\ \A a \in Creators, n \in Names :
          dirlock[a][n] # "none" => n \in Requests(a) /\ dirlock[a][n] = DirMode(a, n)
    /\ \A a \in Creators : job[a].pc \in {"idle", "record_late"} => dirlock[a] = Unlocked
    /\ \A a \in Creators : job[a].pc = "lock" => ~HoldsAll(a)
    /\ \A a \in Creators : job[a].pc \in Locked \union {"vmlock"} => HoldsAll(a)
    /\ \A a \in Creators : vmlock[a] <=> job[a].pc \in Locked
    /\ \A a, b \in Creators : vmlock[a] /\ vmlock[b] /\ job[a].vm = job[b].vm => a = b
    /\ \A a, b \in Creators, n \in Names :
          dirlock[a][n] = "exclusive" /\ dirlock[b][n] # "none" => a = b
    /\ \A a \in Creators : job[a].pc # "idle" => st[job[a].vm] # "new"
    /\ \A v \in Vms : job[v].pc # "idle" => st[v] = "up" /\ job[v].vm = v /\ ~job[v].diskOnly
    /\ \A a \in Creators : job[a].pc = "record_late" => a \in Vms
    /\ \A a \in Creators : job[a].pc \in {"clear", "save", "merge", "record"} => ~job[a].diskOnly


(* The kinds of step: a creator works under its locks, gives them back, or *)
(* starts.                                                                 *)
Others(a) ==
    \A b \in Creators \ {a} : job'[b] = job[b] /\ dirlock'[b] = dirlock[b] /\ vmlock'[b] = vmlock[b]

Works(a) ==
    /\ Others(a) /\ dirlock'[a] = dirlock[a] /\ vmlock'[a] = vmlock[a]
    /\ job[a].pc \in Locked /\ job'[a].pc \in Locked
    /\ job'[a].target = job[a].target /\ job'[a].parent = job[a].parent
    /\ job'[a].vm = job[a].vm /\ job'[a].diskOnly = job[a].diskOnly
    /\ job'[a].pc \in {"clear", "save", "merge", "record"} => ~job[a].diskOnly

Drops(a) ==
    /\ Others(a) /\ dirlock'[a] = Unlocked /\ vmlock'[a] = FALSE
    /\ \/ job'[a].pc = "idle"
       \/ /\ job[a].pc \in Locked /\ job'[a].vm = job[a].vm /\ job'[a].diskOnly = job[a].diskOnly
          /\ job'[a].pc = "lock" \/ (job'[a].pc = "record_late" /\ a \in Vms)

Starts(a) ==
    /\ Others(a) /\ dirlock'[a] = dirlock[a] /\ vmlock'[a] = vmlock[a]
    /\ job[a].pc = "idle" /\ job'[a].pc = "lock"
    /\ st[job'[a].vm] = "up" /\ (a \in Vms => job'[a].vm = a /\ ~job'[a].diskOnly)

LEMMA ReturnDrops ==
    ASSUME TypeInv, NEW a \in Creators, Return(a) PROVE Drops(a) /\ job'[a] = Idle
  BY Values DEF Return, Drops, Others, TypeInv, JobType, LockType

LEMMA GotoEffect ==
    ASSUME TypeInv, NEW a \in Creators, NEW l, Goto(a, l)
    PROVE  /\ \A b \in Creators \ {a} : job'[b] = job[b]
           /\ job'[a].pc = l /\ job'[a].target = job[a].target /\ job'[a].parent = job[a].parent
           /\ job'[a].vm = job[a].vm /\ job'[a].diskOnly = job[a].diskOnly /\ job'[a].mode = job[a].mode
           /\ job'[a].pages = job[a].pages /\ job'[a].img = job[a].img /\ job'[a].guest = job[a].guest
  <1>1. job[a] \in Jobs /\ job'[a] = [job[a] EXCEPT !.pc = l] /\ \A b \in Creators \ {a} : job'[b] = job[b]
    BY DEF Goto, TypeInv, JobType
  <1> QED BY <1>1 DEF Jobs

LEMMA WorkSteps ==
    ASSUME TypeInv, LockInv, NEW a \in Creators,
           ClearParent(a) \/ Stage(a) \/ Save(a) \/ MergeDiff(a) \/ Publish(a) \/ RecordAndRelease(a)
    PROVE  Works(a) /\ st' = st
  <1>0. job \in [Creators -> Jobs] /\ job[a] \in Jobs
    BY DEF TypeInv, JobType
  <1>1. UNCHANGED <<dirlock, vmlock, st>>
    BY DEF ClearParent, Stage, Save, MergeDiff, Publish, RecordAndRelease, vmVars
  <1>2. \A b \in Creators \ {a} : job'[b] = job[b]
    BY <1>0, GotoEffect DEF ClearParent, Stage, Save, MergeDiff, Publish, RecordAndRelease, Goto
  <1>3. /\ job'[a].target = job[a].target /\ job'[a].parent = job[a].parent
        /\ job'[a].vm = job[a].vm /\ job'[a].diskOnly = job[a].diskOnly
    <2>1. CASE ClearParent(a) \/ Publish(a) \/ RecordAndRelease(a)
      BY <2>1, GotoEffect DEF ClearParent, Publish, RecordAndRelease
    <2>2. CASE Stage(a)
      <3>1. CASE Goto(a, "publish")
        BY <3>1, GotoEffect
      <3> QED BY <1>0, <2>2, <3>1 DEF Stage, Jobs
    <2>3. CASE Save(a)
      BY <1>0, <2>3 DEF Save, Jobs
    <2>4. CASE MergeDiff(a)
      BY <1>0, <2>4 DEF MergeDiff, Jobs
    <2> QED BY <2>1, <2>2, <2>3, <2>4
  <1>4. /\ job[a].pc \in Locked /\ job'[a].pc \in Locked
        /\ job'[a].pc \in {"clear", "save", "merge", "record"} => ~job[a].diskOnly
    <2>1. CASE ClearParent(a) \/ Publish(a) \/ RecordAndRelease(a)
      BY <2>1, GotoEffect DEF ClearParent, Publish, RecordAndRelease, Locked
    <2>2. CASE Stage(a)
      <3>1. CASE Goto(a, "publish")
        BY <2>2, <3>1, GotoEffect DEF Stage, Locked
      <3> QED BY <1>0, <2>2, <3>1 DEF Stage, Jobs, Locked
    <2>3. CASE Save(a)
      <3>1. job[a].pc = "save" /\ job'[a].pc \in {"merge", "publish"}
        BY <1>0, <2>3 DEF Save, Jobs
      <3> QED BY <3>1 DEF LockInv, Locked
    <2>4. CASE MergeDiff(a)
      BY <1>0, <2>4 DEF MergeDiff, Jobs, Locked
    <2> QED BY <2>1, <2>2, <2>3, <2>4
  <1> QED BY <1>1, <1>2, <1>3, <1>4 DEF Works, Others

LEMMA CheckSteps ==
    ASSUME TypeInv, LockInv, NEW a \in Creators, CheckLineage(a) PROVE (Works(a) \/ Drops(a)) /\ st' = st
  <1>0. job \in [Creators -> Jobs] /\ job[a] \in Jobs /\ job[a].pc = "check"
    BY DEF TypeInv, JobType, CheckLineage
  <1>1. CASE Return(a)
    BY <1>1, ReturnDrops DEF CheckLineage
  <1>2. CASE Goto(a, FirstStep(a)) /\ UNCHANGED <<dirlock, vmlock>>
    <2>1. FirstStep(a) \in {"clear", "stage"} /\ (FirstStep(a) = "clear" => ~job[a].diskOnly)
      BY DEF FirstStep
    <2> QED BY <1>0, <1>2, <2>1, GotoEffect DEF Works, Others, Locked, CheckLineage
  <1>3. CASE /\ job' = [job EXCEPT ![a].pc = "lock", ![a].parent = parent[job[a].vm],
                                   ![a].retries = IF a \in Clis THEN @ + 1 ELSE @]
             /\ dirlock' = [dirlock EXCEPT ![a] = Unlocked]
             /\ vmlock' = [vmlock EXCEPT ![a] = FALSE]
    <2>1. /\ job'[a].pc = "lock" /\ job'[a].vm = job[a].vm /\ job'[a].diskOnly = job[a].diskOnly
          /\ \A b \in Creators \ {a} : job'[b] = job[b]
      BY <1>0, <1>3 DEF Jobs
    <2>2. /\ dirlock'[a] = Unlocked /\ vmlock'[a] = FALSE
          /\ \A b \in Creators \ {a} : dirlock'[b] = dirlock[b] /\ vmlock'[b] = vmlock[b]
      BY <1>3 DEF TypeInv, LockType
    <2> QED BY <1>0, <2>1, <2>2 DEF Drops, Others, Locked, CheckLineage
  <1> QED BY <1>1, <1>2, <1>3 DEF CheckLineage

LEMMA ReleaseSteps ==
    ASSUME TypeInv, NEW a \in Creators, Release(a) PROVE Drops(a) /\ st' = st
  <1>1. CASE a \in Clis
    BY <1>1, ReturnDrops DEF Release
  <1>2. CASE a \notin Clis
    <2>1. Goto(a, "record_late") /\ a \in Vms /\ job[a].pc = "release"
      BY <1>2 DEF Release, Creators
    <2>2. /\ dirlock'[a] = Unlocked /\ vmlock'[a] = FALSE
          /\ \A b \in Creators \ {a} : dirlock'[b] = dirlock[b] /\ vmlock'[b] = vmlock[b]
      BY <1>2 DEF Release, TypeInv, LockType
    <2> QED BY <2>1, <2>2, GotoEffect DEF Release, Drops, Others, Locked
  <1> QED BY <1>1, <1>2

LEMMA StartSteps ==
    ASSUME TypeInv, NEW a \in Creators,
           \/ \E v \in Vms, n \in Names, d \in BOOLEAN : cmd_snapshot_create(a, v, n, d)
           \/ a \in Vms /\ create_podman_snapshot(a)
    PROVE  (Starts(a) \/ UNCHANGED <<job, dirlock, vmlock>>) /\ st' = st
  <1>1. ASSUME NEW v \in Vms, NEW n, NEW par, NEW d, st[v] = "up", job[a].pc = "idle",
               UNCHANGED <<st, dirlock, vmlock>>, a \in Vms => v = a /\ d = FALSE,
               job' = [job EXCEPT ![a] = NewJob("lock", v, n, par, d)]
        PROVE  Starts(a)
    <2>1. /\ NewJob("lock", v, n, par, d).pc = "lock" /\ NewJob("lock", v, n, par, d).vm = v
          /\ NewJob("lock", v, n, par, d).diskOnly = d
      BY DEF NewJob
    <2>2. job'[a] = NewJob("lock", v, n, par, d) /\ \A b \in Creators \ {a} : job'[b] = job[b]
      BY <1>1 DEF TypeInv, JobType
    <2> QED BY <1>1, <2>1, <2>2 DEF Starts, Others
  <1>2. CASE a \in Vms /\ create_podman_snapshot(a)
    <2>1. /\ st[a] = "up" /\ job[a].pc = "idle" /\ UNCHANGED <<st, dirlock, vmlock>>
          /\ job' = job \/ job' = [job EXCEPT ![a] = NewJob("lock", a, Key(a), known[a], FALSE)]
      BY <1>2 DEF create_podman_snapshot
    <2> QED BY <1>1, <1>2, <2>1
  <1>3. ASSUME NEW v \in Vms, NEW n \in Names, NEW d \in BOOLEAN, cmd_snapshot_create(a, v, n, d)
        PROVE  Starts(a) /\ st' = st
    <2>1. /\ st[v] = "up" /\ job[a].pc = "idle" /\ UNCHANGED <<st, dirlock, vmlock>> /\ a \notin Vms
          /\ job' = [job EXCEPT ![a] = NewJob("lock", v, n, parent[v], d)]
      BY <1>3, LineageAssumption DEF cmd_snapshot_create, vmVars
    <2> QED BY <1>1, <2>1
  <1> QED BY <1>2, <1>3

LEMMA NextRequestIsFree ==
    ASSUME TypeInv, LockInv, NEW a \in Creators, job[a].pc = "lock"
    PROVE  /\ NextRequest(a) \in Requests(a) /\ NextRequest(a) \in Names
           /\ dirlock[a][NextRequest(a)] = "none"
           /\ \A m \in Requests(a) : dirlock[a][m] = "none" => NextRequest(a) <= m
  <1> DEFINE S == {n \in Requests(a) : dirlock[a][n] = "none"}
  <1>1. Requests(a) \subseteq Names /\ job[a].target \in Names /\ Requests(a) \subseteq {job[a].target, job[a].parent}
    BY DEF Requests, TypeInv, JobType, Jobs
  <1>2. PICK x \in S : TRUE
    <2>1. PICK n \in Requests(a) : dirlock[a][n] # DirMode(a, n)
      BY DEF LockInv, HoldsAll
    <2>2. dirlock[a][n] = "none"
      BY <1>1, <2>1 DEF LockInv
    <2> QED BY <2>1, <2>2
  <1>3. \E m \in S : \A y \in S : m <= y
    <2>1. S \subseteq {job[a].target, job[a].parent} /\ \A y \in S : y \in Int
      BY <1>1 DEF Names
    <2> HIDE DEF S
    <2>2. PICK p \in S, q \in S : \A y \in S : y = p \/ y = q
      <3>1. CASE job[a].target \in S /\ job[a].parent \in S
        BY <2>1, <3>1
      <3>2. CASE ~ (job[a].target \in S /\ job[a].parent \in S)
        BY <1>2, <2>1, <3>2
      <3> QED BY <3>1, <3>2
    <2>3. p <= q \/ q <= p
      BY <2>1
    <2>4. p <= p /\ q <= q
      BY <2>1
    <2> QED BY <2>2, <2>3, <2>4
  <1>4. NextRequest(a) \in S /\ \A y \in S : NextRequest(a) <= y
    <2>1. NextRequest(a) = CHOOSE m \in S : \A y \in S : m <= y
      BY DEF NextRequest, Min
    <2> HIDE DEF S
    <2> QED BY <1>3, <2>1
  <1> QED BY <1>1, <1>4

LEMMA LockInvKept ==
    ASSUME TypeInv, LockInv, NEW a \in Creators, Works(a), st' = st PROVE LockInv'
  <1>1. \A b \in Creators : (Requests(b))' = Requests(b) /\ \A n : (DirMode(b, n))' = DirMode(b, n)
    BY DEF Works, Others, Requests, DirMode
  <1>2. \A b \in Creators : (HoldsAll(b))' <=> HoldsAll(b)
    BY <1>1 DEF HoldsAll, Works, Others
  <1>3. /\ \A b \in Creators : dirlock'[b] = dirlock[b] /\ vmlock'[b] = vmlock[b] /\ job'[b].vm = job[b].vm
        /\ \A b \in Creators : job'[b].diskOnly = job[b].diskOnly
        /\ \A b \in Creators : job'[b].pc = job[b].pc \/ (b = a /\ job[b].pc \in Locked /\ job'[b].pc \in Locked)
    BY DEF Works, Others
  <1>4. /\ (\A b \in Creators, n \in Names :
              dirlock[b][n] # "none" => n \in Requests(b) /\ dirlock[b][n] = DirMode(b, n))'
        /\ (\A b, c \in Creators, n \in Names :
              dirlock[b][n] = "exclusive" /\ dirlock[c][n] # "none" => b = c)'
    BY <1>1, <1>3 DEF LockInv
  <1>5. /\ (\A b \in Creators : job[b].pc \in {"idle", "record_late"} => dirlock[b] = Unlocked)'
        /\ (\A b \in Creators : job[b].pc = "lock" => ~HoldsAll(b))'
        /\ (\A b \in Creators : job[b].pc \in Locked \union {"vmlock"} => HoldsAll(b))'
        /\ (\A b \in Creators : vmlock[b] <=> job[b].pc \in Locked)'
        /\ (\A b \in Creators : job[b].pc = "record_late" => b \in Vms)'
    BY <1>2, <1>3 DEF LockInv, Locked, Unlocked
  <1>6. (\A b, c \in Creators : vmlock[b] /\ vmlock[c] /\ job[b].vm = job[c].vm => b = c)'
    BY <1>3 DEF LockInv
  <1>7. /\ (\A b \in Creators : job[b].pc # "idle" => st[job[b].vm] # "new")'
        /\ (\A v \in Vms : job[v].pc # "idle" => st[v] = "up" /\ job[v].vm = v /\ ~job[v].diskOnly)'
    BY <1>3 DEF LockInv, Locked, Creators
  <1>8. (\A b \in Creators : job[b].pc \in {"clear", "save", "merge", "record"} => ~job[b].diskOnly)'
    BY <1>3 DEF LockInv, Works
  <1> QED BY <1>4, <1>5, <1>6, <1>7, <1>8 DEF LockInv

LEMMA LockInvDropped ==
    ASSUME TypeInv, TypeInv', LockInv, NEW a \in Creators, Drops(a),
           \A v \in Vms : st'[v] = st[v] \/ (st'[v] # "new" /\ v = a /\ job'[a].pc = "idle")
    PROVE  LockInv'
  <1>0. \A n \in Names : dirlock'[a][n] = "none"
    BY DEF Drops, Unlocked
  <1>1. \A b \in Creators \ {a} :
            /\ job'[b] = job[b] /\ dirlock'[b] = dirlock[b] /\ vmlock'[b] = vmlock[b]
            /\ (Requests(b))' = Requests(b) /\ (HoldsAll(b))' = HoldsAll(b)
            /\ \A n : (DirMode(b, n))' = DirMode(b, n)
    BY DEF Drops, Others, Requests, DirMode, HoldsAll
  <1>2. /\ job'[a].pc \notin Locked \union {"vmlock"} /\ ~vmlock'[a]
    BY DEF Drops, Locked
  <1>3. (~HoldsAll(a))' /\ dirlock'[a] = Unlocked'
    <2>1. job'[a].target \in Names /\ job'[a].target \in Requests(a)'
      BY DEF Requests, TypeInv, JobType, Jobs
    <2> QED BY <1>0, <2>1 DEF HoldsAll, DirMode, Drops, Unlocked
  <1>4. /\ (\A b \in Creators, n \in Names :
              dirlock[b][n] # "none" => n \in Requests(b) /\ dirlock[b][n] = DirMode(b, n))'
        /\ (\A b, c \in Creators, n \in Names :
              dirlock[b][n] = "exclusive" /\ dirlock[c][n] # "none" => b = c)'
    BY <1>0, <1>1 DEF LockInv
  <1>5. /\ (\A b \in Creators : job[b].pc \in {"idle", "record_late"} => dirlock[b] = Unlocked)'
        /\ (\A b \in Creators : job[b].pc = "lock" => ~HoldsAll(b))'
        /\ (\A b \in Creators : job[b].pc \in Locked \union {"vmlock"} => HoldsAll(b))'
        /\ (\A b \in Creators : vmlock[b] <=> job[b].pc \in Locked)'
    BY <1>1, <1>2, <1>3 DEF LockInv, Unlocked, Locked
  <1>6. (\A b, c \in Creators : vmlock[b] /\ vmlock[c] /\ job[b].vm = job[c].vm => b = c)'
    BY <1>1, <1>2 DEF LockInv
  <1>7. (\A b \in Creators : job[b].pc # "idle" => st[job[b].vm] # "new")'
    BY <1>1 DEF LockInv, Drops, Locked, TypeInv, JobType, Jobs
  <1>8. (\A v \in Vms : job[v].pc # "idle" => st[v] = "up" /\ job[v].vm = v /\ ~job[v].diskOnly)'
    BY <1>1 DEF LockInv, Drops, Locked, Creators
  <1>9. /\ (\A b \in Creators : job[b].pc \in {"clear", "save", "merge", "record"} => ~job[b].diskOnly)'
        /\ (\A b \in Creators : job[b].pc = "record_late" => b \in Vms)'
    BY <1>1 DEF LockInv, Drops
  <1> QED BY <1>4, <1>5, <1>6, <1>7, <1>8, <1>9 DEF LockInv

LEMMA LockInvStarted ==
    ASSUME TypeInv, TypeInv', LockInv, NEW a \in Creators, Starts(a), st' = st PROVE LockInv'
  <1>0. dirlock[a] = Unlocked /\ \A n \in Names : dirlock'[a][n] = "none"
    BY DEF Starts, Unlocked, LockInv
  <1>1. \A b \in Creators \ {a} :
            /\ job'[b] = job[b] /\ dirlock'[b] = dirlock[b] /\ vmlock'[b] = vmlock[b]
            /\ (Requests(b))' = Requests(b) /\ (HoldsAll(b))' = HoldsAll(b)
            /\ \A n : (DirMode(b, n))' = DirMode(b, n)
    BY DEF Starts, Others, Requests, DirMode, HoldsAll
  <1>2. job'[a].pc = "lock" /\ ~vmlock'[a]
    BY DEF Starts, Locked, LockInv
  <1>3. (~HoldsAll(a))'
    <2>1. job'[a].target \in Names /\ job'[a].target \in Requests(a)'
      BY DEF Requests, TypeInv, JobType, Jobs
    <2> QED BY <1>0, <2>1 DEF HoldsAll, DirMode
  <1>4. /\ (\A b \in Creators, n \in Names :
              dirlock[b][n] # "none" => n \in Requests(b) /\ dirlock[b][n] = DirMode(b, n))'
        /\ (\A b, c \in Creators, n \in Names :
              dirlock[b][n] = "exclusive" /\ dirlock[c][n] # "none" => b = c)'
    BY <1>0, <1>1 DEF LockInv
  <1>5. /\ (\A b \in Creators : job[b].pc \in {"idle", "record_late"} => dirlock[b] = Unlocked)'
        /\ (\A b \in Creators : job[b].pc = "lock" => ~HoldsAll(b))'
        /\ (\A b \in Creators : job[b].pc \in Locked \union {"vmlock"} => HoldsAll(b))'
        /\ (\A b \in Creators : vmlock[b] <=> job[b].pc \in Locked)'
    BY <1>1, <1>2, <1>3 DEF LockInv, Unlocked, Locked
  <1>6. (\A b, c \in Creators : vmlock[b] /\ vmlock[c] /\ job[b].vm = job[c].vm => b = c)'
    BY <1>1, <1>2 DEF LockInv
  <1>7. (\A b \in Creators : job[b].pc # "idle" => st[job[b].vm] # "new")'
    BY <1>1 DEF LockInv, Starts
  <1>8. (\A v \in Vms : job[v].pc # "idle" => st[v] = "up" /\ job[v].vm = v /\ ~job[v].diskOnly)'
    BY <1>1 DEF LockInv, Starts, Creators
  <1>9. /\ (\A b \in Creators : job[b].pc \in {"clear", "save", "merge", "record"} => ~job[b].diskOnly)'
        /\ (\A b \in Creators : job[b].pc = "record_late" => b \in Vms)'
    BY <1>1, <1>2 DEF LockInv
  <1> QED BY <1>4, <1>5, <1>6, <1>7, <1>8, <1>9 DEF LockInv

(* A creator takes a lock: of the next generation, or of the VM. *)
LEMMA LockInvTaken ==
    ASSUME TypeInv, TypeInv', LockInv, NEW a \in Creators, acquire_snapshot_dir_lock(a) \/ acquire_vm_snapshot_lock(a)
    PROVE  LockInv'
  <1>0. /\ st' = st /\ \A b \in Creators \ {a} : job'[b] = job[b] /\ dirlock'[b] = dirlock[b] /\ vmlock'[b] = vmlock[b]
        /\ job'[a].target = job[a].target /\ job'[a].parent = job[a].parent
        /\ job'[a].vm = job[a].vm /\ job'[a].diskOnly = job[a].diskOnly
        /\ job[a].pc \in {"lock", "vmlock"} /\ job'[a].pc \in {"lock", "vmlock", "check"}
    <2>1. CASE acquire_snapshot_dir_lock(a)
      BY <2>1, GotoEffect DEF acquire_snapshot_dir_lock, vmVars, TypeInv, LockType
    <2>2. CASE acquire_vm_snapshot_lock(a)
      BY <2>2, GotoEffect DEF acquire_vm_snapshot_lock, vmVars, TypeInv, LockType
    <2> QED BY <2>1, <2>2
  <1>1. /\ \A b \in Creators : (Requests(b))' = Requests(b) /\ \A n : (DirMode(b, n))' = DirMode(b, n)
        /\ \A b \in Creators \ {a} : (HoldsAll(b))' = HoldsAll(b)
    BY <1>0 DEF Requests, DirMode, HoldsAll
  <1>2. /\ (\A b \in Creators : job[b].pc # "idle" => st[job[b].vm] # "new")'
        /\ (\A v \in Vms : job[v].pc # "idle" => st[v] = "up" /\ job[v].vm = v /\ ~job[v].diskOnly)'
        /\ (\A b \in Creators : job[b].pc \in {"clear", "save", "merge", "record"} => ~job[b].diskOnly)'
        /\ (\A b \in Creators : job[b].pc = "record_late" => b \in Vms)'
    BY <1>0 DEF LockInv, Creators
  <1>3. /\ (\A b \in Creators, n \in Names :
              dirlock[b][n] # "none" => n \in Requests(b) /\ dirlock[b][n] = DirMode(b, n))'
        /\ (\A b, c \in Creators, n \in Names :
              dirlock[b][n] = "exclusive" /\ dirlock[c][n] # "none" => b = c)'
        /\ (job[a].pc = "lock" => ~HoldsAll(a))'
        /\ (job[a].pc \in Locked \union {"vmlock"} => HoldsAll(a))'
    <2>1. CASE acquire_vm_snapshot_lock(a)
      <3>1. UNCHANGED dirlock /\ job[a].pc = "vmlock" /\ job'[a].pc = "check"
        BY <2>1, GotoEffect DEF acquire_vm_snapshot_lock
      <3>2. HoldsAll(a)'
        BY <1>1, <3>1 DEF LockInv, HoldsAll
      <3> QED BY <1>1, <3>1, <3>2 DEF LockInv
    <2>2. CASE acquire_snapshot_dir_lock(a)
      <3> DEFINE n == NextRequest(a)
      <3>1. n \in Requests(a) /\ n \in Names /\ dirlock[a][n] = "none" /\ job[a].pc = "lock"
        BY <2>2, NextRequestIsFree DEF acquire_snapshot_dir_lock
      <3>2. /\ \A b \in Creators \ {a} :
                  dirlock[b][n] = "none" \/ (dirlock[b][n] = "shared" /\ DirMode(a, n) = "shared")
            /\ dirlock' = [dirlock EXCEPT ![a][n] = DirMode(a, n)]
            /\ IF \E m \in Requests(a) \ {n} : dirlock[a][m] = "none" THEN UNCHANGED job ELSE Goto(a, "vmlock")
        BY <2>2 DEF acquire_snapshot_dir_lock, Grantable
      <3> HIDE DEF n
      <3>3. dirlock'[a][n] = DirMode(a, n) /\ \A m \in Names \ {n} : dirlock'[a][m] = dirlock[a][m]
        BY <3>1, <3>2 DEF TypeInv, LockType
      <3>4. Requests(a) \subseteq Names /\ \A m : DirMode(a, m) \in {"shared", "exclusive"}
        BY DEF Requests, DirMode, TypeInv, JobType, Jobs
      <3>5. (\A b \in Creators, m \in Names :
              dirlock[b][m] # "none" => m \in Requests(b) /\ dirlock[b][m] = DirMode(b, m))'
        BY <1>0, <1>1, <3>1, <3>3 DEF LockInv
      <3>6. (\A b, c \in Creators, m \in Names :
              dirlock[b][m] = "exclusive" /\ dirlock[c][m] # "none" => b = c)'
        <4> SUFFICES ASSUME NEW b \in Creators, NEW c \in Creators, NEW m \in Names,
                            dirlock'[b][m] = "exclusive", dirlock'[c][m] # "none"
                     PROVE  b = c
          OBVIOUS
        <4>1. CASE m # n \/ (b # a /\ c # a)
          <5>1. dirlock'[b][m] = dirlock[b][m] /\ dirlock'[c][m] = dirlock[c][m]
            BY <1>0, <3>3, <4>1
          <5> QED BY <5>1 DEF LockInv
        <4>2. CASE m = n /\ (b = a \/ c = a)
          BY <1>0, <3>2, <3>3, <3>4, <4>2
        <4> QED BY <4>1, <4>2
      <3>7. CASE \E m \in Requests(a) \ {n} : dirlock[a][m] = "none"
        <4>1. job' = job
          BY <3>2, <3>7
        <4>2. (~HoldsAll(a))'
          BY <1>1, <3>3, <3>4, <3>7 DEF HoldsAll
        <4> QED BY <3>1, <3>5, <3>6, <4>1, <4>2 DEF Locked
      <3>8. CASE ~ \E m \in Requests(a) \ {n} : dirlock[a][m] = "none"
        <4>1. job'[a].pc = "vmlock"
          BY <3>2, <3>8, GotoEffect
        <4>2. HoldsAll(a)'
          BY <1>1, <3>1, <3>3, <3>4, <3>8 DEF HoldsAll, LockInv
        <4> QED BY <3>5, <3>6, <4>1, <4>2
      <3> QED BY <3>7, <3>8
    <2> QED BY <2>1, <2>2
  <1>4. /\ (\A b \in Creators : vmlock[b] <=> job[b].pc \in Locked)'
        /\ (\A b, c \in Creators : vmlock[b] /\ vmlock[c] /\ job[b].vm = job[c].vm => b = c)'
    <2>1. CASE acquire_vm_snapshot_lock(a)
      <3>1. /\ vmlock'[a] = TRUE /\ job'[a].pc = "check"
            /\ \A b \in Creators \ {a} : vmlock[b] => job[b].vm # job[a].vm
        BY <2>1, GotoEffect DEF acquire_vm_snapshot_lock, VmLockFree, TypeInv, LockType
      <3> QED BY <1>0, <3>1 DEF LockInv, Locked
    <2>2. CASE acquire_snapshot_dir_lock(a)
      <3>1. vmlock' = vmlock /\ job[a].pc = "lock" /\ job'[a].pc \in {"lock", "vmlock"}
        BY <2>2, GotoEffect DEF acquire_snapshot_dir_lock
      <3>2. ~vmlock[a] /\ \A b \in Creators \ {a} : job'[b] = job[b]
        BY <1>0, <3>1 DEF LockInv, Locked
      <3> QED BY <3>1, <3>2 DEF LockInv, Locked
    <2> QED BY <2>1, <2>2
  <1>5. /\ (\A b \in Creators : job[b].pc \in {"idle", "record_late"} => dirlock[b] = Unlocked)'
        /\ (\A b \in Creators : job[b].pc = "lock" => ~HoldsAll(b))'
        /\ (\A b \in Creators : job[b].pc \in Locked \union {"vmlock"} => HoldsAll(b))'
    BY <1>0, <1>1, <1>3 DEF LockInv, Unlocked
  <1> QED BY <1>2, <1>3, <1>4, <1>5 DEF LockInv

LEMMA LockInvInit == Init => LockInv
  <1> SUFFICES ASSUME Init PROVE LockInv
    OBVIOUS
  <1>1. \A a \in Creators : job[a].pc = "idle" /\ dirlock[a] = Unlocked /\ ~vmlock[a]
    BY Values DEF Init
  <1>2. \A a \in Creators, n \in Names : dirlock[a][n] = "none"
    BY <1>1 DEF Unlocked
  <1>3. Vms \subseteq Creators
    BY DEF Creators
  <1> QED BY <1>1, <1>2, <1>3 DEF LockInv, Locked

LEMMA LockInvStep == TypeInv /\ TypeInv' /\ LockInv /\ [Next]_vars => LockInv'
  <1> SUFFICES ASSUME TypeInv, TypeInv', LockInv, [Next]_vars PROVE LockInv'
    OBVIOUS
  <1>0. Vms \subseteq Creators /\ Clis \subseteq Creators
    BY DEF Creators
  <1>1. ASSUME UNCHANGED <<job, dirlock, vmlock>>, \A v \in Vms : st'[v] = st[v] \/ (st[v] = "new" /\ st'[v] = "up")
        PROVE  LockInv'
    <2>1. \A a \in Creators : job[a].vm \in Vms
      BY DEF TypeInv, JobType, Jobs
    <2>2. /\ (\A b \in Creators : job[b].pc # "idle" => st[job[b].vm] # "new")'
          /\ (\A v \in Vms : job[v].pc # "idle" => st[v] = "up" /\ job[v].vm = v /\ ~job[v].diskOnly)'
      BY <1>0, <1>1, <2>1 DEF LockInv
    <2> QED BY <1>1, <2>2 DEF LockInv, HoldsAll, Requests, DirMode, Unlocked
  <1>2. ASSUME NEW a \in Creators, Step(a) \/ Fail(a) PROVE LockInv'
    <2>1. CASE ClearParent(a) \/ Stage(a) \/ Save(a) \/ MergeDiff(a) \/ Publish(a) \/ RecordAndRelease(a)
      BY <2>1, WorkSteps, LockInvKept
    <2>2. CASE CheckLineage(a)
      BY <2>2, CheckSteps, LockInvKept, LockInvDropped
    <2>3. CASE Release(a)
      BY <2>3, ReleaseSteps, LockInvDropped
    <2>4. CASE keeps_installed_generation(a) \/ SaveRefused(a) \/ RecordLate(a) \/ Fail(a)
      <3>1. Return(a) /\ st' = st
        BY <2>4 DEF keeps_installed_generation, SaveRefused, RecordLate, Fail
      <3> QED BY <3>1, ReturnDrops, LockInvDropped
    <2>5. CASE acquire_snapshot_dir_lock(a) \/ acquire_vm_snapshot_lock(a)
      BY <2>5, LockInvTaken
    <2> QED BY <1>2, <2>1, <2>2, <2>3, <2>4, <2>5 DEF Step
  <1>3. ASSUME NEW v \in Vms, Exit(v) PROVE LockInv'
    <2>1. Drops(v) /\ job'[v].pc = "idle"
      BY <1>0, <1>3, Values DEF Exit, Drops, Others, TypeInv, JobType, LockType
    <2>2. \A u \in Vms : st'[u] = st[u] \/ (st'[u] # "new" /\ u = v /\ job'[v].pc = "idle")
      BY <1>3, <2>1 DEF Exit, TypeInv, VmType
    <2> QED BY <1>0, <2>1, <2>2, LockInvDropped
  <1>4. ASSUME NEW v \in Vms, create_podman_snapshot(v) PROVE LockInv'
    <2>1. v \in Creators
      BY <1>0
    <2>2. (Starts(v) \/ UNCHANGED <<job, dirlock, vmlock>>) /\ st' = st
      BY <1>4, <2>1, StartSteps
    <2> QED BY <1>1, <2>1, <2>2, LockInvStarted
  <1>5. ASSUME NEW a \in Clis, NEW v \in Vms, NEW n \in Names, NEW d \in BOOLEAN, cmd_snapshot_create(a, v, n, d)
        PROVE  LockInv'
    <2>1. a \in Creators
      BY <1>0
    <2>2. (Starts(a) \/ UNCHANGED <<job, dirlock, vmlock>>) /\ st' = st
      BY <1>5, <2>1, StartSteps
    <2> QED BY <1>1, <2>1, <2>2, LockInvStarted
  <1>6. ASSUME NEW v \in Vms, Boot(v) \/ Reboot(v) \/ \E n \in Names : Restore(v, n) PROVE LockInv'
    <2>1. UNCHANGED <<job, dirlock, vmlock>> /\ \A u \in Vms : st'[u] = st[u] \/ (st[u] = "new" /\ st'[u] = "up")
      BY <1>6 DEF Boot, Reboot, Restore, TypeInv, VmType
    <2> QED BY <1>1, <2>1
  <1>7. CASE \/ \E v \in Vms, pg \in Pages : GuestWrite(v, pg)
             \/ \E n \in Names : delete_snapshot(n)
             \/ UNCHANGED vars
    BY <1>1, <1>7 DEF GuestWrite, delete_snapshot, vars, vmVars
  <1> QED BY <1>2, <1>3, <1>4, <1>5, <1>6, <1>7 DEF Next

-----------------------------------------------------------------------------
(* Deadlock: the generation locks are taken in the order of their names,   *)
(* so who waits for a name holds smaller ones only.                        *)

OrderInv ==
    \A a \in Creators :
        job[a].pc = "lock" =>
            \A n, m \in Requests(a) : dirlock[a][n] # "none" /\ dirlock[a][m] = "none" => n < m

LEMMA LockStepKinds ==
    ASSUME TypeInv, LockInv, [Next]_vars
    PROVE  \/ UNCHANGED <<job, dirlock, vmlock>>
           \/ \E a \in Creators : \/ Works(a) \/ Drops(a) \/ Starts(a)
                                  \/ acquire_snapshot_dir_lock(a) \/ acquire_vm_snapshot_lock(a)
  <1>0. Vms \subseteq Creators /\ Clis \subseteq Creators
    BY DEF Creators
  <1>1. ASSUME NEW a \in Creators, Step(a) \/ Fail(a)
        PROVE  Works(a) \/ Drops(a) \/ acquire_snapshot_dir_lock(a) \/ acquire_vm_snapshot_lock(a)
    <2>1. CASE ClearParent(a) \/ Stage(a) \/ Save(a) \/ MergeDiff(a) \/ Publish(a) \/ RecordAndRelease(a)
      BY <2>1, WorkSteps
    <2>2. CASE CheckLineage(a)
      BY <2>2, CheckSteps
    <2>3. CASE Release(a)
      BY <2>3, ReleaseSteps
    <2>4. CASE keeps_installed_generation(a) \/ SaveRefused(a) \/ RecordLate(a) \/ Fail(a)
      <3>1. Return(a)
        BY <2>4 DEF keeps_installed_generation, SaveRefused, RecordLate, Fail
      <3> QED BY <3>1, ReturnDrops
    <2> QED BY <1>1, <2>1, <2>2, <2>3, <2>4 DEF Step
  <1>2. ASSUME NEW v \in Vms, Exit(v) PROVE Drops(v)
    BY <1>0, <1>2, Values DEF Exit, Drops, Others, TypeInv, JobType, LockType
  <1>3. ASSUME NEW v \in Vms, create_podman_snapshot(v) PROVE Starts(v) \/ UNCHANGED <<job, dirlock, vmlock>>
    BY <1>0, <1>3, StartSteps
  <1>4. ASSUME NEW a \in Clis, NEW v \in Vms, NEW n \in Names, NEW d \in BOOLEAN, cmd_snapshot_create(a, v, n, d)
        PROVE  Starts(a) \/ UNCHANGED <<job, dirlock, vmlock>>
    BY <1>0, <1>4, StartSteps
  <1>5. CASE \/ \E v \in Vms : Boot(v) \/ Reboot(v) \/ \E n \in Names : Restore(v, n)
             \/ \E v \in Vms, pg \in Pages : GuestWrite(v, pg)
             \/ \E n \in Names : delete_snapshot(n)
             \/ UNCHANGED vars
    BY <1>5 DEF Boot, Reboot, Restore, GuestWrite, delete_snapshot, vars
  <1> QED BY <1>0, <1>1, <1>2, <1>3, <1>4, <1>5 DEF Next

LEMMA OrderInvStep == TypeInv /\ TypeInv' /\ LockInv /\ OrderInv /\ [Next]_vars => OrderInv'
  <1> SUFFICES ASSUME TypeInv, TypeInv', LockInv, OrderInv, [Next]_vars, NEW b \in Creators, job'[b].pc = "lock",
                      NEW n \in Requests(b)', NEW m \in Requests(b)', dirlock'[b][n] # "none", dirlock'[b][m] = "none"
               PROVE  n < m
    BY DEF OrderInv
  <1>0. Requests(b) \subseteq Names /\ Requests(b)' \subseteq Names
    BY DEF Requests, TypeInv, JobType, Jobs
  <1>1. ASSUME job'[b] = job[b], dirlock'[b] = dirlock[b] PROVE n < m
    BY <1>1 DEF OrderInv, Requests
  <1>2. ASSUME dirlock[b] = Unlocked \/ dirlock'[b] = Unlocked, dirlock'[b] = dirlock[b] \/ dirlock'[b] = Unlocked PROVE FALSE
    BY <1>0, <1>2 DEF Unlocked
  <1>3. CASE UNCHANGED <<job, dirlock, vmlock>>
    BY <1>1, <1>3
  <1>4. ASSUME NEW a \in Creators, Works(a) \/ Drops(a) \/ Starts(a) PROVE n < m
    <2>1. CASE b # a
      BY <1>1, <1>4, <2>1 DEF Works, Drops, Starts, Others
    <2>2. CASE b = a
      <3>1. ~Works(a)
        BY <2>2 DEF Works, Locked
      <3>2. Drops(a) => dirlock'[b] = Unlocked
        BY <2>2 DEF Drops
      <3>3. Starts(a) => dirlock[b] = Unlocked /\ dirlock'[b] = dirlock[b]
        BY <2>2 DEF Starts, LockInv
      <3> QED BY <1>2, <1>4, <3>1, <3>2, <3>3
    <2> QED BY <2>1, <2>2
  <1>5. ASSUME NEW a \in Creators, acquire_vm_snapshot_lock(a) PROVE n < m
    <2>1. dirlock' = dirlock /\ job'[a].pc = "check" /\ \A c \in Creators \ {a} : job'[c] = job[c]
      BY <1>5, GotoEffect DEF acquire_vm_snapshot_lock
    <2> QED BY <1>1, <2>1
  <1>6. ASSUME NEW a \in Creators, acquire_snapshot_dir_lock(a) PROVE n < m
    <2> DEFINE k == NextRequest(a)
    <2>1. /\ job[a].pc = "lock" /\ dirlock' = [dirlock EXCEPT ![a][k] = DirMode(a, k)]
          /\ job' = job \/ Goto(a, "vmlock")
      BY <1>6 DEF acquire_snapshot_dir_lock
    <2>2. /\ k \in Requests(a) /\ k \in Names /\ dirlock[a][k] = "none"
          /\ \A y \in Requests(a) : dirlock[a][y] = "none" => k <= y
      BY <2>1, NextRequestIsFree
    <2> HIDE DEF k
    <2>3. \A c \in Creators \ {a} : job'[c] = job[c] /\ dirlock'[c] = dirlock[c]
      BY <2>1, GotoEffect DEF TypeInv, LockType
    <2>4. CASE b # a
      BY <1>1, <2>3, <2>4
    <2>5. CASE b = a
      <3>1. job' = job /\ Requests(b)' = Requests(b)
        BY <2>1, <2>5, GotoEffect DEF Requests
      <3>2. dirlock'[a][k] = DirMode(a, k) /\ \A y \in Names \ {k} : dirlock'[a][y] = dirlock[a][y]
        BY <2>1, <2>2 DEF TypeInv, LockType
      <3>3. m # k /\ dirlock[a][m] = "none"
        BY <1>0, <2>5, <3>2 DEF DirMode
      <3>4. CASE n = k
        <4>1. k <= m /\ k \in Int /\ m \in Int
          BY <1>0, <2>2, <2>5, <3>1, <3>3 DEF Names
        <4> QED BY <3>3, <3>4, <4>1
      <3>5. CASE n # k
        <4>1. dirlock[a][n] # "none"
          BY <1>0, <2>5, <3>2, <3>5
        <4> QED BY <2>1, <2>5, <3>1, <3>3, <4>1 DEF OrderInv
      <3> QED BY <3>4, <3>5
    <2> QED BY <2>4, <2>5
  <1> QED BY <1>3, <1>4, <1>5, <1>6, LockStepKinds

(* Of the names waited for take the greatest: who holds it waits for a     *)
(* greater one, or works.                                                  *)
LEMMA OrderMoves == TypeInv /\ LockInv /\ OrderInv => SomeCreatorMoves
  <1> SUFFICES ASSUME TypeInv, LockInv, OrderInv, NEW c \in Creators, job[c].pc # "idle",
                      \A a \in Creators : job[a].pc # "idle" => WaitsForLock(a)
               PROVE  FALSE
    BY DEF SomeCreatorMoves
  <1>1. \A a \in Creators : job[a].pc \in {"idle", "lock", "vmlock"}
    BY DEF WaitsForLock
  <1>2. \A a \in Creators : ~vmlock[a]
    BY <1>1 DEF LockInv, Locked
  <1>3. \A a \in Creators : job[a].pc # "idle" => job[a].pc = "lock"
    BY <1>1, <1>2 DEF WaitsForLock, VmLockFree
  <1> DEFINE W == {a \in Creators : job[a].pc = "lock"}
             T == {NameCount - NextRequest(a) : a \in W}
             R == OpToRel(<, Nat)
  <1>4. ASSUME NEW a \in W PROVE NextRequest(a) \in Names
    BY <1>4, NextRequestIsFree
  <1>5. T \subseteq Nat /\ T # {}
    <2>1. \A n \in Names : NameCount - n \in Nat
      BY LineageAssumption DEF Names
    <2>2. c \in W
      BY <1>3
    <2> QED BY <1>4, <2>1, <2>2
  <1>6. PICK x \in T : \A y \in T : ~(y < x)
    <2>1. \E x \in T : \A y \in T : ~(<<y, x>> \in R)
      <3> HIDE DEF T, R
      <3>1. IsWellFoundedOn(R, Nat)
        BY NatLessThanWellFounded DEF R
      <3> QED BY <1>5, <3>1, WFMin
    <2> HIDE DEF T
    <2>2. \A x, y \in T : y < x => <<y, x>> \in R
      BY <1>5 DEF OpToRel
    <2> QED BY <2>1, <2>2
  <1>7. PICK a \in W : x = NameCount - NextRequest(a)
    BY <1>6
  <1>8. PICK b \in Creators \ {a} : dirlock[b][NextRequest(a)] # "none"
    BY <1>7 DEF WaitsForLock, Grantable
  <1>9. NextRequest(a) \in Requests(b) /\ b \in W
    BY <1>3, <1>4, <1>7, <1>8 DEF LockInv, Unlocked
  <1>10. NextRequest(a) < NextRequest(b)
    BY <1>8, <1>9, NextRequestIsFree DEF OrderInv
  <1>11. NameCount - NextRequest(b) < x
    BY <1>4, <1>7, <1>9, <1>10, LineageAssumption DEF Names
  <1> QED BY <1>6, <1>9, <1>11

(* Some creator can always go on (SomeCreatorMoves), whatever names the    *)
(* creates have as targets and parents: the order in which                 *)
(* snapshot_create_lock_requests sorts the generation locks excludes a     *)
(* circle of waits, and the per-VM lock is taken last.                     *)
THEOREM CreatorsNeverDeadlock == Spec => []SomeCreatorMoves
  <1> DEFINE I == TypeInv /\ LockInv /\ OrderInv
  <1>1. Init => I
    <2>1. Init => OrderInv
      BY Values DEF Init, OrderInv
    <2> QED BY <2>1, TypeInit, LockInvInit
  <1>2. I /\ [Next]_vars => I'
    BY TypeStep, LockInvStep, OrderInvStep
  <1>3. I => SomeCreatorMoves
    BY OrderMoves
  <1> QED BY <1>1, <1>2, <1>3, PTL DEF Spec

-----------------------------------------------------------------------------
(* Image x is the memory of VM v but for the pages written since its save. *)
Base(v, x) == st[v] = "up" => \A pg \in Pages \ dirty[v] : x[pg] = mem[v][pg]

SoundParent(v, n) == HasMemory(n) => Base(v, snap[n].mem)

(* What a creator has in hand at each step. *)
CreateOK(a) ==
    LET j == job[a] IN
    /\ j.pc \in {"clear", "stage", "save"} /\ ~j.diskOnly => SoundParent(j.vm, j.parent)
    /\ j.pc = "save" /\ j.mode = "inplace" => Base(j.vm, j.img)
    /\ j.pc = "save" /\ j.mode = "diff" => HasMemory(j.parent)
    /\ j.pc = "merge" =>
          HasMemory(j.parent) /\ \A pg \in Pages \ j.pages : snap[j.parent].mem[pg] = j.guest[pg]
    /\ j.pc = "publish" /\ ~j.diskOnly => j.img = j.guest
    /\ j.pc \in {"merge", "publish"} /\ ~j.diskOnly => Base(j.vm, j.guest)
    /\ j.pc \in {"record", "release"} /\ ~j.diskOnly => SoundParent(j.vm, j.target)

CreateInv == \A a \in Creators : CreateOK(a)

(* What a step of somebody else leaves a creator at work with: its images, *)
(* and its VM's memory but for pages that are dirty now.                   *)
Kept(b) ==
    /\ \A n \in Requests(b) : snap'[n] = snap[n]
    /\ st'[job[b].vm] = "up" =>
          /\ st[job[b].vm] = "up" /\ dirty[job[b].vm] \subseteq dirty'[job[b].vm]
          /\ \A pg \in Pages \ dirty'[job[b].vm] : mem'[job[b].vm][pg] = mem[job[b].vm][pg]

LEMMA CreateOKKept ==
    ASSUME TypeInv, LockInv, NEW b \in Creators, CreateOK(b), job'[b] = job[b], job[b].pc \in Locked => Kept(b)
    PROVE  CreateOK(b)'
  <1>1. CASE job[b].pc \notin Locked
    BY <1>1 DEF CreateOK, Locked
  <1>2. CASE job[b].pc \in Locked
    <2>1. Kept(b) /\ job[b].target \in Requests(b) /\ (job[b].parent # NoName => job[b].parent \in Requests(b))
      BY <1>2 DEF Requests
    <2>2. ASSUME NEW x, Base(job[b].vm, x) PROVE Base(job[b].vm, x)'
      BY <2>1, <2>2 DEF Base, Kept
    <2>3. ASSUME NEW n \in Requests(b) \union {NoName}
          PROVE  /\ HasMemory(n)' = HasMemory(n)
                 /\ SoundParent(job[b].vm, n) => SoundParent(job[b].vm, n)'
      <3>1. CASE n = NoName
        BY <3>1 DEF HasMemory, SoundParent
      <3>2. CASE n # NoName
        <4>1. snap'[n] = snap[n]
          BY <2>1, <3>2 DEF Kept
        <4>2. HasMemory(n)' = HasMemory(n)
          BY <4>1 DEF HasMemory
        <4> QED BY <2>2, <4>1, <4>2 DEF SoundParent
      <3> QED BY <3>1, <3>2
    <2>4. job[b].parent \in Requests(b) \union {NoName} /\ job[b].target \in Requests(b) \union {NoName}
      BY <2>1
    <2>5. HasMemory(job[b].parent) => snap'[job[b].parent] = snap[job[b].parent]
      BY <2>1 DEF HasMemory, Kept
    <2> QED BY <2>2, <2>3, <2>4, <2>5 DEF CreateOK
  <1> QED BY <1>1, <1>2

(* A creator's images are under its locks. *)
LEMMA RequestsAreLocked ==
    ASSUME TypeInv, LockInv, NEW b \in Creators, job[b].pc \in Locked, NEW n \in Requests(b)
    PROVE  /\ n \in Names /\ dirlock[b][n] # "none"
           /\ \A a \in Creators \ {b} : job[a].pc \in Locked => job[a].target # n
  <1>1. n \in Names
    BY DEF Requests, TypeInv, JobType, Jobs
  <1>2. dirlock[b][n] # "none"
    BY DEF LockInv, HoldsAll, DirMode
  <1>3. ASSUME NEW a \in Creators \ {b}, job[a].pc \in Locked PROVE dirlock[a][job[a].target] = "exclusive"
    BY <1>3 DEF LockInv, HoldsAll, DirMode, Requests
  <1> QED BY <1>1, <1>2, <1>3 DEF LockInv

LEMMA OthersKeep ==
    ASSUME TypeInv, LockInv, NEW b \in Creators, job[b].pc \in Locked, NEW a \in Creators \ {b}, Step(a) \/ Fail(a)
    PROVE  Kept(b)
  <1>0. mem' = mem /\ st' = st /\ job[b].vm \in Vms
    BY DEF Step, Fail, acquire_snapshot_dir_lock, keeps_installed_generation, acquire_vm_snapshot_lock,
           CheckLineage, ClearParent, Stage, Save, SaveRefused, MergeDiff, Publish, RecordAndRelease, Release,
           RecordLate, vmVars, TypeInv, JobType, Jobs
  <1>1. \A n \in Requests(b) : snap'[n] = snap[n]
    <2>1. snap' = snap \/ (job[a].pc = "publish" /\ \A n \in Names \ {job[a].target} : snap'[n] = snap[n])
      <3>1. CASE Publish(a) \/ Fail(a)
        BY <3>1 DEF Publish, Fail, TypeInv, SnapType
      <3> QED BY <3>1 DEF Step, acquire_snapshot_dir_lock, keeps_installed_generation, acquire_vm_snapshot_lock,
           CheckLineage, ClearParent, Stage, Save, SaveRefused, MergeDiff, RecordAndRelease, Release, RecordLate
    <2>2. "publish" \in Locked
      BY DEF Locked
    <2> QED BY <2>1, <2>2, RequestsAreLocked
  <1>2. dirty'[job[b].vm] = dirty[job[b].vm]
    <2>1. dirty' = dirty \/ (job[a].pc = "save" /\ \A v \in Vms \ {job[a].vm} : dirty'[v] = dirty[v])
      <3>1. CASE Save(a) \/ Fail(a)
        BY <3>1 DEF Save, Fail, TypeInv, VmType
      <3> QED BY <3>1 DEF Step, acquire_snapshot_dir_lock, keeps_installed_generation, acquire_vm_snapshot_lock,
           CheckLineage, ClearParent, Stage, Publish, SaveRefused, MergeDiff, RecordAndRelease, Release, RecordLate,
           vmVars
    <2>2. job[a].pc = "save" => job[a].vm # job[b].vm
      BY DEF LockInv, Locked
    <2> QED BY <1>0, <2>1, <2>2
  <1> QED BY <1>0, <1>1, <1>2 DEF Kept

LEMMA EnvironmentKeeps ==
    ASSUME TypeInv, LockInv, NEW b \in Creators, job[b].pc \in Locked,
           \/ \E v \in Vms : Boot(v) \/ (Reboot(v) /\ v # job[b].vm) \/ Exit(v) \/ create_podman_snapshot(v)
           \/ \E v \in Vms, n \in Names : Restore(v, n)
           \/ \E v \in Vms, pg \in Pages : GuestWrite(v, pg)
           \/ \E n \in Names : delete_snapshot(n)
           \/ \E a \in Clis, v \in Vms, n \in Names, d \in BOOLEAN : cmd_snapshot_create(a, v, n, d)
    PROVE  Kept(b)
  <1>0. job[b].vm \in Vms /\ st[job[b].vm] # "new"
    BY DEF TypeInv, JobType, Jobs, LockInv, Locked
  <1>1. CASE UNCHANGED <<st, mem, dirty, snap>>
    BY <1>1 DEF Kept
  <1>2. ASSUME NEW v \in Vms, Boot(v) \/ (Reboot(v) /\ v # job[b].vm) \/ \E n \in Names : Restore(v, n) PROVE Kept(b)
    <2>1. v # job[b].vm /\ snap' = snap
      BY <1>0, <1>2 DEF Boot, Reboot, Restore
    <2>2. \A u \in Vms \ {v} : st'[u] = st[u] /\ mem'[u] = mem[u] /\ dirty'[u] = dirty[u]
      BY <1>2 DEF Boot, Reboot, Restore, TypeInv, VmType
    <2> QED BY <1>0, <2>1, <2>2 DEF Kept
  <1>3. ASSUME NEW v \in Vms, Exit(v) PROVE Kept(b)
    BY <1>0, <1>3 DEF Exit, Kept, TypeInv, VmType
  <1>4. ASSUME NEW v \in Vms, NEW pg \in Pages, GuestWrite(v, pg) PROVE Kept(b)
    <2>1. snap' = snap /\ st' = st
      BY <1>4 DEF GuestWrite
    <2>2. /\ dirty'[v] = dirty[v] \union {pg} /\ \A q \in Pages \ {pg} : mem'[v][q] = mem[v][q]
          /\ \A u \in Vms \ {v} : mem'[u] = mem[u] /\ dirty'[u] = dirty[u]
      BY <1>4 DEF GuestWrite, TypeInv, VmType, Image
    <2> QED BY <1>0, <2>1, <2>2 DEF Kept
  <1>5. ASSUME NEW n \in Names, delete_snapshot(n) PROVE Kept(b)
    <2>1. n \notin Requests(b)
      BY <1>5, RequestsAreLocked DEF delete_snapshot
    <2>2. \A m \in Names \ {n} : snap'[m] = snap[m]
      BY <1>5 DEF delete_snapshot, TypeInv, SnapType
    <2> QED BY <1>5, <2>1, <2>2, RequestsAreLocked DEF delete_snapshot, vmVars, Kept
  <1> QED BY <1>1, <1>2, <1>3, <1>4, <1>5 DEF create_podman_snapshot, cmd_snapshot_create, vmVars

(* The steps of a creator itself: it goes on from a parent that is sound   *)
(* when it is read again under the locks.                                  *)
LEMMA OwnStep ==
    ASSUME TypeInv, LockInv, NEW a \in Creators, CreateOK(a), Step(a) \/ Fail(a),
           job[a].pc = "check" /\ st[job[a].vm] = "up" /\ parent[job[a].vm] = job[a].parent /\ ~job[a].diskOnly
               => SoundParent(job[a].vm, job[a].parent)
    PROVE  CreateOK(a)'
  <1>0. job \in [Creators -> Jobs] /\ job[a] \in Jobs /\ job[a].vm \in Vms /\ mem[job[a].vm] \in Image
    BY DEF TypeInv, JobType, Jobs, VmType
  <1>1. ASSUME job'[a].pc \notin Locked PROVE CreateOK(a)'
    BY <1>1 DEF CreateOK, Locked
  <1>2. CASE keeps_installed_generation(a) \/ SaveRefused(a) \/ RecordLate(a) \/ Fail(a)
    <2>1. job'[a] = Idle
      BY <1>2, ReturnDrops DEF keeps_installed_generation, SaveRefused, RecordLate, Fail
    <2> QED BY <1>1, <2>1, Values DEF Locked
  <1>3. CASE Release(a)
    <2>1. job'[a].pc \notin Locked
      BY <1>3, ReleaseSteps, Values DEF Drops, Locked
    <2> QED BY <1>1, <2>1
  <1>4. CASE acquire_snapshot_dir_lock(a) \/ acquire_vm_snapshot_lock(a)
    <2>1. job'[a].pc \in {"lock", "vmlock", "check"}
      BY <1>4, GotoEffect DEF acquire_snapshot_dir_lock, acquire_vm_snapshot_lock
    <2> QED BY <2>1 DEF CreateOK
  <1>5. CASE CheckLineage(a)
    <2>0. job[a].pc = "check" /\ UNCHANGED <<st, mem, dirty, snap>>
      BY <1>5 DEF CheckLineage
    <2>1. CASE st[job[a].vm] = "up" /\ parent[job[a].vm] = job[a].parent /\ Goto(a, FirstStep(a))
      <3>1. job'[a].pc \in {"clear", "stage"} /\ job'[a].parent = job[a].parent /\ job'[a].vm = job[a].vm
            /\ job'[a].diskOnly = job[a].diskOnly
        BY <2>1, GotoEffect DEF FirstStep
      <3>2. ~job[a].diskOnly => SoundParent(job'[a].vm, job'[a].parent)
        BY <2>0, <2>1, <3>1
      <3> QED BY <2>0, <3>1, <3>2 DEF CreateOK, SoundParent, Base, HasMemory
    <2>2. CASE Drops(a)
      BY <1>1, <2>2 DEF Drops, Locked
    <2>3. (st[job[a].vm] = "up" /\ parent[job[a].vm] = job[a].parent /\ Goto(a, FirstStep(a))) \/ Drops(a)
      <3>1. CASE job' = [job EXCEPT ![a].pc = "lock", ![a].parent = parent[job[a].vm],
                                    ![a].retries = IF a \in Clis THEN @ + 1 ELSE @]
        <4>1. job'[a].pc = "lock"
          BY <1>0, <3>1 DEF Jobs
        <4> QED BY <1>5, <4>1, CheckSteps DEF Works, Locked
      <3> QED BY <1>5, <3>1, ReturnDrops DEF CheckLineage
    <2> QED BY <2>1, <2>2, <2>3
  <1>6. CASE ClearParent(a)
    <2>1. /\ job[a].pc = "clear" /\ job'[a].pc = "stage" /\ job'[a].parent = job[a].parent /\ job'[a].vm = job[a].vm
          /\ job'[a].diskOnly = job[a].diskOnly /\ UNCHANGED <<st, mem, dirty, snap>>
      BY <1>6, GotoEffect DEF ClearParent
    <2> QED BY <2>1 DEF CreateOK, SoundParent, Base, HasMemory
  <1>7. CASE Stage(a)
    <2>0. job[a].pc = "stage" /\ UNCHANGED <<st, mem, dirty, snap>>
      BY <1>7 DEF Stage, vmVars
    <2>1. CASE job[a].diskOnly
      <3>1. job'[a].pc = "publish" /\ job'[a].diskOnly
        BY <1>7, <2>1, GotoEffect DEF Stage
      <3> QED BY <3>1 DEF CreateOK
    <2>2. CASE ~job[a].diskOnly
      <3>1. SoundParent(job[a].vm, job[a].parent)
        BY <2>0, <2>2 DEF CreateOK
      <3>2. /\ job'[a].pc = "save" /\ job'[a].vm = job[a].vm /\ job'[a].parent = job[a].parent
            /\ job'[a].mode \in {"full", "diff", "inplace"}
            /\ job'[a].mode # "full" => HasMemory(job[a].parent)
            /\ job'[a].mode = "inplace" => job'[a].img = snap[job[a].parent].mem
        BY <1>0, <1>7, <2>2 DEF Stage, Jobs
      <3> QED BY <2>0, <3>1, <3>2 DEF CreateOK, SoundParent, Base, HasMemory
    <2> QED BY <2>1, <2>2
  <1>8. CASE Save(a)
    <2> DEFINE v == job[a].vm
               full == job[a].mode = "full" \/ dirty[v] = {}
    <2>0. job[a].pc = "save" /\ st[v] = "up" /\ UNCHANGED <<st, mem, snap>> /\ ~job[a].diskOnly
      BY <1>8 DEF Save, LockInv
    <2>1. /\ job'[a].vm = v /\ job'[a].parent = job[a].parent /\ job'[a].guest = mem[v]
          /\ job'[a].pages = IF full THEN {} ELSE dirty[v]
          /\ job'[a].pc = IF ~full /\ job[a].mode = "diff" THEN "merge" ELSE "publish"
      BY <1>0, <1>8 DEF Save, Jobs
    <2>2. job'[a].img = CASE full -> mem[v]
                          [] ~full /\ job[a].mode = "inplace" -> Merge(job[a].img, mem[v], dirty[v])
                          [] OTHER -> job[a].img
      BY <1>0, <1>8 DEF Save, Jobs
    <2>3. Base(v, mem[v])'
      BY <2>0 DEF Base
    <2>4. CASE job'[a].pc = "merge"
      <3>1. ~full /\ job[a].mode = "diff" /\ job'[a].pages = dirty[v]
        BY <2>1, <2>4
      <3>2. HasMemory(job[a].parent) /\ SoundParent(v, job[a].parent)
        BY <2>0, <3>1 DEF CreateOK
      <3>3. \A pg \in Pages \ dirty[v] : snap[job[a].parent].mem[pg] = mem[v][pg]
        BY <2>0, <3>2 DEF SoundParent, Base
      <3> QED BY <2>0, <2>1, <2>3, <2>4, <3>1, <3>2, <3>3 DEF CreateOK, HasMemory
    <2>5. CASE job'[a].pc = "publish"
      <3>1. CASE full
        BY <2>0, <2>1, <2>2, <2>3, <2>5, <3>1 DEF CreateOK
      <3>2. CASE ~full
        <4>1. job[a].mode = "inplace"
          BY <1>0, <2>1, <2>5, <3>2 DEF Jobs
        <4>2. Base(v, job[a].img) /\ job'[a].img = Merge(job[a].img, mem[v], dirty[v])
          BY <2>0, <2>2, <3>2, <4>1 DEF CreateOK
        <4>3. Merge(job[a].img, mem[v], dirty[v]) = mem[v]
          BY <1>0, <2>0, <4>2 DEF Base, Merge, Image
        <4> QED BY <2>0, <2>1, <2>3, <2>5, <4>2, <4>3 DEF CreateOK
      <3> QED BY <3>1, <3>2
    <2> QED BY <2>1, <2>4, <2>5
  <1>9. CASE MergeDiff(a)
    <2>1. /\ job'[a].pc = "publish" /\ job'[a].vm = job[a].vm /\ job'[a].guest = job[a].guest
          /\ job'[a].diskOnly = job[a].diskOnly /\ job[a].pc = "merge"
          /\ job'[a].img = Merge(snap[job[a].parent].mem, job[a].guest, job[a].pages)
          /\ UNCHANGED <<st, mem, dirty, snap>>
      BY <1>0, <1>9 DEF MergeDiff, Jobs, vmVars
    <2>2. /\ \A pg \in Pages \ job[a].pages : snap[job[a].parent].mem[pg] = job[a].guest[pg]
          /\ job[a].guest \in Image /\ Base(job[a].vm, job[a].guest)
      BY <1>0, <2>1 DEF CreateOK, Jobs, LockInv
    <2>3. Merge(snap[job[a].parent].mem, job[a].guest, job[a].pages) = job[a].guest
      BY <2>2 DEF Merge, Image
    <2> QED BY <2>1, <2>2, <2>3 DEF CreateOK, Base
  <1>10. CASE Publish(a)
    <2>1. /\ job'[a].pc \in {"record", "release"} /\ job'[a].vm = job[a].vm /\ job'[a].target = job[a].target
          /\ job'[a].diskOnly = job[a].diskOnly /\ job[a].pc = "publish" /\ UNCHANGED <<st, mem, dirty>>
      BY <1>10, GotoEffect DEF Publish, vmVars
    <2>2. CASE job[a].diskOnly
      BY <2>1, <2>2 DEF CreateOK
    <2>3. CASE ~job[a].diskOnly
      <3>1. job[a].img = job[a].guest /\ Base(job[a].vm, job[a].guest)
        BY <2>1, <2>3 DEF CreateOK
      <3>2. snap'[job[a].target].mem = job[a].img
        BY <1>0, <1>10, <2>3 DEF Publish, Jobs, TypeInv, SnapType
      <3> QED BY <2>1, <3>1, <3>2 DEF CreateOK, SoundParent, Base
    <2> QED BY <2>2, <2>3
  <1>11. CASE RecordAndRelease(a)
    <2>1. /\ job'[a].pc = "release" /\ job'[a].vm = job[a].vm /\ job'[a].target = job[a].target
          /\ job'[a].diskOnly = job[a].diskOnly /\ job[a].pc = "record" /\ UNCHANGED <<st, mem, dirty, snap>>
      BY <1>11, GotoEffect DEF RecordAndRelease
    <2> QED BY <2>1 DEF CreateOK, SoundParent, Base, HasMemory
  <1> QED BY <1>2, <1>3, <1>4, <1>5, <1>6, <1>7, <1>8, <1>9, <1>10, <1>11 DEF Step

LEMMA OnlyItsJob ==
    ASSUME TypeInv, LockInv, NEW a \in Creators, Step(a) \/ Fail(a), NEW b \in Creators \ {a}
    PROVE  job'[b] = job[b]
  <1>1. CASE ClearParent(a) \/ Stage(a) \/ Save(a) \/ MergeDiff(a) \/ Publish(a) \/ RecordAndRelease(a)
    BY <1>1, WorkSteps DEF Works, Others
  <1>2. CASE CheckLineage(a) \/ Release(a)
    BY <1>2, CheckSteps, ReleaseSteps DEF Works, Drops, Others
  <1>3. CASE keeps_installed_generation(a) \/ SaveRefused(a) \/ RecordLate(a) \/ Fail(a)
    BY <1>3, ReturnDrops DEF keeps_installed_generation, SaveRefused, RecordLate, Fail, Drops, Others
  <1>4. CASE acquire_snapshot_dir_lock(a) \/ acquire_vm_snapshot_lock(a)
    BY <1>4, GotoEffect DEF acquire_snapshot_dir_lock, acquire_vm_snapshot_lock
  <1> QED BY <1>1, <1>2, <1>3, <1>4 DEF Step

(* All creators, given that a reboot does not meet a creator of its VM. *)
LEMMA CreateInvStep ==
    ASSUME TypeInv, LockInv, CreateInv, [Next]_vars,
           \A a \in Creators :
               job[a].pc = "check" /\ st[job[a].vm] = "up" /\ parent[job[a].vm] = job[a].parent /\ ~job[a].diskOnly
                   => SoundParent(job[a].vm, job[a].parent),
           \A v \in Vms, b \in Creators : Reboot(v) /\ job[b].pc \in Locked => v # job[b].vm
    PROVE  CreateInv'
  <1> SUFFICES ASSUME NEW b \in Creators PROVE CreateOK(b)'
    BY DEF CreateInv
  <1>0. CreateOK(b) /\ Vms \subseteq Creators /\ Clis \subseteq Creators
    BY DEF CreateInv, Creators
  <1>1. ASSUME job'[b] = job[b], job[b].pc \in Locked => Kept(b) PROVE CreateOK(b)'
    BY <1>0, <1>1, CreateOKKept
  <1>2. ASSUME job'[b].pc \notin Locked PROVE CreateOK(b)'
    BY <1>2 DEF CreateOK, Locked
  <1>3. CASE Step(b) \/ Fail(b)
    BY <1>0, <1>3, OwnStep
  <1>4. ASSUME NEW a \in Creators \ {b}, Step(a) \/ Fail(a) PROVE CreateOK(b)'
    <2>1. job'[b] = job[b]
      BY <1>4, OnlyItsJob
    <2> QED BY <1>1, <1>4, <2>1, OthersKeep
  <1>5. ASSUME NEW a \in Clis, NEW v \in Vms, NEW n \in Names, NEW d \in BOOLEAN, cmd_snapshot_create(a, v, n, d)
        PROVE  CreateOK(b)'
    <2>1. job'[b] = job[b] \/ job'[b].pc = "lock"
      BY <1>0, <1>5, StartSteps DEF Starts, Others
    <2> QED BY <1>1, <1>2, <1>5, <2>1, EnvironmentKeeps DEF Locked
  <1>6. ASSUME NEW v \in Vms, create_podman_snapshot(v) PROVE CreateOK(b)'
    <2>1. job'[b] = job[b] \/ job'[b].pc = "lock"
      BY <1>0, <1>6, StartSteps DEF Starts, Others
    <2> QED BY <1>1, <1>2, <1>6, <2>1, EnvironmentKeeps DEF Locked
  <1>7. ASSUME NEW v \in Vms, Exit(v) PROVE CreateOK(b)'
    <2>1. job'[b] = job[b] \/ job'[b].pc = "idle"
      BY <1>7, Values DEF Exit, TypeInv, JobType
    <2> QED BY <1>1, <1>2, <1>7, <2>1, EnvironmentKeeps DEF Locked
  <1>8. ASSUME NEW v \in Vms, Boot(v) \/ Reboot(v) \/ \E n \in Names : Restore(v, n) PROVE CreateOK(b)'
    <2>1. job' = job
      BY <1>8 DEF Boot, Reboot, Restore
    <2> QED BY <1>1, <1>8, <2>1, EnvironmentKeeps
  <1>9. CASE (\E v \in Vms, pg \in Pages : GuestWrite(v, pg)) \/ (\E n \in Names : delete_snapshot(n))
    <2>1. job' = job
      BY <1>9 DEF GuestWrite, delete_snapshot
    <2> QED BY <1>1, <1>9, <2>1, EnvironmentKeeps
  <1>10. CASE UNCHANGED vars
    BY <1>1, <1>10 DEF vars, Kept
  <1> QED BY <1>3, <1>4, <1>5, <1>6, <1>7, <1>8, <1>9, <1>10 DEF Next

LEMMA PublishedStep ==
    ASSUME TypeInv, LockInv, CreateInv, PublishedIsGuest, [Next]_vars PROVE PublishedIsGuest'
  <1>1. CASE UNCHANGED snap
    BY <1>1 DEF PublishedIsGuest
  <1>2. ASSUME NEW n \in Names, NEW x, snap' = [snap EXCEPT ![n] = x], x.kind = "memory" => x.mem = x.guest
        PROVE  PublishedIsGuest'
    BY <1>2 DEF PublishedIsGuest, TypeInv, SnapType
  <1>3. NoSnap.kind = "none" /\ DiskOnly.kind = "disk"
    BY DEF NoSnap, DiskOnly
  <1>4. ASSUME NEW a \in Creators, Publish(a) PROVE PublishedIsGuest'
    <2>1. job[a].target \in Names /\ job[a].pc = "publish"
      BY <1>4 DEF Publish, TypeInv, JobType, Jobs
    <2>2. CASE job[a].diskOnly
      BY <1>2, <1>3, <1>4, <2>1, <2>2 DEF Publish
    <2>3. CASE ~job[a].diskOnly
      <3> DEFINE x == [kind |-> "memory", mem |-> job[a].img, guest |-> job[a].guest]
      <3>1. snap' = [snap EXCEPT ![job[a].target] = x]
        BY <1>4, <2>3 DEF Publish
      <3>2. x.mem = x.guest
        BY <2>1, <2>3 DEF CreateInv, CreateOK
      <3> HIDE DEF x
      <3> QED BY <1>2, <2>1, <3>1, <3>2
    <2> QED BY <2>2, <2>3
  <1>5. ASSUME NEW a \in Creators, Fail(a) PROVE PublishedIsGuest'
    <2>1. job[a].target \in Names /\ (snap' = snap \/ snap' = [snap EXCEPT ![job[a].target] = NoSnap])
      BY <1>5 DEF Fail, TypeInv, JobType, Jobs
    <2> QED BY <1>1, <1>2, <1>3, <2>1
  <1>6. ASSUME NEW n \in Names, delete_snapshot(n) PROVE PublishedIsGuest'
    BY <1>2, <1>3, <1>6 DEF delete_snapshot
  <1>7. ASSUME NEW a \in Creators, Step(a) PROVE PublishedIsGuest'
    BY <1>1, <1>4, <1>7 DEF Step, acquire_snapshot_dir_lock, keeps_installed_generation, acquire_vm_snapshot_lock,
           CheckLineage, ClearParent, Stage, Save, SaveRefused, MergeDiff, RecordAndRelease, Release, RecordLate
  <1> QED BY <1>1, <1>5, <1>6, <1>7
      DEF Next, cmd_snapshot_create, Boot, Reboot, Exit, create_podman_snapshot, Restore, GuestWrite, vars

-----------------------------------------------------------------------------
(* `snapshot create` alone: no owner that takes cache snapshots, no reboot *)
(* beside it, and no name that another VM's snapshot takes over.           *)
CreatesAlone ==
    /\ "owner" \notin Features /\ "reboot" \notin Features
    /\ "reuse" \notin Features \/ \A v, w \in Vms : v = w

(* The parent is sound whenever there is one: it is cleared before the     *)
(* save and recorded after the publication.                                *)
AloneInv ==
    /\ \A v \in Vms : job[v].pc = "idle" /\ due[v] = "none"
    /\ \A v \in Vms : st[v] = "new" => parent[v] = NoName
    /\ \A a \in Creators : job[a].pc \in {"stage", "save", "merge", "publish", "record"} /\ ~job[a].diskOnly
                              => parent[job[a].vm] = NoName
    /\ \A v \in Vms : SoundParent(v, parent[v])

(* A creator that has not published yet. *)
Before(a) == job[a].pc \notin {"idle", "record", "release"}

(* Without reuse a target is nobody's parent before it is published. *)
FreshInv ==
    "reuse" \notin Features =>
        /\ \A n \in Names : snap[n].kind # "none" => n \in used
        /\ \A v \in Vms : parent[v] \in used \union {NoName}
        /\ \A a \in Creators : job[a].pc # "idle" =>
              job[a].target \in used /\ job[a].parent \in used \union {NoName}
        /\ \A a, b \in Creators :
              job[a].pc # "idle" /\ job[b].pc # "idle" /\ job[a].target = job[b].target => a = b
        /\ \A a \in Creators : Before(a) =>
              /\ \A v \in Vms : parent[v] # job[a].target
              /\ snap[job[a].target].kind = "none"

CreatesAloneInv == LockInv /\ CreateInv /\ AloneInv /\ FreshInv /\ PublishedIsGuest

LEMMA SoundReproduces ==
    ASSUME TypeInv PROVE (\A v \in Vms : SoundParent(v, parent[v])) => ParentReproduces
  <1> SUFFICES ASSUME NEW v \in Vms, SoundParent(v, parent[v]), st[v] = "up", HasMemory(parent[v])
               PROVE  Merge(snap[parent[v]].mem, mem[v], dirty[v]) = mem[v]
    BY DEF ParentReproduces
  <1>1. mem[v] \in Image /\ \A pg \in Pages \ dirty[v] : snap[parent[v]].mem[pg] = mem[v][pg]
    BY DEF SoundParent, Base, TypeInv, VmType
  <1> QED BY <1>1 DEF Merge, Image

LEMMA IdleWaits ==
    ASSUME NEW a \in Creators, Step(a) \/ Fail(a) PROVE job[a].pc # "idle"
  BY DEF Step, Fail, acquire_snapshot_dir_lock, keeps_installed_generation, acquire_vm_snapshot_lock,
         CheckLineage, ClearParent, Stage, Save, SaveRefused, MergeDiff, Publish, RecordAndRelease, Release,
         RecordLate

(* How the job of a creator goes on: towards the same target, and never    *)
(* back behind the publication.                                            *)
Advances(a) ==
    \/ job'[a].pc = "idle"
    \/ /\ job[a].pc # "idle" /\ job'[a].target = job[a].target /\ job'[a].diskOnly = job[a].diskOnly
       /\ job'[a].vm = job[a].vm
       /\ job'[a].parent \in {job[a].parent, parent[job[a].vm]}
       /\ job[a].pc \in {"record", "release"} => job'[a].pc \in {"record", "release"}

LEMMA CliAdvances ==
    ASSUME TypeInv, LockInv, NEW a \in Clis, Step(a) \/ Fail(a) PROVE Advances(a)
  <1>0. a \in Creators /\ a \notin Vms /\ job \in [Creators -> Jobs] /\ job[a] \in Jobs
    BY LineageAssumption DEF Creators, TypeInv, JobType
  <1>1. CASE ClearParent(a) \/ Stage(a) \/ Save(a) \/ MergeDiff(a) \/ Publish(a) \/ RecordAndRelease(a)
    <2>1. Works(a)
      BY <1>0, <1>1, WorkSteps
    <2>2. job[a].pc \in {"record", "release"} => job'[a].pc \in {"record", "release"}
      <3>1. CASE RecordAndRelease(a)
        BY <1>0, <3>1, GotoEffect DEF RecordAndRelease
      <3> QED BY <1>1, <3>1 DEF ClearParent, Stage, Save, MergeDiff, Publish
    <2> QED BY <2>1, <2>2 DEF Works, Advances, Locked
  <1>2. CASE CheckLineage(a)
    <2>1. CASE Goto(a, FirstStep(a))
      BY <1>0, <1>2, <2>1, GotoEffect DEF Advances, CheckLineage
    <2>2. CASE job' = [job EXCEPT ![a].pc = "lock", ![a].parent = parent[job[a].vm],
                                  ![a].retries = IF a \in Clis THEN @ + 1 ELSE @]
      <3>1. /\ job'[a].target = job[a].target /\ job'[a].diskOnly = job[a].diskOnly /\ job'[a].vm = job[a].vm
            /\ job'[a].parent = parent[job[a].vm]
        BY <1>0, <2>2 DEF Jobs
      <3> QED BY <1>2, <3>1 DEF Advances, CheckLineage
    <2>3. CASE Return(a)
      BY <1>0, <2>3, ReturnDrops, Values DEF Advances
    <2> QED BY <1>2, <2>1, <2>2, <2>3 DEF CheckLineage
  <1>3. CASE Release(a) \/ keeps_installed_generation(a) \/ SaveRefused(a) \/ RecordLate(a) \/ Fail(a)
    <2>1. job'[a] = Idle
      BY <1>0, <1>3, ReturnDrops DEF Release, keeps_installed_generation, SaveRefused, RecordLate, Fail
    <2> QED BY <2>1, Values DEF Advances
  <1>4. CASE acquire_snapshot_dir_lock(a) \/ acquire_vm_snapshot_lock(a)
    BY <1>0, <1>4, GotoEffect DEF acquire_snapshot_dir_lock, acquire_vm_snapshot_lock, Advances
  <1> QED BY <1>1, <1>2, <1>3, <1>4 DEF Step

(* Snapshots and parents that change without touching a target in the      *)
(* making keep the targets fresh.                                          *)
LEMMA FreshKept ==
    ASSUME TypeInv, FreshInv, used' = used,
           \A b \in Creators : job'[b] = job[b] \/ Advances(b),
           \A n \in Names : \/ snap'[n].kind \in {"none", snap[n].kind}
                            \/ n \in used /\ \A b \in Creators : Before(b)' => job[b].target # n,
           \A v \in Vms : \/ parent'[v] \in {NoName, parent[v]}
                          \/ /\ parent'[v] \in used
                             /\ \A b \in Creators : Before(b)' => job[b].target # parent'[v]
    PROVE  FreshInv'
  <1> SUFFICES ASSUME "reuse" \notin Features PROVE FreshInv'
    BY DEF FreshInv
  <1>0. \A b \in Creators : job[b].target \in Names /\ job[b].vm \in Vms
    BY DEF TypeInv, JobType, Jobs
  <1>1. (\A n \in Names : snap[n].kind # "none" => n \in used)'
    BY DEF FreshInv
  <1>2. (\A v \in Vms : parent[v] \in used \union {NoName})'
    BY DEF FreshInv
  <1>3. \A b \in Creators : job'[b].pc # "idle" => job[b].pc # "idle" /\ job'[b].target = job[b].target
    BY DEF Advances
  <1>4. (\A a \in Creators : job[a].pc # "idle" => job[a].target \in used /\ job[a].parent \in used \union {NoName})'
    <2> SUFFICES ASSUME NEW b \in Creators, job'[b].pc # "idle"
                 PROVE  job'[b].target \in used /\ job'[b].parent \in used \union {NoName}
      OBVIOUS
    <2>1. job[b].target \in used /\ job[b].parent \in used \union {NoName} /\ parent[job[b].vm] \in used \union {NoName}
      BY <1>0, <1>3 DEF FreshInv
    <2> QED BY <1>3, <2>1 DEF Advances
  <1>5. (\A a, b \in Creators :
              job[a].pc # "idle" /\ job[b].pc # "idle" /\ job[a].target = job[b].target => a = b)'
    BY <1>3 DEF FreshInv
  <1>6. ASSUME NEW b \in Creators, Before(b)'
        PROVE  (\A v \in Vms : parent'[v] # job'[b].target) /\ snap'[job'[b].target].kind = "none"
    <2>1. Before(b) /\ job'[b].target = job[b].target
      BY <1>3, <1>6 DEF Before, Advances
    <2>2. NoName \notin Names
      BY Values
    <2>3. (\A v \in Vms : parent[v] # job[b].target) /\ snap[job[b].target].kind = "none"
      BY <2>1 DEF FreshInv
    <2> QED BY <1>0, <1>6, <2>1, <2>2, <2>3
  <1> QED BY <1>1, <1>2, <1>4, <1>5, <1>6 DEF FreshInv

LEMMA FreshInvStep ==
    ASSUME TypeInv, LockInv, AloneInv, FreshInv, [Next]_vars PROVE FreshInv'
  <1> SUFFICES ASSUME "reuse" \notin Features PROVE FreshInv'
    BY DEF FreshInv
  <1>0. Vms \subseteq Creators /\ Clis \subseteq Creators /\ \A b \in Creators : job[b] \in Jobs
    BY DEF Creators, TypeInv, JobType
  <1>1. ASSUME NEW a \in Creators, Step(a) \/ Fail(a) PROVE FreshInv'
    <2>1. a \in Clis
      BY <1>1, IdleWaits DEF Creators, AloneInv
    <2>2. \A b \in Creators : job'[b] = job[b] \/ Advances(b)
      BY <1>1, <2>1, CliAdvances, OnlyItsJob
    <2>3. used' = used
      BY <1>1 DEF Step, Fail, acquire_snapshot_dir_lock, keeps_installed_generation, acquire_vm_snapshot_lock,
           CheckLineage, ClearParent, Stage, Save, SaveRefused, MergeDiff, Publish, RecordAndRelease, Release,
           RecordLate
    <2>4. job[a].pc # "idle" /\ job[a].target \in used /\ job[a].target \in Names
      BY <1>0, <1>1, IdleWaits DEF FreshInv, Jobs
    <2>5. ASSUME job'[a].pc \in {"record", "release"}
          PROVE  \A b \in Creators : Before(b)' => job[b].target # job[a].target
      <3> SUFFICES ASSUME NEW b \in Creators, Before(b)' PROVE job[b].target # job[a].target
        OBVIOUS
      <3>1. b # a /\ job'[b] = job[b]
        BY <1>1, <2>5, OnlyItsJob DEF Before
      <3> QED BY <2>4, <3>1 DEF FreshInv, Before
    <2>6. CASE Publish(a)
      <3>1. job'[a].pc \in {"record", "release"} /\ parent' = parent
        BY <2>6, GotoEffect DEF Publish, vmVars
      <3>2. \A n \in Names \ {job[a].target} : snap'[n] = snap[n]
        BY <2>6 DEF Publish, TypeInv, SnapType
      <3> QED BY <2>2, <2>3, <2>4, <2>5, <3>1, <3>2, FreshKept
    <2>7. CASE RecordAndRelease(a)
      <3>1. job'[a].pc \in {"record", "release"} /\ snap' = snap
        BY <2>7, GotoEffect DEF RecordAndRelease
      <3>2. \A v \in Vms : parent'[v] \in {parent[v], job[a].target}
        BY <2>7 DEF RecordAndRelease, RecordParent, TypeInv, VmType
      <3> QED BY <2>2, <2>3, <2>4, <2>5, <3>1, <3>2, FreshKept
    <2>8. CASE ~Publish(a) /\ ~RecordAndRelease(a)
      <3>1. \A n \in Names : snap'[n].kind \in {"none", snap[n].kind}
        <4>1. CASE Fail(a)
          <5>1. snap' = snap \/ snap' = [snap EXCEPT ![job[a].target] = NoSnap]
            BY <4>1 DEF Fail
          <5>2. \A n \in Names : snap'[n] = snap[n] \/ snap'[n] = NoSnap
            BY <5>1 DEF TypeInv, SnapType
          <5> QED BY <5>2 DEF NoSnap
        <4> QED BY <1>1, <2>8, <4>1 DEF Step, acquire_snapshot_dir_lock, keeps_installed_generation,
             acquire_vm_snapshot_lock, CheckLineage, ClearParent, Stage, Save, SaveRefused, MergeDiff, Release,
             RecordLate
      <3>2. \A v \in Vms : parent'[v] \in {NoName, parent[v]}
        <4>1. CASE ClearParent(a)
          BY <4>1 DEF ClearParent, TypeInv, VmType
        <4>2. ~RecordLate(a)
          BY <2>1, LineageAssumption DEF RecordLate, LockInv, Creators
        <4> QED BY <1>1, <2>8, <4>1, <4>2 DEF Step, acquire_snapshot_dir_lock, keeps_installed_generation,
             acquire_vm_snapshot_lock, CheckLineage, Stage, Save, SaveRefused, MergeDiff, Release,
             Fail, vmVars, KeepInstalled
      <3> QED BY <2>2, <2>3, <3>1, <3>2, FreshKept
    <2> QED BY <2>6, <2>7, <2>8
  <1>2. ASSUME NEW v \in Vms, NEW n \in Names, Restore(v, n) PROVE FreshInv'
    <2>1. job' = job /\ snap' = snap /\ used' = used /\ snap[n].kind = "memory"
      BY <1>2 DEF Restore, HasMemory
    <2>2. \A u \in Vms : parent'[u] \in {parent[u], n}
      BY <1>2 DEF Restore, TypeInv, VmType
    <2>3. n \in used /\ \A b \in Creators : Before(b)' => job[b].target # n
      BY <2>1 DEF FreshInv, Before
    <2> QED BY <2>1, <2>2, <2>3, FreshKept
  <1>3. ASSUME NEW a \in Clis, NEW v \in Vms, NEW n \in Names, NEW d \in BOOLEAN, cmd_snapshot_create(a, v, n, d)
        PROVE  FreshInv'
    <2>1. /\ n \notin used /\ used' = used \union {n} /\ UNCHANGED <<parent, snap>> /\ job[a].pc = "idle"
          /\ job' = [job EXCEPT ![a] = NewJob("lock", v, n, parent[v], d)]
      BY <1>3 DEF cmd_snapshot_create, vmVars
    <2>2. job'[a].target = n /\ job'[a].parent = parent[v] /\ \A b \in Creators \ {a} : job'[b] = job[b]
      BY <1>0, <2>1 DEF TypeInv, JobType, NewJob
    <2>3. snap[n].kind = "none" /\ \A u \in Vms : parent[u] # n
      BY <2>1, Values DEF FreshInv
    <2>4. \A b \in Creators \ {a} : job[b].pc # "idle" => job[b].target # n
      BY <2>1 DEF FreshInv
    <2>5. /\ (\A m \in Names : snap[m].kind # "none" => m \in used)'
          /\ (\A u \in Vms : parent[u] \in used \union {NoName})'
      BY <2>1 DEF FreshInv
    <2>6. (\A b \in Creators : job[b].pc # "idle" => job[b].target \in used /\ job[b].parent \in used \union {NoName})'
      BY <2>1, <2>2 DEF FreshInv
    <2>7. (\A b, c \in Creators :
              job[b].pc # "idle" /\ job[c].pc # "idle" /\ job[b].target = job[c].target => b = c)'
      BY <2>2, <2>4 DEF FreshInv
    <2>8. (\A b \in Creators : Before(b) => (\A u \in Vms : parent[u] # job[b].target) /\ snap[job[b].target].kind = "none")'
      BY <2>1, <2>2, <2>3 DEF FreshInv, Before
    <2> QED BY <2>5, <2>6, <2>7, <2>8 DEF FreshInv
  <1>4. ASSUME NEW v \in Vms, create_podman_snapshot(v) PROVE FreshInv'
    BY <1>4 DEF create_podman_snapshot, AloneInv
  <1>5. ASSUME NEW v \in Vms, Boot(v) \/ Reboot(v) \/ \E pg \in Pages : GuestWrite(v, pg) PROVE FreshInv'
    <2>1. job' = job /\ snap' = snap /\ used' = used /\ \A u \in Vms : parent'[u] \in {NoName, parent[u]}
      BY <1>5 DEF Boot, Reboot, RecordIgnored, GuestWrite, TypeInv, VmType
    <2> QED BY <2>1, FreshKept
  <1>6. ASSUME NEW v \in Vms, Exit(v) PROVE FreshInv'
    <2>1. \A b \in Creators : job'[b] = job[b] \/ job'[b].pc = "idle"
      BY <1>6, Values DEF Exit, TypeInv, JobType
    <2> QED BY <1>6, <2>1, FreshKept DEF Exit, Advances
  <1>7. ASSUME NEW n \in Names, delete_snapshot(n) PROVE FreshInv'
    <2>1. \A m \in Names : snap'[m].kind \in {"none", snap[m].kind}
      BY <1>7 DEF delete_snapshot, TypeInv, SnapType, NoSnap
    <2> QED BY <1>7, <2>1, FreshKept DEF delete_snapshot, vmVars
  <1>8. CASE UNCHANGED vars
    BY <1>8, FreshKept DEF vars
  <1> QED BY <1>1, <1>2, <1>3, <1>4, <1>5, <1>6, <1>7, <1>8 DEF Next

(* The steps of a creator. *)
LEMMA AloneCreator ==
    ASSUME CreatesAlone, TypeInv, LockInv, CreateInv, AloneInv, FreshInv, NEW a \in Creators, Step(a) \/ Fail(a)
    PROVE  \A v \in Vms : SoundParent(v, parent[v])'
  <1> SUFFICES ASSUME NEW v \in Vms PROVE SoundParent(v, parent[v])'
    OBVIOUS
  <1>0. /\ a \in Clis /\ a \notin Vms /\ job[a] \in Jobs /\ job[a].vm \in Vms /\ job[a].target \in Names
        /\ mem' = mem /\ st' = st /\ SoundParent(v, parent[v]) /\ CreateOK(a)
    BY IdleWaits, LineageAssumption DEF Creators, AloneInv, TypeInv, JobType, Jobs, CreateInv, Step, Fail,
       acquire_snapshot_dir_lock, keeps_installed_generation, acquire_vm_snapshot_lock, CheckLineage, ClearParent,
       Stage, Save, SaveRefused, MergeDiff, Publish, RecordAndRelease, Release, RecordLate, vmVars
  <1>1. ASSUME parent'[v] = NoName PROVE SoundParent(v, parent[v])'
    BY <1>1 DEF HasMemory, SoundParent
  <1>2. ASSUME UNCHANGED <<dirty, snap>>, parent'[v] = parent[v]
        PROVE  SoundParent(v, parent[v])'
    BY <1>0, <1>2 DEF SoundParent, HasMemory, Base
  <1>3. CASE ClearParent(a)
    <2>1. parent'[v] \in {NoName, parent[v]} /\ UNCHANGED <<dirty, snap>>
      BY <1>3 DEF ClearParent, TypeInv, VmType
    <2> QED BY <1>1, <1>2, <2>1
  <1>4. CASE Save(a)
    <2>1. parent[job[a].vm] = NoName /\ UNCHANGED <<parent, snap>>
      BY <1>4 DEF Save, LockInv, AloneInv
    <2>2. v # job[a].vm => dirty'[v] = dirty[v]
      BY <1>4 DEF Save, TypeInv, VmType
    <2> QED BY <1>0, <1>1, <2>1, <2>2 DEF SoundParent, HasMemory, Base
  <1>5. CASE Publish(a)
    <2>0. job[a].pc = "publish" /\ UNCHANGED <<parent, dirty>>
      BY <1>5 DEF Publish, vmVars
    <2>1. CASE parent[v] = job[a].target
      <3>1. job[a].diskOnly
        <4>1. CASE "reuse" \notin Features
          BY <2>0, <2>1, <4>1 DEF FreshInv, Before
        <4>2. CASE "reuse" \in Features
          <5>1. v = job[a].vm
            BY <1>0, <4>2 DEF CreatesAlone
          <5> QED BY <1>0, <2>0, <2>1, <5>1, Values DEF AloneInv
        <4> QED BY <4>1, <4>2
      <3>2. snap'[job[a].target] = DiskOnly
        BY <1>0, <1>5, <3>1 DEF Publish, TypeInv, SnapType
      <3> QED BY <2>0, <2>1, <3>2 DEF HasMemory, DiskOnly, SoundParent
    <2>2. CASE parent[v] # job[a].target
      <3>1. \A n \in Names \ {job[a].target} : snap'[n] = snap[n]
        BY <1>5 DEF Publish, TypeInv, SnapType
      <3>2. parent[v] \in Names \union {NoName}
        BY DEF TypeInv, VmType
      <3>3. (HasMemory(parent[v]))' => HasMemory(parent[v]) /\ snap'[parent[v]] = snap[parent[v]]
        BY <2>0, <2>2, <3>1, <3>2 DEF HasMemory
      <3> QED BY <1>0, <2>0, <3>3 DEF SoundParent, Base
    <2> QED BY <2>1, <2>2
  <1>6. CASE RecordAndRelease(a)
    <2>0. job[a].pc = "record" /\ ~job[a].diskOnly /\ UNCHANGED <<dirty, snap>>
      BY <1>6 DEF RecordAndRelease, LockInv
    <2>1. parent'[v] = parent[v] \/ (v = job[a].vm /\ parent'[v] = job[a].target)
      BY <1>6 DEF RecordAndRelease, RecordParent, TypeInv, VmType
    <2>2. SoundParent(job[a].vm, job[a].target)
      BY <1>0, <2>0 DEF CreateOK
    <2> QED BY <1>0, <1>2, <2>0, <2>1, <2>2 DEF SoundParent, Base, HasMemory
  <1>7. CASE Fail(a)
    <2>1. parent' = parent
      BY <1>7 DEF Fail
    <2>2. dirty'[v] = dirty[v] \/ parent[v] = NoName
      <3>1. CASE dirty' = dirty
        BY <3>1
      <3>2. CASE dirty' # dirty
        <4>1. job[a].pc = "save" /\ dirty' = [dirty EXCEPT ![job[a].vm] = {}]
          BY <1>7, <3>2 DEF Fail
        <4>2. parent[job[a].vm] = NoName
          BY <4>1 DEF LockInv, AloneInv
        <4> QED BY <4>1, <4>2 DEF TypeInv, VmType
      <3> QED BY <3>1, <3>2
    <2>3. \A n \in Names : snap'[n] = snap[n] \/ snap'[n] = NoSnap
      BY <1>7 DEF Fail, TypeInv, SnapType
    <2>4. (HasMemory(parent[v]))' => HasMemory(parent[v]) /\ snap'[parent[v]] = snap[parent[v]]
      BY <2>1, <2>3 DEF HasMemory, NoSnap, TypeInv, VmType
    <2> QED BY <1>0, <1>1, <2>1, <2>2, <2>4 DEF SoundParent, Base
  <1>8. ~RecordLate(a)
    BY <1>0 DEF RecordLate, LockInv
  <1> QED BY <1>2, <1>3, <1>4, <1>5, <1>6, <1>7, <1>8 DEF Step, acquire_snapshot_dir_lock, keeps_installed_generation,
           acquire_vm_snapshot_lock, CheckLineage, Stage, SaveRefused, MergeDiff, Release, vmVars, KeepInstalled

LEMMA AloneSound ==
    ASSUME CreatesAlone, TypeInv, LockInv, CreateInv, AloneInv, FreshInv, [Next]_vars
    PROVE  \A v \in Vms : SoundParent(v, parent[v])'
  <1> SUFFICES ASSUME NEW v \in Vms PROVE SoundParent(v, parent[v])'
    OBVIOUS
  <1>0. SoundParent(v, parent[v]) /\ parent[v] \in Names \union {NoName}
    BY DEF AloneInv, TypeInv, VmType
  <1>1. CASE UNCHANGED <<st, mem, dirty, parent, snap>>
    BY <1>0, <1>1 DEF SoundParent, HasMemory, Base
  <1>2. ASSUME NEW u \in Vms, Boot(u) PROVE SoundParent(v, parent[v])'
    <2>1. UNCHANGED <<mem, dirty, parent, snap>> /\ (v = u => parent[v] = NoName) /\ (v # u => st'[v] = st[v])
      BY <1>2 DEF Boot, AloneInv, TypeInv, VmType
    <2> QED BY <1>0, <2>1 DEF SoundParent, HasMemory, Base
  <1>3. ASSUME NEW u \in Vms, NEW n \in Names, Restore(u, n) PROVE SoundParent(v, parent[v])'
    <2>1. UNCHANGED <<dirty, snap>>
      BY <1>3 DEF Restore
    <2>2. v = u => parent'[v] = n /\ mem'[v] = snap[n].mem
      BY <1>3 DEF Restore, TypeInv, VmType
    <2>3. v # u => parent'[v] = parent[v] /\ mem'[v] = mem[v] /\ st'[v] = st[v]
      BY <1>3 DEF Restore, TypeInv, VmType
    <2> QED BY <1>0, <2>1, <2>2, <2>3 DEF SoundParent, HasMemory, Base
  <1>4. ASSUME NEW u \in Vms, NEW pg \in Pages, GuestWrite(u, pg) PROVE SoundParent(v, parent[v])'
    <2>1. UNCHANGED <<st, parent, snap>>
      BY <1>4 DEF GuestWrite
    <2>2. v = u => dirty'[v] = dirty[v] \union {pg} /\ \A q \in Pages \ {pg} : mem'[v][q] = mem[v][q]
      BY <1>4 DEF GuestWrite, TypeInv, VmType, Image
    <2>3. v # u => mem'[v] = mem[v] /\ dirty'[v] = dirty[v]
      BY <1>4 DEF GuestWrite, TypeInv, VmType
    <2> QED BY <1>0, <2>1, <2>2, <2>3 DEF SoundParent, HasMemory, Base
  <1>5. ASSUME NEW u \in Vms, Exit(u) PROVE SoundParent(v, parent[v])'
    <2>1. UNCHANGED <<mem, dirty, parent, snap>> /\ (st'[v] = st[v] \/ st'[v] = "gone")
      BY <1>5 DEF Exit, TypeInv, VmType
    <2> QED BY <1>0, <2>1 DEF SoundParent, HasMemory, Base
  <1>6. ASSUME NEW n \in Names, delete_snapshot(n) PROVE SoundParent(v, parent[v])'
    <2>1. UNCHANGED <<st, mem, dirty, parent>> /\ \A m \in Names : snap'[m] = snap[m] \/ snap'[m] = NoSnap
      BY <1>6 DEF delete_snapshot, TypeInv, SnapType, vmVars
    <2>2. (HasMemory(parent[v]))' => HasMemory(parent[v]) /\ snap'[parent[v]] = snap[parent[v]]
      BY <1>0, <2>1 DEF HasMemory, NoSnap
    <2> QED BY <1>0, <2>1, <2>2 DEF SoundParent, Base
  <1>7. ASSUME NEW u \in Vms PROVE ~Reboot(u) /\ ~create_podman_snapshot(u)
    BY DEF CreatesAlone, Reboot, create_podman_snapshot, AloneInv
  <1>8. ASSUME NEW a \in Creators, Step(a) \/ Fail(a) PROVE SoundParent(v, parent[v])'
    BY <1>8, AloneCreator
  <1> QED BY <1>1, <1>2, <1>3, <1>4, <1>5, <1>6, <1>7, <1>8 DEF Next, cmd_snapshot_create, vmVars, vars

LEMMA AloneInvStep ==
    ASSUME CreatesAlone, TypeInv, LockInv, CreateInv, AloneInv, FreshInv, [Next]_vars
    PROVE  AloneInv'
  <1>0. Vms \subseteq Creators /\ Clis \subseteq Creators /\ Vms \intersect Clis = {}
        /\ \A b \in Creators : job[b] \in Jobs /\ job[b].vm \in Vms
    BY LineageAssumption DEF Creators, TypeInv, JobType, Jobs
  <1>1. ASSUME NEW u \in Vms PROVE ~Reboot(u) /\ ~create_podman_snapshot(u) /\ ~Step(u) /\ ~Fail(u)
    BY <1>0, IdleWaits DEF CreatesAlone, Reboot, create_podman_snapshot, AloneInv
  <1>2. ASSUME NEW a \in Creators, Step(a) \/ Fail(a) PROVE a \in Clis
    BY <1>1, <1>2 DEF Creators
  <1>3. (\A v \in Vms : job[v].pc = "idle")'
    <2> SUFFICES ASSUME NEW v \in Vms PROVE job'[v].pc = "idle"
      OBVIOUS
    <2>0. job[v].pc = "idle"
      BY DEF AloneInv
    <2>1. ASSUME NEW a \in Creators, Step(a) \/ Fail(a) PROVE job'[v] = job[v]
      BY <1>0, <1>2, <2>1, OnlyItsJob
    <2>2. ASSUME NEW u \in Vms, Exit(u) PROVE job'[v].pc = "idle"
      BY <1>0, <2>0, <2>2, Values DEF Exit, TypeInv, JobType
    <2>3. ASSUME NEW a \in Clis, NEW u \in Vms, NEW n \in Names, NEW d \in BOOLEAN, cmd_snapshot_create(a, u, n, d)
          PROVE  job'[v] = job[v]
      BY <1>0, <2>3 DEF cmd_snapshot_create, TypeInv, JobType
    <2> QED BY <1>1, <2>0, <2>1, <2>2, <2>3 DEF Next, Boot, Restore, GuestWrite, delete_snapshot, vars
  <1>4. (\A v \in Vms : due[v] = "none")'
    <2> SUFFICES ASSUME NEW v \in Vms PROVE due'[v] = "none"
      OBVIOUS
    <2>0. due[v] = "none"
      BY DEF AloneInv
    <2>1. ASSUME NEW a \in Creators, Step(a) \/ Fail(a) PROVE due' = due
      <3>1. a \notin Vms
        BY <1>0, <1>2, <2>1
      <3> QED BY <2>1, <3>1 DEF Return, Step, Fail, acquire_snapshot_dir_lock, keeps_installed_generation,
           acquire_vm_snapshot_lock, CheckLineage, ClearParent, Stage, Save, SaveRefused, MergeDiff, Publish,
           RecordAndRelease, Release, RecordLate, vmVars
    <2>2. ASSUME NEW u \in Vms, Boot(u) \/ \E n \in Names : Restore(u, n) PROVE due'[v] = "none"
      BY <2>0, <2>2 DEF Boot, Restore, CreatesAlone, TypeInv, VmType
    <2> QED BY <1>1, <2>0, <2>1, <2>2 DEF Next, cmd_snapshot_create, Exit, GuestWrite, delete_snapshot, vmVars, vars
  <1>5. (\A v \in Vms : st[v] = "new" => parent[v] = NoName)'
    <2> SUFFICES ASSUME NEW v \in Vms, st'[v] = "new" PROVE parent'[v] = NoName
      OBVIOUS
    <2>1. ASSUME NEW a \in Creators, Step(a) \/ Fail(a) PROVE parent'[v] = NoName
      <3>1. st' = st
        BY <2>1 DEF Step, Fail, acquire_snapshot_dir_lock, keeps_installed_generation, acquire_vm_snapshot_lock,
           CheckLineage, ClearParent, Stage, Save, SaveRefused, MergeDiff, Publish, RecordAndRelease, Release,
           RecordLate, vmVars
      <3>2. parent[v] = NoName
        BY <3>1 DEF AloneInv
      <3>3. CASE ClearParent(a) \/ RecordAndRelease(a) \/ RecordLate(a)
        BY <3>1, <3>2, <3>3 DEF ClearParent, RecordAndRelease, RecordLate, RecordParent, RecordIgnored, TypeInv, VmType
      <3> QED BY <2>1, <3>2, <3>3 DEF Step, Fail, acquire_snapshot_dir_lock, keeps_installed_generation,
           acquire_vm_snapshot_lock, CheckLineage, Stage, Save, SaveRefused, MergeDiff, Publish,
           Release, KeepInstalled, vmVars
    <2>2. ASSUME NEW u \in Vms, Boot(u) \/ Exit(u) \/ \E n \in Names : Restore(u, n) PROVE parent'[v] = NoName
      <3>1. v # u /\ st[v] = "new"
        BY <2>2 DEF Boot, Exit, Restore, TypeInv, VmType
      <3> QED BY <2>2, <3>1 DEF Boot, Exit, Restore, AloneInv, TypeInv, VmType
    <2> QED BY <1>1, <2>1, <2>2 DEF Next, cmd_snapshot_create, GuestWrite, delete_snapshot, vmVars, vars, AloneInv
  <1>6. (\A b \in Creators : job[b].pc \in {"stage", "save", "merge", "publish", "record"} /\ ~job[b].diskOnly
                              => parent[job[b].vm] = NoName)'
    <2> DEFINE Mid == {"stage", "save", "merge", "publish", "record"}
    <2> SUFFICES ASSUME NEW b \in Creators, job'[b].pc \in Mid, ~job'[b].diskOnly PROVE parent'[job'[b].vm] = NoName
      OBVIOUS
    <2>0. job[b].pc \in Mid /\ ~job[b].diskOnly => parent[job[b].vm] = NoName
      BY DEF AloneInv
    <2>1. ASSUME job'[b] = job[b], parent'[job[b].vm] \in {parent[job[b].vm], NoName} PROVE parent'[job'[b].vm] = NoName
      BY <2>0, <2>1
    <2>2. ASSUME NEW a \in Creators \ {b}, Step(a) \/ Fail(a) PROVE parent'[job'[b].vm] = NoName
      <3>1. job'[b] = job[b] /\ job[b].pc \in Locked /\ job[b].vm \in Vms
        BY <1>0, <2>2, OnlyItsJob DEF Locked
      <3>2. CASE ClearParent(a)
        BY <2>1, <3>1, <3>2 DEF ClearParent, TypeInv, VmType
      <3>3. CASE RecordAndRelease(a)
        <4>1. job[a].vm # job[b].vm
          BY <3>1, <3>3 DEF RecordAndRelease, LockInv, Locked
        <4> QED BY <2>1, <3>1, <3>3, <4>1 DEF RecordAndRelease, RecordParent, TypeInv, VmType
      <3>4. ~RecordLate(a)
        BY <1>0, <1>2, <2>2 DEF RecordLate, LockInv
      <3> QED BY <2>1, <2>2, <3>1, <3>2, <3>3, <3>4 DEF Step, Fail, acquire_snapshot_dir_lock,
           keeps_installed_generation, acquire_vm_snapshot_lock, CheckLineage, Stage, Save, SaveRefused, MergeDiff,
           Publish, Release, KeepInstalled, vmVars
    <2>3. CASE Step(b) \/ Fail(b)
      <3>0. b \in Clis
        BY <1>2, <2>3
      <3>1. CASE ClearParent(b)
        BY <1>0, <3>1, GotoEffect DEF ClearParent, TypeInv, VmType
      <3>2. CASE Stage(b) \/ Save(b) \/ MergeDiff(b) \/ Publish(b)
        <4>1. job'[b].vm = job[b].vm /\ job'[b].diskOnly = job[b].diskOnly /\ parent' = parent
          BY <3>2, WorkSteps DEF Works, Stage, Save, MergeDiff, Publish, vmVars
        <4>2. job[b].pc \in Mid
          BY <3>2 DEF Stage, Save, MergeDiff, Publish
        <4> QED BY <2>0, <4>1, <4>2
      <3>3. CASE RecordAndRelease(b)
        BY <3>3, GotoEffect DEF RecordAndRelease
      <3>4. CASE CheckLineage(b)
        <4>1. CASE Goto(b, FirstStep(b))
          <5>1. job'[b].pc = "clear"
            BY <3>0, <4>1, GotoEffect DEF FirstStep
          <5> QED BY <5>1
        <4>2. CASE job' = [job EXCEPT ![b].pc = "lock", ![b].parent = parent[job[b].vm],
                                      ![b].retries = IF b \in Clis THEN @ + 1 ELSE @]
          <5>1. job'[b].pc = "lock"
            BY <1>0, <4>2 DEF Jobs, TypeInv, JobType
          <5> QED BY <5>1
        <4>3. CASE Return(b)
          BY <4>3, ReturnDrops, Values
        <4> QED BY <3>4, <4>1, <4>2, <4>3 DEF CheckLineage
      <3>5. CASE Release(b) \/ keeps_installed_generation(b) \/ SaveRefused(b) \/ RecordLate(b) \/ Fail(b)
        <4>1. job'[b] = Idle
          BY <3>0, <3>5, ReturnDrops DEF Release, keeps_installed_generation, SaveRefused, RecordLate, Fail
        <4> QED BY <4>1, Values
      <3>6. CASE acquire_snapshot_dir_lock(b) \/ acquire_vm_snapshot_lock(b)
        <4>1. job'[b].pc \in {"lock", "vmlock", "check"}
          BY <3>6, GotoEffect DEF acquire_snapshot_dir_lock, acquire_vm_snapshot_lock
        <4> QED BY <4>1
      <3> QED BY <2>3, <3>1, <3>2, <3>3, <3>4, <3>5, <3>6 DEF Step
    <2>4. ASSUME NEW a \in Clis, NEW u \in Vms, NEW n \in Names, NEW d \in BOOLEAN, cmd_snapshot_create(a, u, n, d)
          PROVE  parent'[job'[b].vm] = NoName
      <3>1. job'[b] = job[b] \/ job'[b].pc = "lock"
        BY <2>4, <1>0, StartSteps DEF Starts, Others
      <3> QED BY <2>1, <2>4, <3>1 DEF cmd_snapshot_create, vmVars
    <2>5. ASSUME NEW u \in Vms, Exit(u) PROVE parent'[job'[b].vm] = NoName
      <3>1. job'[b] = job[b] \/ job'[b].pc = "idle"
        BY <2>5, Values DEF Exit, TypeInv, JobType
      <3> QED BY <2>1, <2>5, <3>1 DEF Exit
    <2>6. ASSUME NEW u \in Vms, NEW n \in Names, Restore(u, n) PROVE parent'[job'[b].vm] = NoName
      <3>1. job' = job
        BY <2>6 DEF Restore
      <3>2. u # job[b].vm
        BY <2>6, <3>1 DEF Restore, LockInv
      <3> QED BY <1>0, <2>1, <2>6, <3>1, <3>2 DEF Restore, TypeInv, VmType
    <2> QED BY <1>1, <2>1, <2>2, <2>3, <2>4, <2>5, <2>6 DEF Next, Boot, GuestWrite, delete_snapshot, vmVars, vars
  <1> QED BY <1>3, <1>4, <1>5, <1>6, AloneSound DEF AloneInv

LEMMA CreatesAloneStep ==
    ASSUME CreatesAlone, TypeInv, TypeInv', CreatesAloneInv, [Next]_vars PROVE CreatesAloneInv'
  <1>1. LockInv /\ CreateInv /\ AloneInv /\ FreshInv /\ PublishedIsGuest
    BY DEF CreatesAloneInv
  <1>2. \A a \in Creators :
            job[a].pc = "check" /\ st[job[a].vm] = "up" /\ parent[job[a].vm] = job[a].parent /\ ~job[a].diskOnly
                => SoundParent(job[a].vm, job[a].parent)
    <2>1. \A a \in Creators : job[a].vm \in Vms
      BY DEF TypeInv, JobType, Jobs
    <2> QED BY <1>1, <2>1 DEF AloneInv
  <1>3. \A v \in Vms, b \in Creators : Reboot(v) /\ job[b].pc \in Locked => v # job[b].vm
    BY DEF CreatesAlone, Reboot
  <1> QED BY <1>1, <1>2, <1>3, LockInvStep, CreateInvStep, AloneInvStep, FreshInvStep, PublishedStep
      DEF CreatesAloneInv

LEMMA CreatesAloneInit == Init => CreatesAloneInv
  <1> SUFFICES ASSUME Init PROVE CreatesAloneInv
    OBVIOUS
  <1>1. \A a \in Creators : job[a].pc = "idle"
    BY Values DEF Init
  <1>2. /\ \A n \in Names : snap[n].kind = "none"
        /\ \A v \in Vms : parent[v] = NoName /\ due[v] = "none" /\ v \in Creators
    BY DEF Init, NoSnap, Creators
  <1>3. CreateInv /\ PublishedIsGuest
    BY <1>1, <1>2 DEF CreateInv, CreateOK, PublishedIsGuest
  <1>4. AloneInv /\ FreshInv
    BY <1>1, <1>2 DEF AloneInv, FreshInv, Before, SoundParent, HasMemory
  <1> QED BY <1>3, <1>4, LockInvInit DEF CreatesAloneInv

(* `snapshot create` publishes exactly the memory its guest had at the     *)
(* pause, over any chain of diffs, with any number of creators, VMs,       *)
(* restores, deletes, exits, failures and retries: create_snapshot_core's  *)
(* merge base is the VM's last saved memory.  Owners, reboots and names    *)
(* taken over by other VMs are left out by CreatesAlone.                   *)
THEOREM CreatesPublishGuest == ASSUME CreatesAlone PROVE Spec => []PublishedIsGuest
  <1>1. CreatesAloneInv => PublishedIsGuest
    BY DEF CreatesAloneInv
  <1>2. Init => CreatesAloneInv /\ TypeInv
    BY CreatesAloneInit, TypeInit
  <1>3. CreatesAloneInv /\ TypeInv /\ [Next]_vars => (CreatesAloneInv /\ TypeInv)'
    BY CreatesAloneStep, TypeStep
  <1> QED BY <1>1, <1>2, <1>3, PTL DEF Spec

(* Under the same conditions the parent named in a VM's state file is a    *)
(* sound diff base in every state, also in the middle of a create and      *)
(* after one that failed: the parent is cleared before the save.           *)
THEOREM CreatesKeepParents == ASSUME CreatesAlone PROVE Spec => []ParentReproduces
  <1>1. CreatesAloneInv /\ TypeInv => ParentReproduces
    BY SoundReproduces DEF CreatesAloneInv, AloneInv
  <1>2. Init => CreatesAloneInv /\ TypeInv
    BY CreatesAloneInit, TypeInit
  <1>3. CreatesAloneInv /\ TypeInv /\ [Next]_vars => (CreatesAloneInv /\ TypeInv)'
    BY CreatesAloneStep, TypeStep
  <1> QED BY <1>1, <1>2, <1>3, PTL DEF Spec

-----------------------------------------------------------------------------
(* Owners alone: no `snapshot create` beside them, and no cache entry is   *)
(* deleted, so that an entry is written once.                              *)
OwnersAlone == Clis = {} /\ "delete" \notin Features

(* While an owner has a snapshot to take, the parent in the state file is its own   *)
(* copy, or none because recording it failed.                                       *)
RecordInv ==
    /\ \A v \in Vms : st[v] = "up" /\ due[v] # "none" => parent[v] \in {known[v], NoName}
    /\ \A v \in Vms : st[v] = "new" => parent[v] = NoName /\ known[v] = NoName /\ due[v] = "none"
    /\ \A v \in Vms : due[v] = "pre" => known[v] = NoName
    /\ \A v \in Vms : job[v].pc # "idle" => job[v].parent \in {known[v], NoName} /\ due[v] # "none"
    /\ \A v \in Vms : job[v].pc \notin {"clear", "record"}

(* A cache entry is published where there was none. *)
WriteOnce ==
    /\ \A v \in Vms : known[v] # NoName => HasMemory(known[v])
    /\ \A v \in Vms : job[v].pc \in {"check", "stage", "save", "merge", "publish"} => snap[job[v].target].kind = "none"
    /\ \A v \in Vms : job[v].pc \in {"release", "record_late"} => HasMemory(job[v].target)

(* What an owner will take its next diff against is sound. *)
OwnerSound ==
    /\ \A v \in Vms : st[v] = "up" /\ due[v] # "none" /\ job[v].pc \in {"idle", "lock", "vmlock", "check"}
           => SoundParent(v, known[v])
    /\ \A v \in Vms : job[v].pc \in {"release", "record_late"} => SoundParent(v, job[v].target)

OwnersAloneInv == LockInv /\ CreateInv /\ RecordInv /\ WriteOnce /\ OwnerSound /\ PublishedIsGuest

(* The three kinds of step an owner takes in its create. *)
GoesOn(v) ==
    /\ job[v].pc # "idle" /\ job'[v].pc \notin {"idle", "clear", "record"}
    /\ job'[v].target = job[v].target /\ job'[v].parent \in {job[v].parent, parent[v]}
    /\ UNCHANGED <<parent, known, due>>

GivesUp(v) ==
    /\ job[v].pc # "idle" /\ job'[v].pc = "idle"
    /\ due' = [due EXCEPT ![v] = NextDue(v)]
    /\ UNCHANGED <<parent, known>>

Records(v) ==
    /\ job[v].pc = "record_late" /\ job'[v].pc = "idle"
    /\ parent' \in {parent, [parent EXCEPT ![v] = job[v].target]}
    /\ known' = [known EXCEPT ![v] = job[v].target]
    /\ due' = [due EXCEPT ![v] = NextDue(v)]
    /\ UNCHANGED <<dirty, snap>>

LEMMA OwnerKinds ==
    ASSUME TypeInv, LockInv, RecordInv, NEW v \in Vms, Step(v) \/ Fail(v)
    PROVE  /\ UNCHANGED <<st, mem>> /\ st[v] = "up" /\ job[v].vm = v /\ ~job[v].diskOnly
           /\ GoesOn(v) \/ GivesUp(v) \/ Records(v)
  <1>0. v \in Creators /\ v \notin Clis /\ job \in [Creators -> Jobs] /\ job[v] \in Jobs /\ job[v].pc # "idle"
    BY IdleWaits, LineageAssumption DEF Creators, TypeInv, JobType
  <1>1. UNCHANGED <<st, mem>> /\ st[v] = "up" /\ job[v].vm = v /\ ~job[v].diskOnly
    BY <1>0 DEF LockInv, Step, Fail, acquire_snapshot_dir_lock, keeps_installed_generation,
       acquire_vm_snapshot_lock, CheckLineage, ClearParent, Stage, Save, SaveRefused, MergeDiff, Publish,
       RecordAndRelease, Release, RecordLate, vmVars
  <1>2. ASSUME Return(v), UNCHANGED <<parent, known>> PROVE GivesUp(v)
    BY <1>0, <1>2, ReturnDrops, Values DEF GivesUp, Return
  <1>3. CASE keeps_installed_generation(v) \/ SaveRefused(v) \/ Fail(v)
    BY <1>1, <1>2, <1>3 DEF keeps_installed_generation, SaveRefused, Fail, KeepInstalled
  <1>4. CASE CheckLineage(v)
    <2>1. CASE Return(v)
      BY <1>1, <1>2, <1>4, <2>1 DEF CheckLineage
    <2>2. CASE Goto(v, FirstStep(v)) /\ due' = due
      <3>1. job'[v].pc = "stage" /\ job'[v].target = job[v].target /\ job'[v].parent = job[v].parent
        BY <1>0, <2>2, GotoEffect DEF FirstStep
      <3> QED BY <1>0, <1>1, <1>4, <2>2, <3>1 DEF CheckLineage, GoesOn
    <2>3. CASE /\ job' = [job EXCEPT ![v].pc = "lock", ![v].parent = parent[job[v].vm],
                                     ![v].retries = IF v \in Clis THEN @ + 1 ELSE @]
               /\ due' = due
      <3>1. job'[v].pc = "lock" /\ job'[v].target = job[v].target /\ job'[v].parent = parent[v]
        BY <1>0, <1>1, <2>3 DEF Jobs
      <3> QED BY <1>0, <1>1, <1>4, <2>3, <3>1 DEF CheckLineage, GoesOn
    <2> QED BY <1>4, <2>1, <2>2, <2>3 DEF CheckLineage
  <1>5. CASE acquire_snapshot_dir_lock(v) \/ acquire_vm_snapshot_lock(v)
    <2>1. job'[v].pc \in {"lock", "vmlock", "check"} /\ job'[v].target = job[v].target /\ job'[v].parent = job[v].parent
      BY <1>0, <1>5, GotoEffect DEF acquire_snapshot_dir_lock, acquire_vm_snapshot_lock
    <2> QED BY <1>0, <1>1, <1>5, <2>1 DEF GoesOn, acquire_snapshot_dir_lock, acquire_vm_snapshot_lock, vmVars
  <1>6. CASE Stage(v) \/ Save(v) \/ MergeDiff(v) \/ Publish(v)
    <2>1. job'[v].target = job[v].target /\ job'[v].parent = job[v].parent
      BY <1>0, <1>6, WorkSteps DEF Works
    <2>2. job'[v].pc \in {"save", "merge", "publish", "release"}
      <3>1. CASE Stage(v)
        BY <1>0, <1>1, <3>1 DEF Stage, Jobs
      <3>2. CASE Save(v)
        BY <1>0, <3>2 DEF Save, Jobs
      <3>3. CASE MergeDiff(v)
        BY <1>0, <3>3 DEF MergeDiff, Jobs
      <3>4. CASE Publish(v)
        BY <1>0, <3>4, GotoEffect DEF Publish
      <3> QED BY <1>6, <3>1, <3>2, <3>3, <3>4
    <2>3. UNCHANGED <<parent, known, due>>
      BY <1>6 DEF Stage, Save, MergeDiff, Publish, vmVars
    <2> QED BY <1>0, <1>1, <2>1, <2>2, <2>3 DEF GoesOn
  <1>7. CASE Release(v)
    <2>1. /\ job'[v].pc = "record_late" /\ job'[v].target = job[v].target /\ job'[v].parent = job[v].parent
      BY <1>0, <1>7, GotoEffect DEF Release
    <2> QED BY <1>0, <1>1, <1>7, <2>1 DEF GoesOn, Release
  <1>8. CASE RecordLate(v)
    <2>1. job'[v].pc = "idle" /\ due' = [due EXCEPT ![v] = NextDue(v)]
      BY <1>0, <1>8, ReturnDrops, Values DEF RecordLate, Return
    <2> QED BY <1>1, <1>8, <2>1 DEF Records, RecordLate, RecordParent, RecordIgnored
  <1>9. ~ClearParent(v) /\ ~RecordAndRelease(v)
    BY DEF RecordInv, ClearParent, RecordAndRelease
  <1> QED BY <1>3, <1>4, <1>5, <1>6, <1>7, <1>8, <1>9 DEF Step

(* Every step there is when owners are alone. *)
LEMMA OwnerNext ==
    ASSUME OwnersAlone, [Next]_vars
    PROVE  /\ Creators = Vms
           /\ \/ \E v \in Vms : Step(v) \/ Fail(v)
              \/ \E v \in Vms : Boot(v) \/ Reboot(v) \/ Exit(v) \/ create_podman_snapshot(v)
              \/ \E v \in Vms, n \in Names : Restore(v, n)
              \/ \E v \in Vms, pg \in Pages : GuestWrite(v, pg)
              \/ UNCHANGED vars
  <1>1. Creators = Vms
    BY DEF OwnersAlone, Creators
  <1> QED BY <1>1 DEF Next, OwnersAlone, delete_snapshot, cmd_snapshot_create

LEMMA RecordInvStep ==
    ASSUME OwnersAlone, TypeInv, LockInv, RecordInv, [Next]_vars PROVE RecordInv'
  <1>0. Creators = Vms
    BY OwnerNext
  <1>1. ASSUME NEW u \in Vms, Step(u) \/ Fail(u) PROVE RecordInv'
    <2>0. UNCHANGED <<st, mem>> /\ st[u] = "up" /\ (GoesOn(u) \/ GivesUp(u) \/ Records(u))
      BY <1>1, OwnerKinds
    <2>1. \A b \in Vms \ {u} : job'[b] = job[b]
      BY <1>0, <1>1, OnlyItsJob
    <2>2. CASE GoesOn(u)
      <3>1. job'[u].parent \in {known[u], NoName} /\ due[u] # "none"
        BY <2>0, <2>2 DEF GoesOn, RecordInv
      <3> QED BY <2>0, <2>1, <2>2, <3>1 DEF GoesOn, RecordInv
    <2>3. CASE GivesUp(u)
      <3>1. due'[u] # "pre" /\ \A b \in Vms \ {u} : due'[b] = due[b]
        BY <2>3 DEF GivesUp, NextDue, TypeInv, VmType
      <3> QED BY <2>0, <2>1, <2>3, <3>1 DEF GivesUp, RecordInv
    <2>4. CASE Records(u)
      <3>1. due'[u] # "pre" /\ (due'[u] # "none" => due[u] = "pre") /\ \A b \in Vms \ {u} : due'[b] = due[b]
        BY <2>4 DEF Records, NextDue, TypeInv, VmType
      <3>2. parent'[u] \in {parent[u], known'[u]} /\ \A b \in Vms \ {u} : parent'[b] = parent[b] /\ known'[b] = known[b]
        BY <2>4 DEF Records, TypeInv, VmType
      <3> QED BY <2>0, <2>1, <2>4, <3>1, <3>2 DEF Records, RecordInv
    <2> QED BY <2>0, <2>2, <2>3, <2>4
  <1>2. ASSUME NEW u \in Vms, Boot(u) PROVE RecordInv'
    <2>1. /\ UNCHANGED <<parent, known, job>> /\ st[u] = "new" /\ st'[u] = "up"
          /\ \A b \in Vms \ {u} : st'[b] = st[b] /\ due'[b] = due[b]
      BY <1>2 DEF Boot, TypeInv, VmType
    <2>2. job[u].pc = "idle"
      BY <1>0, <2>1 DEF LockInv
    <2> QED BY <2>1, <2>2 DEF RecordInv
  <1>3. ASSUME NEW u \in Vms, NEW n \in Names, Restore(u, n) PROVE RecordInv'
    <2>1. /\ UNCHANGED job /\ st[u] = "new" /\ st'[u] = "up" /\ parent'[u] = n /\ known'[u] = n /\ due'[u] # "pre"
          /\ \A b \in Vms \ {u} : st'[b] = st[b] /\ due'[b] = due[b] /\ parent'[b] = parent[b] /\ known'[b] = known[b]
      BY <1>3 DEF Restore, TypeInv, VmType
    <2>2. job[u].pc = "idle"
      BY <1>0, <2>1 DEF LockInv
    <2> QED BY <2>1, <2>2 DEF RecordInv
  <1>4. ASSUME NEW u \in Vms, Reboot(u) PROVE RecordInv'
    <2>1. /\ UNCHANGED <<st, job>> /\ st[u] = "up" /\ job[u].pc = "idle" /\ known'[u] = NoName
          /\ due'[u] = "none" /\ \A b \in Vms \ {u} : due'[b] = due[b] /\ parent'[b] = parent[b] /\ known'[b] = known[b]
      BY <1>4 DEF Reboot, RecordIgnored, TypeInv, VmType
    <2> QED BY <2>1 DEF RecordInv
  <1>5. ASSUME NEW u \in Vms, Exit(u) PROVE RecordInv'
    <2>1. /\ UNCHANGED <<parent, known, due>> /\ st'[u] = "gone" /\ job'[u].pc = "idle"
          /\ \A b \in Vms \ {u} : st'[b] = st[b] /\ job'[b] = job[b]
      BY <1>0, <1>5, Values DEF Exit, TypeInv, VmType, JobType
    <2> QED BY <2>1 DEF RecordInv
  <1>6. ASSUME NEW u \in Vms, create_podman_snapshot(u) PROVE RecordInv'
    <2>0. UNCHANGED <<st, parent, known>> /\ st[u] = "up" /\ job[u].pc = "idle" /\ due[u] # "none"
      BY <1>6 DEF create_podman_snapshot
    <2>1. CASE job' = job /\ due' = [due EXCEPT ![u] = "none"]
      <3>1. due'[u] = "none" /\ \A b \in Vms \ {u} : due'[b] = due[b]
        BY <2>1 DEF TypeInv, VmType
      <3> QED BY <2>0, <2>1, <3>1 DEF RecordInv
    <2>2. CASE due' = due /\ job' = [job EXCEPT ![u] = NewJob("lock", u, Key(u), known[u], FALSE)]
      <3>1. job'[u].pc = "lock" /\ job'[u].parent = known[u] /\ \A b \in Vms \ {u} : job'[b] = job[b]
        BY <1>0, <2>2 DEF NewJob, TypeInv, JobType
      <3> QED BY <2>0, <2>2, <3>1 DEF RecordInv
    <2> QED BY <1>6, <2>1, <2>2 DEF create_podman_snapshot
  <1>7. CASE (\E v \in Vms, pg \in Pages : GuestWrite(v, pg)) \/ UNCHANGED vars
    BY <1>7 DEF GuestWrite, vars, RecordInv
  <1> QED BY <1>1, <1>2, <1>3, <1>4, <1>5, <1>6, <1>7, OwnerNext

LEMMA SnapsStay ==
    ASSUME OwnersAlone, TypeInv, WriteOnce, [Next]_vars
    PROVE  \A n \in Names : snap[n].kind # "none" => snap'[n] = snap[n]
  <1>1. CASE snap' = snap
    BY <1>1
  <1>2. ASSUME NEW u \in Vms, job[u].pc = "publish", NEW x, snap' = [snap EXCEPT ![job[u].target] = x]
        PROVE  \A n \in Names : snap[n].kind # "none" => snap'[n] = snap[n]
    <2>1. snap[job[u].target].kind = "none"
      BY <1>2 DEF WriteOnce
    <2> QED BY <1>2, <2>1 DEF TypeInv, SnapType
  <1>3. ASSUME NEW u \in Vms, Publish(u) PROVE \A n \in Names : snap[n].kind # "none" => snap'[n] = snap[n]
    BY <1>2, <1>3 DEF Publish
  <1>4. ASSUME NEW u \in Vms, Fail(u) PROVE \A n \in Names : snap[n].kind # "none" => snap'[n] = snap[n]
    BY <1>1, <1>2, <1>4 DEF Fail
  <1>5. ASSUME NEW u \in Vms, Step(u), ~Publish(u) PROVE snap' = snap
    BY <1>5 DEF Step, acquire_snapshot_dir_lock, keeps_installed_generation, acquire_vm_snapshot_lock,
       CheckLineage, ClearParent, Stage, Save, SaveRefused, MergeDiff, RecordAndRelease, Release, RecordLate
  <1> QED BY <1>1, <1>3, <1>4, <1>5, OwnerNext
      DEF Boot, Reboot, Exit, create_podman_snapshot, Restore, GuestWrite, vars

(* An owner never meets its own VM's reboot in a create. *)
LEMMA OwnersKeep ==
    ASSUME OwnersAlone, TypeInv, LockInv, [Next]_vars, NEW b \in Vms, job[b].pc \in Locked, ~Step(b), ~Fail(b)
    PROVE  Kept(b)
  <1>0. Creators = Vms /\ job[b].vm = b /\ job[b].pc # "idle"
    BY OwnerNext DEF LockInv, Locked
  <1>1. ASSUME NEW v \in Vms, Reboot(v) PROVE v # job[b].vm
    BY <1>0, <1>1 DEF Reboot
  <1>2. ASSUME NEW v \in Vms, Step(v) \/ Fail(v) PROVE Kept(b)
    BY <1>0, <1>2, OthersKeep
  <1>3. CASE UNCHANGED vars
    BY <1>3 DEF vars, Kept
  <1>4. CASE \/ \E v \in Vms : Boot(v) \/ Reboot(v) \/ Exit(v) \/ create_podman_snapshot(v)
             \/ \E v \in Vms, n \in Names : Restore(v, n)
             \/ \E v \in Vms, pg \in Pages : GuestWrite(v, pg)
    BY <1>0, <1>1, <1>4, EnvironmentKeeps
  <1> QED BY <1>2, <1>3, <1>4, OwnerNext

(* The job of an owner that takes no step in its create. *)
LEMMA OwnerRests ==
    ASSUME OwnersAlone, TypeInv, LockInv, [Next]_vars, NEW b \in Vms, ~Step(b), ~Fail(b)
    PROVE  job'[b] = job[b] \/ job'[b].pc = "idle" \/ (job[b].pc = "idle" /\ job'[b].pc = "lock" /\ st'[b] = "up")
  <1>0. Creators = Vms
    BY OwnerNext
  <1>1. ASSUME NEW v \in Vms, Step(v) \/ Fail(v) PROVE job'[b] = job[b]
    BY <1>0, <1>1, OnlyItsJob
  <1>2. ASSUME NEW v \in Vms, Exit(v) PROVE job'[b] = job[b] \/ job'[b].pc = "idle"
    BY <1>0, <1>2, Values DEF Exit, TypeInv, JobType
  <1>3. ASSUME NEW v \in Vms, create_podman_snapshot(v)
        PROVE  job'[b] = job[b] \/ (job[b].pc = "idle" /\ job'[b].pc = "lock" /\ st'[b] = "up")
    <2>1. job' = job \/ job' = [job EXCEPT ![v] = NewJob("lock", v, Key(v), known[v], FALSE)]
      BY <1>3 DEF create_podman_snapshot
    <2>2. st' = st /\ st[v] = "up" /\ job[v].pc = "idle"
      BY <1>3 DEF create_podman_snapshot
    <2> QED BY <1>0, <2>1, <2>2 DEF NewJob, TypeInv, JobType
  <1> QED BY <1>1, <1>2, <1>3, OwnerNext DEF Boot, Reboot, Restore, GuestWrite, vars

LEMMA WriteOnceStep ==
    ASSUME OwnersAlone, TypeInv, LockInv, RecordInv, WriteOnce, [Next]_vars PROVE WriteOnce'
  <1>0. Creators = Vms
    BY OwnerNext
  <1>1. ASSUME NEW n \in Names, HasMemory(n) PROVE HasMemory(n)' /\ snap'[n] = snap[n]
    BY <1>1, SnapsStay DEF HasMemory
  <1>2. ASSUME NEW b \in Vms, known'[b] # NoName PROVE (HasMemory(known[b]))'
    <2>0. known[b] \in Names \union {NoName} /\ job[b].target \in Names
      BY <1>0 DEF TypeInv, VmType, JobType, Jobs
    <2>1. CASE known'[b] = known[b]
      <3>1. PICK n \in Names : n = known[b]
        BY <1>2, <2>0, <2>1
      <3>2. HasMemory(n)
        BY <1>2, <2>1, <3>1 DEF WriteOnce
      <3> QED BY <1>1, <2>1, <3>1, <3>2 DEF HasMemory
    <2>2. ASSUME NEW u \in Vms, Step(u) \/ Fail(u), known'[b] # known[b] PROVE (HasMemory(known[b]))'
      <3>1. Records(u)
        BY <2>2, OwnerKinds DEF GoesOn, GivesUp
      <3>2. b = u /\ known'[b] = job[b].target
        BY <2>2, <3>1 DEF Records, TypeInv, VmType
      <3>3. HasMemory(job[b].target) /\ snap' = snap
        BY <3>1, <3>2 DEF Records, WriteOnce
      <3> QED BY <3>2, <3>3 DEF HasMemory
    <2>3. ASSUME NEW u \in Vms, NEW n \in Names, Restore(u, n), known'[b] # known[b] PROVE (HasMemory(known[b]))'
      <3>1. known'[b] = n /\ HasMemory(n) /\ snap' = snap
        BY <2>3 DEF Restore, TypeInv, VmType
      <3> QED BY <3>1 DEF HasMemory
    <2>4. ASSUME NEW u \in Vms, Reboot(u) PROVE known'[b] = known[b]
      BY <1>2, <2>4 DEF Reboot, TypeInv, VmType
    <2> QED BY <2>1, <2>2, <2>3, <2>4, OwnerNext DEF Boot, Exit, create_podman_snapshot, GuestWrite, vars
  <1>3. ASSUME NEW b \in Vms, ~Step(b), ~Fail(b)
        PROVE  /\ job'[b].pc \in {"check", "stage", "save", "merge", "publish"} => snap'[job'[b].target].kind = "none"
               /\ job'[b].pc \in {"release", "record_late"} => (HasMemory(job[b].target))'
    <2>1. SUFFICES ASSUME job'[b].pc \in {"check", "stage", "save", "merge", "publish", "release", "record_late"}
          PROVE  /\ job'[b].pc \in {"check", "stage", "save", "merge", "publish"} => snap'[job'[b].target].kind = "none"
                 /\ job'[b].pc \in {"release", "record_late"} => (HasMemory(job[b].target))'
      OBVIOUS
    <2>2. job'[b] = job[b] /\ job[b].target \in Names /\ job[b].target \in Requests(b)
      BY <1>0, <1>3, <2>1, OwnerRests DEF TypeInv, JobType, Jobs, Requests
    <2>3. CASE job[b].pc \in {"check", "stage", "save", "merge", "publish"}
      <3>1. Kept(b)
        BY <1>3, <2>3, OwnersKeep DEF Locked
      <3> QED BY <2>2, <2>3, <3>1 DEF Kept, WriteOnce
    <2>4. CASE job[b].pc \in {"release", "record_late"}
      BY <1>1, <2>2, <2>4 DEF WriteOnce, HasMemory
    <2> QED BY <2>1, <2>2, <2>3, <2>4
  <1>4. ASSUME NEW b \in Vms, Step(b) \/ Fail(b)
        PROVE  /\ job'[b].pc \in {"check", "stage", "save", "merge", "publish"} => snap'[job'[b].target].kind = "none"
               /\ job'[b].pc \in {"release", "record_late"} => (HasMemory(job[b].target))'
    <2>0. /\ job[b].target \in Names /\ b \in Creators /\ b \notin Clis /\ ~job[b].diskOnly /\ job[b].pc # "idle"
          /\ GoesOn(b) \/ GivesUp(b) \/ Records(b)
          /\ job \in [Creators -> Jobs] /\ job[b] \in Jobs
      BY <1>0, <1>4, OwnerKinds, IdleWaits DEF TypeInv, JobType, Jobs, OwnersAlone
    <2>1. CASE job'[b].pc = "idle"
      BY <2>1
    <2>2. CASE job'[b].pc # "idle"
      <3>1. job'[b].target = job[b].target
        BY <2>0, <2>2 DEF GoesOn, GivesUp, Records
      <3>2. CASE Publish(b)
        <4>1. job'[b].pc = "release" /\ snap'[job[b].target].kind = "memory"
          BY <2>0, <3>2, GotoEffect DEF Publish, TypeInv, SnapType
        <4> QED BY <2>0, <3>1, <4>1, Values DEF HasMemory
      <3>3. CASE Stage(b) \/ Save(b) \/ MergeDiff(b)
        <4>1. job[b].pc \in {"stage", "save", "merge"} /\ snap' = snap
          BY <3>3 DEF Stage, Save, MergeDiff
        <4>2. job'[b].pc \in {"save", "merge", "publish"}
          <5>1. CASE Stage(b)
            BY <2>0, <5>1 DEF Stage, Jobs
          <5>2. CASE Save(b)
            BY <2>0, <5>2 DEF Save, Jobs
          <5>3. CASE MergeDiff(b)
            BY <2>0, <5>3 DEF MergeDiff, Jobs
          <5> QED BY <3>3, <5>1, <5>2, <5>3
        <4> QED BY <3>1, <4>1, <4>2 DEF WriteOnce
      <3>4. CASE CheckLineage(b)
        <4>1. job[b].pc = "check" /\ snap' = snap
          BY <3>4 DEF CheckLineage
        <4>2. job'[b].pc \in {"lock", "stage"}
          <5>1. CASE Goto(b, FirstStep(b))
            BY <2>0, <5>1, GotoEffect DEF FirstStep
          <5>2. CASE job' = [job EXCEPT ![b].pc = "lock", ![b].parent = parent[job[b].vm],
                                        ![b].retries = IF b \in Clis THEN @ + 1 ELSE @]
            BY <2>0, <5>2 DEF Jobs
          <5>3. CASE Return(b)
            BY <2>0, <2>2, <5>3, ReturnDrops, Values
          <5> QED BY <3>4, <5>1, <5>2, <5>3 DEF CheckLineage
        <4> QED BY <3>1, <4>1, <4>2 DEF WriteOnce
      <3>5. CASE Release(b)
        <4>1. job[b].pc = "release" /\ snap' = snap /\ job'[b].pc = "record_late"
          BY <2>0, <3>5, GotoEffect DEF Release
        <4> QED BY <3>1, <4>1 DEF WriteOnce, HasMemory
      <3>6. CASE acquire_snapshot_dir_lock(b)
        <4>1. job'[b].pc \in {"lock", "vmlock"}
          BY <2>0, <3>6, GotoEffect DEF acquire_snapshot_dir_lock
        <4> QED BY <4>1
      <3>7. CASE acquire_vm_snapshot_lock(b)
        <4>1. job'[b].pc = "check" /\ snap' = snap /\ snap[job[b].target].kind = "none"
          BY <2>0, <3>7, GotoEffect, <1>4 DEF acquire_vm_snapshot_lock, Installed
        <4> QED BY <3>1, <4>1
      <3>8. CASE keeps_installed_generation(b) \/ SaveRefused(b) \/ RecordLate(b) \/ Fail(b)
        <4>1. job'[b] = Idle
          BY <2>0, <3>8, ReturnDrops DEF keeps_installed_generation, SaveRefused, RecordLate, Fail
        <4> QED BY <2>2, <4>1, Values
      <3>9. ~ClearParent(b) /\ ~RecordAndRelease(b)
        BY <1>4 DEF RecordInv, ClearParent, RecordAndRelease
      <3> QED BY <1>4, <3>2, <3>3, <3>4, <3>5, <3>6, <3>7, <3>8, <3>9 DEF Step
    <2> QED BY <2>1, <2>2
  <1> QED BY <1>2, <1>3, <1>4 DEF WriteOnce

LEMMA OwnerSoundStep ==
    ASSUME OwnersAlone, TypeInv, LockInv, CreateInv, CreateInv', RecordInv, RecordInv', WriteOnce, OwnerSound, [Next]_vars
    PROVE  OwnerSound'
  <1> DEFINE Waits(v) == st[v] = "up" /\ due[v] # "none" /\ job[v].pc \in {"idle", "lock", "vmlock", "check"}
  <1>0. Creators = Vms
    BY OwnerNext
  <1>1. ASSUME NEW v \in Vms, NEW n \in Names \union {NoName}, SoundParent(v, n), n # NoName => HasMemory(n),
               st'[v] = "up" => /\ st[v] = "up" /\ dirty[v] \subseteq dirty'[v]
                                /\ \A pg \in Pages \ dirty'[v] : mem'[v][pg] = mem[v][pg]
        PROVE  SoundParent(v, n)'
    <2>1. CASE n = NoName
      BY <2>1 DEF SoundParent, HasMemory
    <2>2. CASE n # NoName
      <3>1. HasMemory(n) /\ snap'[n] = snap[n]
        BY <1>1, <2>2, SnapsStay DEF HasMemory
      <3> QED BY <1>1, <3>1 DEF SoundParent, Base
    <2> QED BY <2>1, <2>2
  <1>2. ASSUME NEW v \in Vms, ~Step(v), ~Fail(v),
               ~ Boot(v), ~ Reboot(v), ~ \E n \in Names : Restore(v, n)
        PROVE  st'[v] = "up" => /\ st[v] = "up" /\ dirty[v] \subseteq dirty'[v]
                                /\ \A pg \in Pages \ dirty'[v] : mem'[v][pg] = mem[v][pg]
    <2>1. ASSUME NEW u \in Vms, Step(u) \/ Fail(u)
          PROVE  st'[v] = st[v] /\ mem'[v] = mem[v] /\ dirty'[v] = dirty[v]
      <3>1. UNCHANGED <<st, mem>> /\ job[u].vm = u /\ u # v
        BY <1>2, <2>1, OwnerKinds
      <3>2. CASE Save(u) \/ Fail(u)
        <4>1. dirty' = dirty \/ dirty' = [dirty EXCEPT ![u] = {}]
          BY <3>1, <3>2 DEF Save, Fail
        <4> QED BY <3>1, <4>1 DEF TypeInv, VmType
      <3> QED BY <2>1, <3>1, <3>2 DEF Step, acquire_snapshot_dir_lock, keeps_installed_generation,
           acquire_vm_snapshot_lock, CheckLineage, ClearParent, Stage, Publish, SaveRefused, MergeDiff,
           RecordAndRelease, Release, RecordLate, vmVars
    <2>2. ASSUME NEW u \in Vms, Boot(u) \/ Reboot(u) \/ Exit(u) \/ \E n \in Names : Restore(u, n)
          PROVE  st'[v] = "up" => st[v] = "up" /\ mem'[v] = mem[v] /\ dirty'[v] = dirty[v]
      BY <1>2, <2>2 DEF Boot, Reboot, Exit, Restore, TypeInv, VmType
    <2>3. ASSUME NEW u \in Vms, NEW pg \in Pages, GuestWrite(u, pg)
          PROVE  /\ st' = st /\ dirty[v] \subseteq dirty'[v]
                 /\ \A q \in Pages \ dirty'[v] : mem'[v][q] = mem[v][q]
      BY <2>3 DEF GuestWrite, TypeInv, VmType, Image
    <2> QED BY <2>1, <2>2, <2>3, OwnerNext DEF create_podman_snapshot, vars
  <1>3. ASSUME NEW v \in Vms, ~Step(v), ~Fail(v)
        PROVE  (Waits(v) => SoundParent(v, known[v]))'
    <2> SUFFICES ASSUME Waits(v)' PROVE (SoundParent(v, known[v]))'
      OBVIOUS
    <2>0. known[v] \in Names \union {NoName} /\ NoName \notin Names
      BY Values DEF TypeInv, VmType
    <2>1. CASE Boot(v)
      <3>1. known'[v] = NoName
        BY <2>1 DEF Boot, RecordInv
      <3> QED BY <3>1 DEF SoundParent, HasMemory
    <2>2. CASE Reboot(v)
      <3>1. known'[v] = NoName
        BY <2>2 DEF Reboot, TypeInv, VmType
      <3> QED BY <3>1 DEF SoundParent, HasMemory
    <2>3. ASSUME NEW n \in Names, Restore(v, n) PROVE (SoundParent(v, known[v]))'
      <3>1. known'[v] = n /\ snap' = snap /\ mem'[v] = snap[n].mem
        BY <2>3 DEF Restore, TypeInv, VmType
      <3> QED BY <3>1 DEF SoundParent, Base
    <2>4. CASE ~Boot(v) /\ ~Reboot(v) /\ ~ \E n \in Names : Restore(v, n)
      <3>1. known'[v] = known[v] /\ due[v] # "none"
        <4>1. ASSUME NEW u \in Vms, Step(u) \/ Fail(u) PROVE known'[v] = known[v] /\ due'[v] = due[v]
          BY <1>3, <4>1, OwnerKinds DEF GoesOn, GivesUp, Records, TypeInv, VmType
        <4>2. ASSUME NEW u \in Vms, create_podman_snapshot(u)
              PROVE  known' = known /\ (due'[v] = due[v] \/ due'[v] = "none")
          BY <4>2 DEF create_podman_snapshot, TypeInv, VmType
        <4>3. ASSUME NEW u \in Vms \ {v}, Boot(u) \/ Reboot(u) \/ \E n \in Names : Restore(u, n)
              PROVE  known'[v] = known[v] /\ due'[v] = due[v]
          BY <4>3 DEF Boot, Reboot, Restore, TypeInv, VmType
        <4> QED BY <2>4, <4>1, <4>2, <4>3, OwnerNext DEF Exit, GuestWrite, vars
      <3>2. job'[v] = job[v] \/ job[v].pc = "idle" \/ job'[v].pc = "idle"
        BY <1>3, OwnerRests
      <3>3. st[v] = "up"
        BY <1>2, <1>3, <2>4
      <3>4. job[v].pc \in {"idle", "lock", "vmlock", "check"}
        <4>1. ASSUME NEW u \in Vms, Exit(u) PROVE job'[v] = job[v]
          <5>1. u # v
            BY <4>1 DEF Exit, TypeInv, VmType
          <5> QED BY <1>0, <4>1, <5>1 DEF Exit, TypeInv, JobType
        <4>2. ASSUME NEW u \in Vms, Step(u) \/ Fail(u) PROVE job'[v] = job[v]
          BY <1>0, <1>3, <4>2, OnlyItsJob
        <4>3. ASSUME NEW u \in Vms, create_podman_snapshot(u) PROVE job'[v] = job[v] \/ job[v].pc = "idle"
          BY <1>0, <4>3 DEF create_podman_snapshot, TypeInv, JobType
        <4> QED BY <4>1, <4>2, <4>3, OwnerNext DEF Boot, Reboot, Restore, GuestWrite, vars
      <3>5. SoundParent(v, known[v]) /\ (known[v] # NoName => HasMemory(known[v]))
        BY <3>1, <3>3, <3>4 DEF OwnerSound, WriteOnce
      <3>6. PICK n \in Names \union {NoName} : n = known[v]
        BY <2>0
      <3>7. SoundParent(v, n)'
        BY <1>1, <1>2, <1>3, <2>4, <3>5, <3>6
      <3> QED BY <3>1, <3>6, <3>7 DEF SoundParent
    <2> QED BY <2>1, <2>2, <2>3, <2>4
  <1>4. ASSUME NEW v \in Vms, ~Step(v), ~Fail(v), job'[v].pc \in {"release", "record_late"}
        PROVE  (SoundParent(v, job[v].target))'
    <2>1. job'[v] = job[v] /\ job[v].target \in Names /\ st[v] = "up"
      BY <1>0, <1>4, OwnerRests DEF TypeInv, JobType, Jobs, LockInv
    <2>2. ~Boot(v) /\ ~Reboot(v) /\ ~ \E n \in Names : Restore(v, n)
      BY <1>4, <2>1 DEF Boot, Reboot, Restore
    <2>3. SoundParent(v, job[v].target) /\ HasMemory(job[v].target)
      BY <1>4, <2>1 DEF OwnerSound, WriteOnce
    <2>4. PICK n \in Names : n = job[v].target
      BY <2>1
    <2>5. SoundParent(v, n)'
      BY <1>1, <1>2, <1>4, <2>2, <2>3, <2>4
    <2> QED BY <2>1, <2>4, <2>5 DEF SoundParent
  <1>5. ASSUME NEW v \in Vms, Step(v) \/ Fail(v)
        PROVE  /\ (Waits(v) => SoundParent(v, known[v]))'
               /\ job'[v].pc \in {"release", "record_late"} => (SoundParent(v, job[v].target))'
    <2>0. /\ UNCHANGED <<st, mem>> /\ st[v] = "up" /\ job[v].vm = v /\ ~job[v].diskOnly
          /\ GoesOn(v) \/ GivesUp(v) \/ Records(v)
          /\ v \in Creators /\ v \notin Clis /\ job \in [Creators -> Jobs] /\ job[v] \in Jobs
          /\ job[v].target \in Names /\ known[v] \in Names \union {NoName}
      BY <1>0, <1>5, OwnerKinds DEF OwnersAlone, TypeInv, VmType, JobType, Jobs
    <2>1. CASE GivesUp(v)
      <3>1. ASSUME Waits(v)' PROVE known'[v] = NoName
        <4>1. due[v] = "pre" /\ known' = known
          BY <2>1, <3>1 DEF GivesUp, NextDue, TypeInv, VmType
        <4> QED BY <4>1 DEF RecordInv
      <3> QED BY <2>1, <3>1 DEF GivesUp, SoundParent, HasMemory
    <2>2. CASE Records(v)
      <3>1. known'[v] = job[v].target /\ job'[v].pc = "idle" /\ UNCHANGED <<dirty, snap>> /\ job[v].pc = "record_late"
        BY <2>2 DEF Records, TypeInv, VmType
      <3>2. SoundParent(v, job[v].target)
        BY <3>1 DEF OwnerSound
      <3> QED BY <2>0, <3>1, <3>2 DEF SoundParent, HasMemory, Base
    <2>3. CASE GoesOn(v)
      <3>0. UNCHANGED <<known, due>> /\ job'[v].target = job[v].target /\ job[v].pc # "idle" /\ job'[v].pc # "idle"
        BY <2>3 DEF GoesOn
      <3>1. CASE Release(v)
        <4>1. job[v].pc = "release" /\ job'[v].pc = "record_late" /\ UNCHANGED <<dirty, snap>>
          BY <2>0, <3>1, GotoEffect DEF Release
        <4>2. SoundParent(v, job[v].target)
          BY <4>1 DEF OwnerSound
        <4> QED BY <2>0, <3>0, <4>1, <4>2 DEF SoundParent, HasMemory, Base
      <3>2. CASE Stage(v) \/ Save(v) \/ MergeDiff(v) \/ Publish(v)
        <4>1. job'[v].pc \in {"save", "merge", "publish", "release"}
          <5>1. CASE Stage(v)
            BY <2>0, <5>1 DEF Stage, Jobs
          <5>2. CASE Save(v)
            BY <2>0, <5>2 DEF Save, Jobs
          <5>3. CASE MergeDiff(v)
            BY <2>0, <5>3 DEF MergeDiff, Jobs
          <5>4. CASE Publish(v)
            BY <2>0, <5>4, GotoEffect DEF Publish
          <5> QED BY <3>2, <5>1, <5>2, <5>3, <5>4
        <4>2. job'[v].vm = v /\ ~job'[v].diskOnly
          BY <2>0, <3>2, WorkSteps DEF Works
        <4>3. job'[v].pc = "release" => (SoundParent(v, job[v].target))'
          BY <2>0, <4>2 DEF CreateInv, CreateOK, SoundParent, Base
        <4> QED BY <4>1, <4>3
      <3>3. CASE acquire_snapshot_dir_lock(v) \/ acquire_vm_snapshot_lock(v) \/ CheckLineage(v)
        <4>1. job[v].pc \in {"lock", "vmlock", "check"} /\ UNCHANGED <<dirty, snap>>
          BY <3>3 DEF acquire_snapshot_dir_lock, acquire_vm_snapshot_lock, CheckLineage, vmVars
        <4>2. job'[v].pc \in {"lock", "vmlock", "check", "stage"}
          <5>1. CASE acquire_snapshot_dir_lock(v) \/ acquire_vm_snapshot_lock(v)
            BY <2>0, <5>1, GotoEffect DEF acquire_snapshot_dir_lock, acquire_vm_snapshot_lock
          <5>2. CASE Goto(v, FirstStep(v))
            BY <2>0, <5>2, GotoEffect DEF FirstStep
          <5>3. CASE job' = [job EXCEPT ![v].pc = "lock", ![v].parent = parent[job[v].vm],
                                        ![v].retries = IF v \in Clis THEN @ + 1 ELSE @]
            BY <2>0, <5>3 DEF Jobs
          <5>4. CASE Return(v)
            BY <2>0, <3>0, <5>4, ReturnDrops, Values
          <5> QED BY <3>3, <5>1, <5>2, <5>3, <5>4 DEF CheckLineage
        <4>3. due[v] # "none" => SoundParent(v, known[v])
          BY <2>0, <4>1 DEF OwnerSound
        <4> QED BY <2>0, <3>0, <4>1, <4>2, <4>3 DEF SoundParent, HasMemory, Base
      <3>4. CASE keeps_installed_generation(v) \/ SaveRefused(v) \/ RecordLate(v) \/ Fail(v)
        <4>1. job'[v] = Idle
          BY <2>0, <3>4, ReturnDrops DEF keeps_installed_generation, SaveRefused, RecordLate, Fail
        <4> QED BY <3>0, <4>1, Values
      <3>5. ~ClearParent(v) /\ ~RecordAndRelease(v)
        BY <1>5 DEF RecordInv, ClearParent, RecordAndRelease
      <3> QED BY <1>5, <3>1, <3>2, <3>3, <3>4, <3>5 DEF Step
    <2> QED BY <2>0, <2>1, <2>2, <2>3
  <1>6. ASSUME NEW v \in Vms
        PROVE  /\ (Waits(v) => SoundParent(v, known[v]))'
               /\ job'[v].pc \in {"release", "record_late"} => (SoundParent(v, job[v].target))'
    BY <1>3, <1>4, <1>5, <1>6
  <1> QED BY <1>6 DEF OwnerSound

LEMMA OwnersAloneStep ==
    ASSUME OwnersAlone, TypeInv, TypeInv', OwnersAloneInv, [Next]_vars PROVE OwnersAloneInv'
  <1>0. LockInv /\ CreateInv /\ RecordInv /\ WriteOnce /\ OwnerSound /\ PublishedIsGuest /\ Creators = Vms
    BY OwnerNext DEF OwnersAloneInv
  <1>1. \A a \in Creators :
            job[a].pc = "check" /\ st[job[a].vm] = "up" /\ parent[job[a].vm] = job[a].parent /\ ~job[a].diskOnly
                => SoundParent(job[a].vm, job[a].parent)
    <2> SUFFICES ASSUME NEW a \in Vms, job[a].pc = "check" PROVE SoundParent(job[a].vm, job[a].parent)
      BY <1>0
    <2>1. job[a].vm = a /\ job[a].parent \in {known[a], NoName} /\ due[a] # "none" /\ st[a] = "up"
      BY <1>0 DEF LockInv, RecordInv
    <2>2. SoundParent(a, known[a])
      BY <1>0, <2>1 DEF OwnerSound
    <2>3. SoundParent(a, NoName)
      BY DEF SoundParent, HasMemory
    <2> QED BY <2>1, <2>2, <2>3
  <1>2. \A v \in Vms, b \in Creators : Reboot(v) /\ job[b].pc \in Locked => v # job[b].vm
    BY <1>0 DEF LockInv, Locked, Reboot
  <1>3. CreateInv'
    BY <1>0, <1>1, <1>2, CreateInvStep
  <1>4. RecordInv'
    BY <1>0, RecordInvStep
  <1>5. OwnerSound'
    BY <1>0, <1>3, <1>4, OwnerSoundStep
  <1> QED BY <1>0, <1>3, <1>4, <1>5, LockInvStep, WriteOnceStep, PublishedStep DEF OwnersAloneInv

LEMMA OwnersAloneInit == Init => OwnersAloneInv
  <1> SUFFICES ASSUME Init PROVE OwnersAloneInv
    OBVIOUS
  <1>1. LockInv /\ CreateInv /\ PublishedIsGuest
    BY CreatesAloneInit DEF CreatesAloneInv
  <1>2. \A v \in Vms : job[v].pc = "idle" /\ parent[v] = NoName /\ known[v] = NoName /\ due[v] = "none" /\ st[v] = "new"
    BY Values DEF Init, Creators
  <1>3. RecordInv /\ WriteOnce /\ OwnerSound
    BY <1>2 DEF RecordInv, WriteOnce, OwnerSound
  <1> QED BY <1>1, <1>3 DEF OwnersAloneInv

(* The pre-start and startup snapshots of any number of owners that share  *)
(* the cache's names, with restores, reboots, exits and failures, also     *)
(* publish exactly the memory their guest had: create_podman_snapshot      *)
(* takes its diff against the entry the VM's memory came from or was last  *)
(* saved as.  It records that entry only after it has given the locks      *)
(* back, so this holds only while no `snapshot create` runs beside it.     *)
THEOREM OwnersPublishGuest == ASSUME OwnersAlone PROVE Spec => []PublishedIsGuest
  <1>1. OwnersAloneInv => PublishedIsGuest
    BY DEF OwnersAloneInv
  <1>2. Init => OwnersAloneInv /\ TypeInv
    BY OwnersAloneInit, TypeInit
  <1>3. OwnersAloneInv /\ TypeInv /\ [Next]_vars => (OwnersAloneInv /\ TypeInv)'
    BY OwnersAloneStep, TypeStep
  <1> QED BY <1>1, <1>2, <1>3, PTL DEF Spec
=============================================================================
