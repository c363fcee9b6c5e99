--------------------------- MODULE ReclaimProofs ---------------------------
(***************************************************************************)
(* Proofs about Reclaim for any set of VMs, name bases and inodes, and any *)
(* number of failures, kills and reboots.                                  *)
(***************************************************************************)
EXTENDS Reclaim, TLAPS

-----------------------------------------------------------------------------
(* Types.                                                                  *)

(* pending.pop() takes an element of the set, the one recorded last. *)
LEMMA NewestIn ==
    ASSUME NEW S \in SUBSET Kinds, S # {}
    PROVE  Newest(S) \in S /\ \A j \in S : Rank[j] <= Rank[Newest(S)]
  <1>1. Rank["dir"] = 1 /\ Rank["nat"] = 2 /\ Rank["netns"] = 3 /\ Rank["link"] = 4
    BY DEF Rank
  <1>2. \E k \in S : \A j \in S : Rank[j] <= Rank[k]
    <2>1. CASE "link" \in S
      <3>1. \A j \in S : Rank[j] <= Rank["link"]
        BY <1>1 DEF Kinds
      <3> QED BY <2>1, <3>1
    <2>2. CASE "link" \notin S /\ "netns" \in S
      <3>1. \A j \in S : Rank[j] <= Rank["netns"]
        BY <1>1, <2>2 DEF Kinds
      <3> QED BY <2>2, <3>1
    <2>3. CASE "link" \notin S /\ "netns" \notin S /\ "nat" \in S
      <3>1. \A j \in S : Rank[j] <= Rank["nat"]
        BY <1>1, <2>3 DEF Kinds
      <3> QED BY <2>3, <3>1
    <2>4. CASE S = {"dir"}
      BY <1>1, <2>4
    <2> QED BY <2>1, <2>2, <2>3, <2>4 DEF Kinds
  <1> QED BY <1>2 DEF Newest

LEMMA TypeInit == Init => TypeOK
  <1> SUFFICES ASSUME Init PROVE TypeOK
    OBVIOUS
  <1>1. failures \in 0 .. MaxFailures /\ boot \in 0 .. failures
    BY ReclaimAssumption DEF Init
  <1>2. pc \in [Vms -> PCs] /\ cur \in [Vms -> Kinds \ {"dir"}] /\ rec \in [Vms -> Records]
    BY DEF Init, PCs, Gone, Kinds, Records
  <1> QED BY <1>1, <1>2 DEF Init, TypeOK

LEMMA PassType ==
    ASSUME TypeOK, NEW p \in Vms, StartPass(p) \/ Pass(p) PROVE TypeOK'
  <1> USE DEF TypeOK, PCs, Passing, Locking, Setup, Teardown, Undoing, Gone, Goto,
          passVars, lockVars, undoVars, netVars, files, kernel, help, env
  <1>1. CASE StartPass(p)
    BY <1>1 DEF StartPass
  <1>2. CASE VisitOwner(p)
    BY <1>2 DEF VisitOwner
  <1>3. CASE Begin(p)
    BY <1>3 DEF Begin
  <1>4. CASE OpenLock(p)
    BY <1>4 DEF OpenLock, FreeInodes
  <1>5. CASE TakeLock(p)
    <2>1. target[p] \in Vms /\ fd[p] \in Inodes \union {NoInode}
      OBVIOUS
    <2>2. locked' \in [Vms -> BOOLEAN]
      BY <1>5 DEF TakeLock
    <2>3. fd' \in [Vms -> Inodes \union {NoInode}]
      BY <1>5 DEF TakeLock
    <2>4. pc' \in [Vms -> PCs]
      BY <1>5 DEF TakeLock
    <2> QED BY <1>5, <2>2, <2>3, <2>4 DEF TakeLock
  <1>6. CASE SkipHeld(p)
    BY <1>6 DEF SkipHeld
  <1>7. CASE ReadRecord(p)
    <2>1. rec[target[p]] # NoRecord => rec[target[p]].res \in SUBSET Kinds
      BY DEF Records, Recorded
    <2>2. (rec[target[p]].boot = boot) \in BOOLEAN
      OBVIOUS
    <2>3. mem' \in [Vms -> SUBSET Kinds] /\ same' \in [Vms -> BOOLEAN]
      BY <1>7, <2>1, <2>2 DEF ReadRecord
    <2>4. pc' \in [Vms -> PCs]
      BY <1>7 DEF ReadRecord
    <2> QED BY <1>7, <2>3, <2>4 DEF ReadRecord
  <1> QED BY <1>1, <1>2, <1>3, <1>4, <1>5, <1>6, <1>7 DEF Pass

LEMMA UndoType ==
    ASSUME TypeOK, NEW p \in Vms, Undo(p) PROVE TypeOK'
  <1> USE ReclaimAssumption
      DEF TypeOK, passVars, lockVars, undoVars, netVars, files, kernel, help, env, Succeeds, Fails
  <1>r. \A i \in Vms, res \in SUBSET Kinds : WriteRecord(i, res) => rec' \in [Vms -> Records]
    BY DEF WriteRecord, Records, Recorded
  <1>n. \A S \in SUBSET Kinds : S # {} => Newest(S) \in Kinds
    BY NewestIn
  <1>1. CASE UndoDir(p)
    <2>1. mem' \in [Vms -> SUBSET Kinds]
      BY <1>1, <1>n DEF UndoDir, Kinds
    <2>2. kept' \in [Vms -> SUBSET Kinds]
      BY <1>1, <1>n DEF UndoDir, Kinds
    <2>3. dirs' \in SUBSET Vms
      BY <1>1 DEF UndoDir, Kinds
    <2>4. boot' \in 0 .. failures' /\ failures' \in 0 .. MaxFailures
      BY <1>1 DEF UndoDir, Kinds, env
    <2> QED BY <1>1, <2>1, <2>2, <2>3, <2>4 DEF UndoDir, Kinds
  <1>2. CASE UndoPasses(p)
    <2>1. mem' \in [Vms -> SUBSET Kinds]
      BY <1>2, <1>n DEF UndoPasses
    <2>2. kept' \in [Vms -> SUBSET Kinds]
      BY <1>2, <1>n DEF UndoPasses
    <2> QED BY <1>2, <2>1, <2>2 DEF UndoPasses
  <1>3. CASE UndoRetires(p)
    <2>1. pc' \in [Vms -> PCs]
      BY <1>3, <1>n DEF UndoRetires, KernelObject, Goto, PCs, Passing, Setup, Teardown, Undoing, Gone
    <2>2. mem' \in [Vms -> SUBSET Kinds]
      BY <1>3, <1>n DEF UndoRetires, KernelObject
    <2>3. kept' \in [Vms -> SUBSET Kinds]
      BY <1>3, <1>n DEF UndoRetires, KernelObject
    <2>4. hold' \in [Vms -> BOOLEAN]
      BY <1>3 DEF UndoRetires, KernelObject
    <2>5. cur' \in [Vms -> Kinds \ {"dir"}]
      BY <1>3, <1>n DEF UndoRetires, KernelObject
    <2>6. rec' \in [Vms -> Records]
      BY <1>3, <1>r, <1>n DEF UndoRetires, KernelObject
    <2>7. boot' \in 0 .. failures' /\ failures' \in 0 .. MaxFailures
      BY <1>3 DEF UndoRetires, KernelObject, env
    <2> QED BY <1>3, <2>1, <2>2, <2>3, <2>4, <2>5, <2>6, <2>7 DEF UndoRetires, KernelObject
  <1>4. CASE UndoDelete(p)
    <2>1. pc' \in [Vms -> PCs]
      BY <1>4, <1>n DEF UndoDelete, DelLink, DelNetns, CheckNat, Goto, PCs, Passing, Setup, Teardown, Undoing, Gone
    <2>2. link' \in [Bases -> Vms \union {Nobody}]
      BY <1>4 DEF UndoDelete, DelLink, DelNetns, CheckNat
    <2>3. netns' \in [Bases -> Vms \union {Nobody}]
      BY <1>4 DEF UndoDelete, DelLink, DelNetns, CheckNat
    <2>4. natLock' \in Vms \union {Nobody}
      BY <1>4 DEF UndoDelete, DelLink, DelNetns, CheckNat
    <2>5. boot' \in 0 .. failures' /\ failures' \in 0 .. MaxFailures
      BY <1>4 DEF UndoDelete, DelLink, DelNetns, CheckNat, env
    <2> QED BY <1>4, <2>1, <2>2, <2>3, <2>4, <2>5 DEF UndoDelete, DelLink, DelNetns, CheckNat
  <1>5. CASE UndoNat(p)
    <2>1. pc' \in [Vms -> PCs]
      BY <1>5, <1>n DEF UndoNat, DeleteNat, Goto, PCs, Passing, Setup, Teardown, Undoing, Gone
    <2>2. nat' \in BOOLEAN
      BY <1>5 DEF UndoNat, DeleteNat
    <2>3. natLock' \in Vms \union {Nobody}
      BY <1>5 DEF UndoNat, DeleteNat
    <2> QED BY <1>5, <2>1, <2>2, <2>3 DEF UndoNat, DeleteNat
  <1>6. CASE UndoFails(p)
    <2>1. pc' \in [Vms -> PCs]
      BY <1>6, <1>n DEF UndoFails, Goto, PCs, Passing, Setup, Teardown, Undoing, Gone
    <2>2. kept' \in [Vms -> SUBSET Kinds]
      BY <1>6, <1>n DEF UndoFails
    <2>3. hold' \in [Vms -> BOOLEAN]
      BY <1>6 DEF UndoFails
    <2>4. boot' \in 0 .. failures' /\ failures' \in 0 .. MaxFailures
      BY <1>6 DEF UndoFails, env
    <2> QED BY <1>6, <2>1, <2>2, <2>3, <2>4 DEF UndoFails
  <1>7. CASE Rerecord(p)
    <2>1. pc' \in [Vms -> PCs]
      BY <1>7 DEF Rerecord, Goto, PCs, Passing, Setup, Teardown, Undoing, Gone
    <2>2. rec' \in [Vms -> Records]
      BY <1>7, <1>r DEF Rerecord
    <2>3. boot' \in 0 .. failures' /\ failures' \in 0 .. MaxFailures
      BY <1>7 DEF Rerecord, env
    <2> QED BY <1>7, <2>1, <2>2, <2>3 DEF Rerecord
  <1>8. CASE UndoEnd(p)
    <2>1. pc' \in [Vms -> PCs]
      BY <1>8, <1>n DEF UndoEnd, Release, Goto, PCs, Passing, Setup, Teardown, Undoing, Gone
    <2>2. rec' \in [Vms -> Records]
      BY <1>8, <1>r, <1>n DEF UndoEnd, Release
    <2>3. fd' \in [Vms -> Inodes \union {NoInode}]
      BY <1>8 DEF UndoEnd, Release
    <2>4. locked' \in [Vms -> BOOLEAN]
      BY <1>8 DEF UndoEnd, Release
    <2>5. kept' \in [Vms -> SUBSET Kinds]
      BY <1>8, <1>n DEF UndoEnd, Release
    <2>6. boot' \in 0 .. failures' /\ failures' \in 0 .. MaxFailures
      BY <1>8 DEF UndoEnd, Release, env
    <2> QED BY <1>8, <2>1, <2>2, <2>3, <2>4, <2>5, <2>6 DEF UndoEnd, Release
  <1>9. CASE DeleteRecord(p)
    <2>1. pc' \in [Vms -> PCs]
      BY <1>9 DEF DeleteRecord, Release, Goto, PCs, Passing, Setup, Teardown, Undoing, Gone
    <2>2. rec' \in [Vms -> Records]
      BY <1>9, <1>r DEF DeleteRecord, Records
    <2>3. fd' \in [Vms -> Inodes \union {NoInode}] /\ locked' \in [Vms -> BOOLEAN]
      BY <1>9 DEF DeleteRecord, Release
    <2>4. kept' \in [Vms -> SUBSET Kinds]
      BY <1>9 DEF DeleteRecord, Release
    <2>5. boot' \in 0 .. failures' /\ failures' \in 0 .. MaxFailures
      BY <1>9 DEF DeleteRecord, env
    <2> QED BY <1>9, <2>1, <2>2, <2>3, <2>4, <2>5 DEF DeleteRecord
  <1>10. CASE DeleteLock(p)
    <2>1. pc' \in [Vms -> PCs]
      BY <1>10 DEF DeleteLock, Release, Goto, PCs, Passing, Setup, Teardown, Undoing, Gone
    <2>2. lockfile' \in [Vms -> Inodes \union {NoInode}]
      BY <1>10 DEF DeleteLock, Release
    <2>3. fd' \in [Vms -> Inodes \union {NoInode}]
      BY <1>10 DEF DeleteLock, Release
    <2>4. locked' \in [Vms -> BOOLEAN]
      BY <1>10 DEF DeleteLock, Release
    <2>5. kept' \in [Vms -> SUBSET Kinds]
      BY <1>10 DEF DeleteLock, Release
    <2>6. boot' \in 0 .. failures' /\ failures' \in 0 .. MaxFailures
      BY <1>10 DEF DeleteLock, env
    <2> QED BY <1>10, <2>1, <2>2, <2>3, <2>4, <2>5, <2>6 DEF DeleteLock
  <1>11. CASE SkipUnreadable(p)
    <2>1. pc' \in [Vms -> PCs]
      BY <1>11 DEF SkipUnreadable, Release, Goto, PCs, Passing, Setup, Teardown, Undoing, Gone
    <2>2. fd' \in [Vms -> Inodes \union {NoInode}] /\ locked' \in [Vms -> BOOLEAN]
      BY <1>11 DEF SkipUnreadable, Release
    <2>3. kept' \in [Vms -> SUBSET Kinds]
      BY <1>11 DEF SkipUnreadable, Release
    <2>4. boot' \in 0 .. failures' /\ failures' \in 0 .. MaxFailures
      BY <1>11 DEF SkipUnreadable, env
    <2> QED BY <1>11, <2>1, <2>2, <2>3, <2>4 DEF SkipUnreadable
  <1> QED BY <1>1, <1>2, <1>3, <1>4, <1>5, <1>6, <1>7, <1>8, <1>9, <1>10, <1>11 DEF Undo

LEMMA SetUpType ==
    ASSUME TypeOK, NEW p \in Vms, SetUp(p) PROVE TypeOK'
  <1> USE ReclaimAssumption
      DEF TypeOK, passVars, lockVars, undoVars, netVars, files, kernel, help, env, Succeeds, Fails
  <1>r. \A i \in Vms, res \in SUBSET Kinds : WriteRecord(i, res) => rec' \in [Vms -> Records]
    BY DEF WriteRecord, Records, Recorded
  <1>1. CASE RecordDir(p)
    <2>1. pc' \in [Vms -> PCs]
      BY <1>1 DEF RecordDir, Record, Release, Kinds, Goto, PCs, Passing, Setup, Teardown, Undoing, Gone
    <2>2. mem' \in [Vms -> SUBSET Kinds]
      BY <1>1 DEF RecordDir, Record, Release, Kinds
    <2>3. rec' \in [Vms -> Records]
      BY <1>1, <1>r DEF RecordDir, Record, Release, Kinds
    <2>4. fd' \in [Vms -> Inodes \union {NoInode}]
      BY <1>1 DEF RecordDir, Record, Release, Kinds
    <2>5. locked' \in [Vms -> BOOLEAN]
      BY <1>1 DEF RecordDir, Record, Release, Kinds
    <2>6. kept' \in [Vms -> SUBSET Kinds]
      BY <1>1 DEF RecordDir, Record, Release, Kinds
    <2>7. boot' \in 0 .. failures' /\ failures' \in 0 .. MaxFailures
      BY <1>1 DEF RecordDir, Record, Release, Kinds, env
    <2> QED BY <1>1, <2>1, <2>2, <2>3, <2>4, <2>5, <2>6, <2>7 DEF RecordDir, Record, Release, Kinds
  <1>2. CASE MakeDir(p)
    <2>1. pc' \in [Vms -> PCs]
      BY <1>2 DEF MakeDir, Goto, PCs, Passing, Setup, Teardown, Undoing, Gone
    <2>2. dirs' \in SUBSET Vms
      BY <1>2 DEF MakeDir
    <2> QED BY <1>2, <2>1, <2>2 DEF MakeDir
  <1>3. CASE RecordNat(p)
    <2>1. pc' \in [Vms -> PCs]
      BY <1>3 DEF RecordNat, Record, Kinds, Goto, PCs, Passing, Setup, Teardown, Undoing, Gone
    <2>2. mem' \in [Vms -> SUBSET Kinds]
      BY <1>3 DEF RecordNat, Record, Kinds
    <2>3. rec' \in [Vms -> Records]
      BY <1>3, <1>r DEF RecordNat, Record, Kinds
    <2>4. subnetLock' \in Vms \union {Nobody}
      BY <1>3 DEF RecordNat, Record, Kinds
    <2>5. boot' \in 0 .. failures' /\ failures' \in 0 .. MaxFailures
      BY <1>3 DEF RecordNat, Record, Kinds, env
    <2> QED BY <1>3, <2>1, <2>2, <2>3, <2>4, <2>5 DEF RecordNat, Record, Kinds
  <1>4. CASE Reserve(p)
    <2>1. pc' \in [Vms -> PCs]
      BY <1>4 DEF Reserve, Goto, PCs, Passing, Setup, Teardown, Undoing, Gone
    <2>2. netns' \in [Bases -> Vms \union {Nobody}]
      BY <1>4 DEF Reserve
    <2>3. base' \in [Vms -> Bases \union {Nobody}]
      BY <1>4 DEF Reserve
    <2>4. handles' \in [Vms -> SUBSET {"netns", "link"}]
      BY <1>4 DEF Reserve
    <2>5. subnetLock' \in Vms \union {Nobody}
      BY <1>4 DEF Reserve
    <2> QED BY <1>4, <2>1, <2>2, <2>3, <2>4, <2>5 DEF Reserve
  <1>5. CASE RecordNetns(p)
    <2>1. pc' \in [Vms -> PCs]
      BY <1>5 DEF RecordNetns, RecordObject, Record, SetupFails, Kinds, Goto, PCs, Passing, Setup, Teardown, Undoing, Gone
    <2>2. mem' \in [Vms -> SUBSET Kinds]
      BY <1>5 DEF RecordNetns, RecordObject, Record, SetupFails, Kinds
    <2>3. rec' \in [Vms -> Records]
      BY <1>5, <1>r DEF RecordNetns, RecordObject, Record, SetupFails, Kinds
    <2>4. handles' \in [Vms -> SUBSET {"netns", "link"}]
      BY <1>5 DEF RecordNetns, RecordObject, Record, SetupFails, Kinds
    <2>5. repeat' \in [Vms -> {"no", "due", "done"}]
      BY <1>5 DEF RecordNetns, RecordObject, Record, SetupFails, Kinds
    <2>6. boot' \in 0 .. failures' /\ failures' \in 0 .. MaxFailures
      BY <1>5 DEF RecordNetns, RecordObject, Record, SetupFails, Kinds, env
    <2> QED BY <1>5, <2>1, <2>2, <2>3, <2>4, <2>5, <2>6 DEF RecordNetns, RecordObject, Record, SetupFails, Kinds
  <1>6. CASE RecordLink(p)
    <2>1. pc' \in [Vms -> PCs]
      BY <1>6 DEF RecordLink, RecordObject, Record, SetupFails, Kinds, Goto, PCs, Passing, Setup, Teardown, Undoing, Gone
    <2>2. mem' \in [Vms -> SUBSET Kinds]
      BY <1>6 DEF RecordLink, RecordObject, Record, SetupFails, Kinds
    <2>3. rec' \in [Vms -> Records]
      BY <1>6, <1>r DEF RecordLink, RecordObject, Record, SetupFails, Kinds
    <2>4. handles' \in [Vms -> SUBSET {"netns", "link"}]
      BY <1>6 DEF RecordLink, RecordObject, Record, SetupFails, Kinds
    <2>5. repeat' \in [Vms -> {"no", "due", "done"}]
      BY <1>6 DEF RecordLink, RecordObject, Record, SetupFails, Kinds
    <2>6. boot' \in 0 .. failures' /\ failures' \in 0 .. MaxFailures
      BY <1>6 DEF RecordLink, RecordObject, Record, SetupFails, Kinds, env
    <2> QED BY <1>6, <2>1, <2>2, <2>3, <2>4, <2>5, <2>6 DEF RecordLink, RecordObject, Record, SetupFails, Kinds
  <1>7. CASE CreateVeth(p)
    <2>1. pc' \in [Vms -> PCs]
      <3>1. Goto(p, "ensure_nat") \/ Goto(p, "forget_link")
        BY <1>7 DEF CreateVeth, SetupFails
      <3> QED BY <3>1 DEF Goto, PCs, Passing, Setup, Teardown, Undoing, Gone
    <2>2. link' \in [Bases -> Vms \union {Nobody}]
      <3>1. \A b : [link EXCEPT ![b] = p] \in [Bases -> Vms \union {Nobody}]
        OBVIOUS
      <3> QED BY <1>7, <3>1 DEF CreateVeth, SetupFails
    <2>3. handles' \in [Vms -> SUBSET {"netns", "link"}]
      <3>1. handles' = handles \/ handles' = [handles EXCEPT ![p] = {"netns", "link"}]
        BY <1>7 DEF CreateVeth
      <3> QED BY <3>1
    <2>4. repeat' \in [Vms -> {"no", "due", "done"}]
      BY <1>7 DEF CreateVeth, SetupFails
    <2>5. subnetLock' \in Vms \union {Nobody}
      BY <1>7 DEF CreateVeth, SetupFails
    <2>6. boot' \in 0 .. failures' /\ failures' \in 0 .. MaxFailures
      BY <1>7 DEF CreateVeth, SetupFails, env
    <2> QED BY <1>7, <2>1, <2>2, <2>3, <2>4, <2>5, <2>6 DEF CreateVeth, SetupFails
  <1>8. CASE EnsureNat(p)
    <2>1. pc' \in [Vms -> PCs]
      BY <1>8 DEF EnsureNat, SetupFails, Goto, PCs, Passing, Setup, Teardown, Undoing, Gone
    <2>2. nat' \in BOOLEAN
      BY <1>8 DEF EnsureNat, SetupFails
    <2>3. repeat' \in [Vms -> {"no", "due", "done"}]
      BY <1>8 DEF EnsureNat, SetupFails
    <2>4. boot' \in 0 .. failures' /\ failures' \in 0 .. MaxFailures
      BY <1>8 DEF EnsureNat, SetupFails, env
    <2> QED BY <1>8, <2>1, <2>2, <2>3, <2>4 DEF EnsureNat, SetupFails
  <1>9. CASE StartHelper(p)
    <2>1. pc' \in [Vms -> PCs]
      BY <1>9 DEF StartHelper, Goto, PCs, Passing, Setup, Teardown, Undoing, Gone
    <2> QED BY <1>9, <2>1 DEF StartHelper
  <1>10. CASE Run(p)
    <2>1. pc' \in [Vms -> PCs]
      BY <1>10 DEF Run, Goto, PCs, Passing, Setup, Teardown, Undoing, Gone
    <2> QED BY <1>10, <2>1 DEF Run
  <1> QED BY <1>1, <1>2, <1>3, <1>4, <1>5, <1>6, <1>7, <1>8, <1>9, <1>10 DEF SetUp

LEMMA TearDownType ==
    ASSUME TypeOK, NEW p \in Vms, TearDown(p) \/ Stop(p) \/ HelperExits(p) PROVE TypeOK'
  <1> USE ReclaimAssumption
      DEF TypeOK, passVars, lockVars, undoVars, netVars, files, kernel, help, env, Succeeds, Fails
  <1>r. \A i \in Vms, res \in SUBSET Kinds : WriteRecord(i, res) => rec' \in [Vms -> Records]
    BY DEF WriteRecord, Records, Recorded
  <1>1. CASE ForgetLink(p)
    <2>1. pc' \in [Vms -> PCs]
      BY <1>1 DEF ForgetLink, Forget, Goto, PCs, Passing, Setup, Teardown, Undoing, Gone
    <2>2. mem' \in [Vms -> SUBSET Kinds]
      BY <1>1 DEF ForgetLink, Forget
    <2>3. rec' \in [Vms -> Records]
      BY <1>1, <1>r DEF ForgetLink, Forget
    <2>4. boot' \in 0 .. failures' /\ failures' \in 0 .. MaxFailures
      BY <1>1 DEF ForgetLink, Forget, env
    <2> QED BY <1>1, <2>1, <2>2, <2>3, <2>4 DEF ForgetLink, Forget
  <1>2. CASE DeleteVeth(p)
    <2>1. pc' \in [Vms -> PCs]
      BY <1>2 DEF DeleteVeth, DelLink, Goto, PCs, Passing, Setup, Teardown, Undoing, Gone
    <2>2. link' \in [Bases -> Vms \union {Nobody}]
      BY <1>2 DEF DeleteVeth, DelLink
    <2>3. netns' \in [Bases -> Vms \union {Nobody}]
      BY <1>2 DEF DeleteVeth, DelLink
    <2>4. boot' \in 0 .. failures' /\ failures' \in 0 .. MaxFailures
      BY <1>2 DEF DeleteVeth, DelLink, env
    <2> QED BY <1>2, <2>1, <2>2, <2>3, <2>4 DEF DeleteVeth, DelLink
  <1>3. CASE ForgetNetns(p)
    <2>1. pc' \in [Vms -> PCs]
      BY <1>3 DEF ForgetNetns, Forget, Goto, PCs, Passing, Setup, Teardown, Undoing, Gone
    <2>2. mem' \in [Vms -> SUBSET Kinds]
      BY <1>3 DEF ForgetNetns, Forget
    <2>3. rec' \in [Vms -> Records]
      BY <1>3, <1>r DEF ForgetNetns, Forget
    <2>4. boot' \in 0 .. failures' /\ failures' \in 0 .. MaxFailures
      BY <1>3 DEF ForgetNetns, Forget, env
    <2> QED BY <1>3, <2>1, <2>2, <2>3, <2>4 DEF ForgetNetns, Forget
  <1>4. CASE DeleteNetns(p)
    <2>1. pc' \in [Vms -> PCs]
      BY <1>4 DEF DeleteNetns, DelNetns, Goto, PCs, Passing, Setup, Teardown, Undoing, Gone
    <2>2. link' \in [Bases -> Vms \union {Nobody}]
      BY <1>4 DEF DeleteNetns, DelNetns
    <2>3. netns' \in [Bases -> Vms \union {Nobody}]
      BY <1>4 DEF DeleteNetns, DelNetns
    <2>4. boot' \in 0 .. failures' /\ failures' \in 0 .. MaxFailures
      BY <1>4 DEF DeleteNetns, DelNetns, env
    <2> QED BY <1>4, <2>1, <2>2, <2>3, <2>4 DEF DeleteNetns, DelNetns
  <1>5. CASE TeardownCheckNat(p)
    <2>1. pc' \in [Vms -> PCs]
      BY <1>5 DEF TeardownCheckNat, CheckNat, Goto, PCs, Passing, Setup, Teardown, Undoing, Gone
    <2>2. natLock' \in Vms \union {Nobody}
      BY <1>5 DEF TeardownCheckNat, CheckNat
    <2>3. boot' \in 0 .. failures' /\ failures' \in 0 .. MaxFailures
      BY <1>5 DEF TeardownCheckNat, CheckNat, env
    <2> QED BY <1>5, <2>1, <2>2, <2>3 DEF TeardownCheckNat, CheckNat
  <1>6. CASE TeardownDeleteNat(p)
    <2>1. pc' \in [Vms -> PCs]
      BY <1>6 DEF TeardownDeleteNat, DeleteNat, Goto, PCs, Passing, Setup, Teardown, Undoing, Gone
    <2>2. nat' \in BOOLEAN
      BY <1>6 DEF TeardownDeleteNat, DeleteNat
    <2>3. natLock' \in Vms \union {Nobody}
      BY <1>6 DEF TeardownDeleteNat, DeleteNat
    <2>4. boot' \in 0 .. failures' /\ failures' \in 0 .. MaxFailures
      BY <1>6 DEF TeardownDeleteNat, DeleteNat, env
    <2> QED BY <1>6, <2>1, <2>2, <2>3, <2>4 DEF TeardownDeleteNat, DeleteNat
  <1>7. CASE ForgetNat(p)
    <2>1. pc' \in [Vms -> PCs]
      BY <1>7 DEF ForgetNat, Forget, Goto, PCs, Passing, Setup, Teardown, Undoing, Gone
    <2>2. mem' \in [Vms -> SUBSET Kinds]
      BY <1>7 DEF ForgetNat, Forget
    <2>3. rec' \in [Vms -> Records]
      BY <1>7, <1>r DEF ForgetNat, Forget
    <2>4. boot' \in 0 .. failures' /\ failures' \in 0 .. MaxFailures
      BY <1>7 DEF ForgetNat, Forget, env
    <2> QED BY <1>7, <2>1, <2>2, <2>3, <2>4 DEF ForgetNat, Forget
  <1>8. CASE CleanupReturns(p)
    <2>1. pc' \in [Vms -> PCs]
      BY <1>8 DEF CleanupReturns, Goto, PCs, Passing, Setup, Teardown, Undoing, Gone
    <2>2. repeat' \in [Vms -> {"no", "due", "done"}]
      BY <1>8 DEF CleanupReturns
    <2>3. subnetLock' \in Vms \union {Nobody}
      BY <1>8 DEF CleanupReturns
    <2> QED BY <1>8, <2>1, <2>2, <2>3 DEF CleanupReturns
  <1>9. CASE RemoveDir(p)
    <2>1. pc' \in [Vms -> PCs]
      BY <1>9 DEF RemoveDir, Goto, PCs, Passing, Setup, Teardown, Undoing, Gone
    <2>2. dirs' \in SUBSET Vms
      BY <1>9 DEF RemoveDir
    <2>3. kept' \in [Vms -> SUBSET Kinds]
      BY <1>9 DEF RemoveDir
    <2>4. hold' \in [Vms -> BOOLEAN]
      BY <1>9 DEF RemoveDir
    <2>5. same' \in [Vms -> BOOLEAN]
      BY <1>9 DEF RemoveDir
    <2>6. boot' \in 0 .. failures' /\ failures' \in 0 .. MaxFailures
      BY <1>9 DEF RemoveDir, env
    <2> QED BY <1>9, <2>1, <2>2, <2>3, <2>4, <2>5, <2>6 DEF RemoveDir
  <1>10. CASE Stop(p)
    <2>1. pc' \in [Vms -> PCs]
      BY <1>10 DEF Stop, Goto, PCs, Passing, Setup, Teardown, Undoing, Gone
    <2> QED BY <1>10, <2>1 DEF Stop
  <1>11. CASE HelperExits(p)
    <2>1. pc' \in [Vms -> PCs]
      BY <1>11 DEF HelperExits, Goto, PCs, Passing, Setup, Teardown, Undoing, Gone
    <2> QED BY <1>11, <2>1 DEF HelperExits
  <1> QED BY <1>1, <1>2, <1>3, <1>4, <1>5, <1>6, <1>7, <1>8, <1>9, <1>10, <1>11 DEF TearDown

LEMMA KillType ==
    ASSUME TypeOK, NEW p \in Vms, Kill(p) PROVE TypeOK'
  <1>1. pc' \in [Vms -> PCs]
    BY DEF Kill, Goto, TypeOK, PCs, Gone
  <1>2. boot' \in 0 .. failures' /\ failures' \in 0 .. MaxFailures
    BY ReclaimAssumption DEF Kill, Fails, TypeOK
  <1> QED BY <1>1, <1>2 DEF Kill, TypeOK, netVars, files, help

LEMMA RebootType ==
    ASSUME TypeOK, Reboot PROVE TypeOK'
  <1>1. pc' \in [Vms -> PCs]
    BY DEF Reboot, TypeOK, PCs, Gone
  <1>2. boot' \in 0 .. failures' /\ failures' \in 0 .. MaxFailures
    BY ReclaimAssumption DEF Reboot, Fails, TypeOK
  <1> QED BY <1>1, <1>2 DEF Reboot, TypeOK, netVars, files

LEMMA TypeStep == TypeOK /\ [Next]_vars => TypeOK'
  <1> SUFFICES ASSUME TypeOK, [Next]_vars PROVE TypeOK'
    OBVIOUS
  <1>1. CASE UNCHANGED vars
    BY <1>1 DEF vars, local, passVars, lockVars, undoVars, netVars, files, kernel, help, env, TypeOK
  <1>2. ASSUME NEW p \in Vms, StartPass(p) \/ Step(p) \/ Stop(p) \/ Kill(p) PROVE TypeOK'
    BY <1>2, PassType, UndoType, SetUpType, TearDownType, KillType DEF Step
  <1> QED BY <1>1, <1>2, RebootType DEF Next

(* Type correctness of the owner records, the passes and the network.      *)
THEOREM ReclaimTypes == Spec => []TypeOK
  BY TypeInit, TypeStep, PTL DEF Spec

-----------------------------------------------------------------------------
(* The owner lock.  OneActor speaks of the processes that hold the flock;  *)
(* LockInv adds at which steps a process holds it, that it holds it on the *)
(* inode at the name, and that a helper which inherited it still does      *)
(* although its owner may be dead.                                         *)

Own == Setup \union {"running"} \union Teardown     \* steps for the launch's own id
Acts == Own \union Undoing                          \* steps made with the flock

DescriptorInv ==
    \A p \in Vms :
        /\ locked[p] <=> pc[p] \in Acts
        /\ fd[p] # NoInode <=> locked[p] \/ pc[p] = "flock"
        /\ pc[p] \in Own => target[p] = p

HelperInv ==
    \A i \in helpers :
        /\ pc[i] \in {"helping", "dead"}
        /\ lockfile[i] # NoInode /\ helperFd[i] = lockfile[i]

LockInv == DescriptorInv /\ HelperInv /\ OneActor

LEMMA LockInit == Init => LockInv
  BY DEF Init, LockInv, DescriptorInv, HelperInv, OneActor, Acting, Acts, Own, Setup, Teardown,
         Undoing

(* An actor's step that leaves the lock alone: it goes on acting, and for its own
   id only if it did before. *)
Inner(p) ==
    /\ pc[p] \in Acts \ {"helping"}
    /\ \E s \in Acts : pc' = [pc EXCEPT ![p] = s] /\ (s \in Own => pc[p] \in Own)
    /\ UNCHANGED <<target, fd, locked, lockfile, helpers, helperFd>>

LEMMA InnerSteps ==
    ASSUME TypeOK, NEW p \in Vms,
           \/ UndoDir(p) \/ UndoPasses(p) \/ UndoRetires(p) \/ UndoDelete(p) \/ UndoNat(p)
           \/ UndoFails(p) \/ Rerecord(p) \/ ReadRecord(p)
           \/ MakeDir(p) \/ RecordNat(p) \/ Reserve(p) \/ RecordNetns(p) \/ RecordLink(p)
           \/ CreateVeth(p) \/ EnsureNat(p) \/ Run(p) \/ TearDown(p) \/ Stop(p)
    PROVE  Inner(p)
  <1> USE DEF Inner, Acts, Own, Setup, Teardown, Undoing, Goto, passVars, lockVars, files, help
  <1>0. pc = [pc EXCEPT ![p] = pc[p]]
    BY DEF TypeOK
  <1>1. CASE UndoDir(p) \/ UndoPasses(p)
    BY <1>0, <1>1 DEF UndoDir, UndoPasses
  <1>2. CASE UndoRetires(p)
    BY <1>0, <1>2 DEF UndoRetires
  <1>3. CASE UndoDelete(p)
    BY <1>3 DEF UndoDelete, DelLink, DelNetns, CheckNat
  <1>4. CASE UndoNat(p)
    BY <1>4 DEF UndoNat, DeleteNat
  <1>5. CASE UndoFails(p)
    BY <1>5 DEF UndoFails
  <1>6. CASE Rerecord(p)
    BY <1>6 DEF Rerecord
  <1>8. CASE ReadRecord(p)
    BY <1>8 DEF ReadRecord
  <1>9. CASE MakeDir(p)
    BY <1>9 DEF MakeDir
  <1>10. CASE RecordNat(p)
    BY <1>10 DEF RecordNat
  <1>11. CASE Reserve(p)
    BY <1>11 DEF Reserve
  <1>12. CASE RecordNetns(p)
    BY <1>12 DEF RecordNetns, RecordObject, SetupFails
  <1>13. CASE RecordLink(p)
    BY <1>13 DEF RecordLink, RecordObject, SetupFails
  <1>14. CASE CreateVeth(p)
    BY <1>14 DEF CreateVeth, SetupFails
  <1>15. CASE EnsureNat(p)
    BY <1>15 DEF EnsureNat, SetupFails
  <1>16. CASE Run(p)
    BY <1>16 DEF Run
  <1>17. CASE Stop(p)
    BY <1>17 DEF Stop
  <1>18. CASE ForgetLink(p)
    BY <1>18 DEF ForgetLink
  <1>19. CASE DeleteVeth(p)
    BY <1>19 DEF DeleteVeth
  <1>20. CASE ForgetNetns(p)
    BY <1>20 DEF ForgetNetns
  <1>21. CASE DeleteNetns(p)
    BY <1>21 DEF DeleteNetns
  <1>22. CASE TeardownCheckNat(p)
    BY <1>22 DEF TeardownCheckNat, CheckNat
  <1>23. CASE TeardownDeleteNat(p)
    BY <1>23 DEF TeardownDeleteNat, DeleteNat
  <1>24. CASE ForgetNat(p)
    BY <1>24 DEF ForgetNat
  <1>25. CASE CleanupReturns(p)
    BY <1>25 DEF CleanupReturns
  <1>26. CASE RemoveDir(p)
    BY <1>26 DEF RemoveDir
  <1> QED BY <1>1, <1>2, <1>3, <1>4, <1>5, <1>6, <1>8, <1>9, <1>10, <1>11, <1>12, <1>13, <1>14, <1>15, <1>16, <1>17, <1>18, <1>19, <1>20, <1>21, <1>22, <1>23, <1>24, <1>25, <1>26 DEF TearDown

LEMMA InnerLock ==
    ASSUME TypeOK, LockInv, NEW p \in Vms, Inner(p) PROVE LockInv'
  <1>1. PICK s \in Acts : pc' = [pc EXCEPT ![p] = s] /\ (s \in Own => pc[p] \in Own)
    BY DEF Inner
  <1>2. s # "flock" /\ s # "dead" /\ pc[p] # "flock"
    BY DEF Inner, Acts, Own, Setup, Teardown, Undoing
  <1>3. p \notin helpers
    BY DEF Inner, LockInv, HelperInv, Acts, Own, Setup, Teardown, Undoing
  <1>4. DescriptorInv'
    BY <1>1, <1>2 DEF Inner, LockInv, DescriptorInv, TypeOK
  <1>5. HelperInv'
    BY <1>1, <1>3 DEF Inner, LockInv, HelperInv, TypeOK
  <1>6. OneActor'
    BY DEF Inner, LockInv, OneActor, Acting
  <1> QED BY <1>4, <1>5, <1>6 DEF LockInv

(* Closing the descriptor ends the acting. *)
LEMMA ReleaseLock ==
    ASSUME TypeOK, LockInv, NEW p \in Vms, pc[p] \in Acts \ {"helping"}, Release(p),
           UNCHANGED <<target, lockfile, helpers, helperFd>>
    PROVE  LockInv'
  <1>1. p \notin helpers
    BY DEF LockInv, HelperInv, Acts, Own, Setup, Teardown, Undoing
  <1>2. DescriptorInv'
    BY DEF Release, Goto, LockInv, DescriptorInv, TypeOK, Acts, Own, Setup, Teardown, Undoing
  <1>3. HelperInv'
    BY <1>1 DEF Release, Goto, LockInv, HelperInv, TypeOK
  <1>4. OneActor'
    BY DEF Release, LockInv, OneActor, Acting, TypeOK
  <1> QED BY <1>2, <1>3, <1>4 DEF LockInv

LEMMA PassLock ==
    ASSUME TypeOK, LockInv, NEW p \in Vms,
           StartPass(p) \/ VisitOwner(p) \/ Begin(p) \/ OpenLock(p) \/ TakeLock(p) \/ SkipHeld(p)
    PROVE  LockInv'
  <1> USE DEF LockInv, TypeOK, Goto, passVars, lockVars, files, help
  <1>a. /\ "idle" \notin Acts /\ "pass" \notin Acts /\ "open" \notin Acts /\ "flock" \notin Acts
        /\ "done" \notin Acts /\ "record_dir" \in Acts /\ "read" \in Acts /\ "read" \notin Own
        /\ Own \subseteq Acts
    BY DEF Acts, Own, Setup, Teardown, Undoing
  <1>b. pc[p] \in {"idle", "pass", "open", "flock"} /\ ~ locked[p] /\ p \notin helpers
    BY <1>a DEF StartPass, VisitOwner, Begin, OpenLock, TakeLock, SkipHeld, DescriptorInv, HelperInv
  <1>1. CASE StartPass(p) \/ VisitOwner(p) \/ Begin(p)
    <2>1. PICK s \in {"pass", "open"} : pc' = [pc EXCEPT ![p] = s]
      BY <1>1 DEF StartPass, VisitOwner, Begin
    <2>2. /\ UNCHANGED <<fd, locked, lockfile, helpers, helperFd>>
          /\ pc[p] # "flock" /\ \A q \in Vms \ {p} : target'[q] = target[q]
      BY <1>1 DEF StartPass, VisitOwner, Begin
    <2>3. DescriptorInv'
      BY <1>a, <1>b, <2>1, <2>2 DEF DescriptorInv
    <2>4. HelperInv'
      BY <1>b, <2>1, <2>2 DEF HelperInv
    <2>5. \A q, i \in Vms : Acting(q, i)' => Acting(q, i)
      BY <1>b, <2>2 DEF Acting
    <2>6. ASSUME NEW i \in Vms
          PROVE  /\ \A q \in Vms : Acting(q, i)' => lockfile'[i] = fd'[q]
                 /\ \A q, r \in Vms : Acting(q, i)' /\ Acting(r, i)' => q = r
                 /\ i \in helpers' => \A q \in Vms \ {i} : ~ Acting(q, i)'
      BY ONLY <2>2, <2>5, <2>6, OneActor DEF OneActor
    <2>7. OneActor'
      BY <2>6 DEF OneActor
    <2> QED BY <2>3, <2>4, <2>7
  <1>2. CASE OpenLock(p)
    <2> DEFINE i == target[p]
               n == fd'[p]
    <2>1. /\ n \in Inodes /\ lockfile' = [lockfile EXCEPT ![i] = n] /\ fd' = [fd EXCEPT ![p] = n]
          /\ (lockfile[i] # NoInode => n = lockfile[i])
      BY <1>2 DEF OpenLock, FreeInodes
    <2>2. lockfile[i] = NoInode => i \notin helpers /\ \A q \in Vms : ~ Acting(q, i)
      BY DEF HelperInv, OneActor, Acting, DescriptorInv
    <2>3. n # NoInode /\ pc' = [pc EXCEPT ![p] = "flock"] /\ UNCHANGED <<target, locked, helpers, helperFd>>
      BY <1>2, <2>1, ReclaimAssumption DEF OpenLock
    <2>4. DescriptorInv'
      BY <1>a, <1>b, <2>1, <2>3 DEF DescriptorInv
    <2>5. HelperInv'
      BY <1>b, <2>1, <2>2, <2>3 DEF HelperInv
    <2>6. OneActor'
      BY <1>b, <2>1, <2>2, <2>3 DEF OneActor, Acting
    <2> QED BY <2>4, <2>5, <2>6
  <1>3. CASE TakeLock(p)
    <2> DEFINE i == target[p]
               g == lockfile[i] = fd[p] /\ (i = p => rec[p] = NoRecord)
    <2>1. fd[p] # NoInode
      BY <1>3 DEF TakeLock, DescriptorInv
    <2>2. lockfile[i] = fd[p] => i \notin helpers /\ \A q \in Vms : ~ Acting(q, i)
      BY <1>3, <2>1 DEF TakeLock, Held, HoldsLock, HelperInv, OneActor, Acting
    <2>3. /\ UNCHANGED <<target, lockfile, helpers, helperFd>>
          /\ locked' = [locked EXCEPT ![p] = g]
          /\ fd' = [fd EXCEPT ![p] = IF g THEN @ ELSE NoInode]
      BY <1>3 DEF TakeLock
    <2>4. PICK s : /\ pc' = [pc EXCEPT ![p] = s]
                   /\ g => s = (IF i = p THEN "record_dir" ELSE "read")
                   /\ ~ g => s \in {"open", "done"}
      BY <1>3 DEF TakeLock
    <2>5. DescriptorInv'
      <3>0. g \in BOOLEAN /\ locked'[p] = g
        BY <2>3
      <3> HIDE DEF g
      <3>1. CASE g
        BY <1>a, <1>b, <2>1, <2>3, <2>4, <3>0, <3>1 DEF DescriptorInv
      <3>2. CASE ~ g
        <4>1. fd'[p] = NoInode /\ ~ locked'[p] /\ pc'[p] \in {"open", "done"}
          BY <2>3, <2>4, <3>0, <3>2
        <4> QED BY <1>a, <1>b, <2>1, <2>3, <2>4, <4>1 DEF DescriptorInv
      <3> QED BY <3>1, <3>2
    <2>6. HelperInv'
      BY <1>b, <2>3, <2>4 DEF HelperInv
    <2>7. OneActor'
      BY <1>b, <2>1, <2>2, <2>3 DEF OneActor, Acting
    <2> QED BY <2>5, <2>6, <2>7
  <1>4. CASE SkipHeld(p)
    <2>1. DescriptorInv'
      BY <1>4, <1>a, <1>b DEF SkipHeld, DescriptorInv
    <2>2. HelperInv' /\ OneActor'
      BY <1>4, <1>b DEF SkipHeld, HelperInv, OneActor, Acting
    <2> QED BY <2>1, <2>2
  <1> QED BY <1>1, <1>2, <1>3, <1>4

LEMMA HelperLock ==
    ASSUME TypeOK, LockInv, NEW p \in Vms, StartHelper(p) \/ HelperExits(p) PROVE LockInv'
  <1> USE DEF LockInv, DescriptorInv, HelperInv, OneActor, Acting, TypeOK, Goto, passVars,
          lockVars, files
  <1>a. {"build", "helping", "running"} \subseteq Own /\ Own \subseteq Acts
        /\ "flock" \notin Acts /\ "dead" \notin Acts
    BY DEF Acts, Own, Setup, Teardown, Undoing
  <1>1. CASE StartHelper(p)
    BY <1>1, <1>a DEF StartHelper
  <1>2. CASE HelperExits(p)
    BY <1>2, <1>a DEF HelperExits
  <1> QED BY <1>1, <1>2

LEMMA DeleteLockLock ==
    ASSUME TypeOK, LockInv, NEW p \in Vms, DeleteLock(p) PROVE LockInv'
  <1>1. pc[p] = "rm_lock" /\ pc[p] \in Acts /\ p \notin helpers
    BY DEF DeleteLock, LockInv, HelperInv, Acts, Own, Setup, Teardown, Undoing
  <1>2. target[p] \notin helpers /\ \A q \in Vms \ {p} : ~ Acting(q, target[p])
    BY <1>1 DEF LockInv, DescriptorInv, OneActor, Acting, TypeOK
  <1>3. DescriptorInv'
    BY DEF DeleteLock, Release, Goto, passVars, LockInv, DescriptorInv, TypeOK, Acts, Own, Setup, Teardown, Undoing
  <1>4. HelperInv'
    BY <1>1, <1>2 DEF DeleteLock, Release, Goto, help, LockInv, HelperInv, TypeOK
  <1>5. OneActor'
    BY <1>2 DEF DeleteLock, Release, passVars, help, LockInv, OneActor, Acting, TypeOK
  <1> QED BY <1>3, <1>4, <1>5 DEF LockInv

LEMMA EndLock ==
    ASSUME TypeOK, LockInv, (\E p \in Vms : Kill(p)) \/ Reboot PROVE LockInv'
  <1>1. CASE Reboot
    BY <1>1 DEF Reboot, LockInv, DescriptorInv, HelperInv, OneActor, Acting, TypeOK, Acts, Own, Setup,
                Teardown, Undoing, Gone
  <1>2. ASSUME NEW p \in Vms, Kill(p) PROVE LockInv'
    <2>1. DescriptorInv'
      BY <1>2 DEF Kill, Goto, LockInv, DescriptorInv, TypeOK, Acts, Own, Setup, Teardown, Undoing
    <2>2. HelperInv'
      BY <1>2 DEF Kill, Goto, help, files, LockInv, HelperInv, TypeOK
    <2>3. OneActor'
      BY <1>2 DEF Kill, help, files, LockInv, OneActor, Acting, TypeOK
    <2> QED BY <2>1, <2>2, <2>3 DEF LockInv
  <1> QED BY <1>1, <1>2

LEMMA LockStep == TypeOK /\ LockInv /\ [Next]_vars => LockInv'
  <1> SUFFICES ASSUME TypeOK, LockInv, [Next]_vars PROVE LockInv'
    OBVIOUS
  <1>1. CASE UNCHANGED vars
    BY <1>1 DEF vars, local, passVars, lockVars, files, help, LockInv, DescriptorInv, HelperInv,
                OneActor, Acting
  <1>2. ASSUME NEW p \in Vms, UndoEnd(p) \/ RecordDir(p) \/ DeleteRecord(p) \/ SkipUnreadable(p) PROVE LockInv'
    <2>1. pc[p] \in Acts \ {"helping"} /\ UNCHANGED <<target, lockfile, helpers, helperFd>>
      BY <1>2 DEF UndoEnd, RecordDir, DeleteRecord, SkipUnreadable, passVars, files, help, Acts, Own, Setup, Undoing
    <2>2. CASE Release(p)
      BY <2>1, <2>2, ReleaseLock
    <2>3. CASE ~ Release(p)
      <3>1. Inner(p)
        <4>1. CASE UndoEnd(p)
          BY <2>1, <2>3, <4>1 DEF UndoEnd, Goto, Inner, Acts, Own, Setup, Undoing, Teardown
        <4>2. CASE RecordDir(p)
          BY <2>1, <2>3, <4>2 DEF RecordDir, Goto, Inner, Acts, Own, Setup, Undoing, Teardown
        <4>3. CASE DeleteRecord(p)
          BY <2>1, <2>3, <4>3 DEF DeleteRecord, Goto, Inner, Acts, Own, Setup, Undoing, Teardown
        <4> QED BY <1>2, <2>3, <4>1, <4>2, <4>3 DEF SkipUnreadable
      <3> QED BY <3>1, InnerLock
    <2> QED BY <2>2, <2>3
  <1>3. ASSUME NEW p \in Vms, StartPass(p) \/ Step(p) \/ Stop(p) PROVE LockInv'
    BY <1>2, <1>3, PassLock, InnerSteps, InnerLock, HelperLock, DeleteLockLock
    DEF Step, Pass, Undo, SetUp
  <1> QED BY <1>1, <1>3, EndLock DEF Next

(* An owner has one actor at a time, and it holds the lock file at the     *)
(* name, although passes and owners keep unlinking and recreating the lock *)
(* files (lock_owner_file, Holder, delete_owner_files).                    *)
THEOREM OwnersHaveOneActor == Spec => []OneActor
  <1>1. Init => TypeOK /\ LockInv
    BY TypeInit, LockInit
  <1>2. TypeOK /\ LockInv /\ [Next]_vars => (TypeOK /\ LockInv)'
    BY TypeStep, LockStep
  <1>3. LockInv => OneActor
    BY DEF LockInv
  <1> QED BY <1>1, <1>2, <1>3, PTL DEF Spec

-----------------------------------------------------------------------------
(* Runtime directories: what the one actor of an owner has in hand is what *)
(* is recorded, and names the directory for as long as it is there.        *)

Undone == {"undo", "delete", "rerecord", "undo_nat"}
Built == {"record_nat", "reserve", "record_netns", "record_link", "veth", "ensure_nat",
          "build", "helping", "running"}

(* While a launch works for its own id the record is its `resources`.      *)
Mirrors(p) ==
    pc[p] \in Own \ {"record_dir"} =>
        rec[p] = [res |-> mem[p], boot |-> boot] /\ "dir" \in mem[p]

(* undo_all has the directory still to remove, or has kept it.             *)
UndoesDir(p) ==
    /\ pc[p] \in Undone /\ target[p] \in dirs => "dir" \in mem[p] \union kept[p]
    /\ pc[p] \in {"rm_record", "rm_lock"} => target[p] \notin dirs

ProcDir(p) == Mirrors(p) /\ UndoesDir(p) /\ (pc[p] \in Built => p \in dirs)

DirInv == (\A p \in Vms : ProcDir(p)) /\ DirsRecorded /\ HelperKeepsDir

LEMMA DirInit == Init => DirInv
  BY DEF Init, DirInv, ProcDir, Mirrors, UndoesDir, DirsRecorded, HelperKeepsDir, Own, Setup, Teardown,
         Undone, Built

(* A step of p changes its own locals, and the files of its target only when it
   acts for it. *)
Frame(p) ==
    /\ \A q \in Vms \ {p} : /\ pc'[q] = pc[q] /\ mem'[q] = mem[q]
                             /\ kept'[q] = kept[q] /\ target'[q] = target[q]
    /\ \A i \in Vms : i # target[p] \/ pc[p] \notin Acts =>
           rec'[i] = rec[i] /\ (i \in dirs' <=> i \in dirs)
    /\ boot' = boot

LEMMA PassFrame ==
    ASSUME TypeOK, NEW p \in Vms, StartPass(p) \/ Pass(p) PROVE Frame(p)
  BY DEF StartPass, Pass, VisitOwner, Begin, OpenLock, TakeLock, SkipHeld, ReadRecord, Frame, Goto,
         passVars, lockVars, undoVars, files, env, TypeOK

LEMMA UndoFrame ==
    ASSUME TypeOK, NEW p \in Vms, Undo(p) PROVE Frame(p) /\ pc[p] \in Acts \ {"helping"}
  <1> USE DEF Frame, Goto, WriteRecord, passVars, undoVars, files, env, TypeOK, Acts, Undoing, Own, Setup, Teardown
  <1>1. CASE UndoDir(p) \/ UndoPasses(p)
    BY <1>1 DEF UndoDir, UndoPasses
  <1>2. CASE UndoRetires(p)
    BY <1>2 DEF UndoRetires
  <1>3. CASE UndoDelete(p) \/ UndoNat(p)
    BY <1>3 DEF UndoDelete, UndoNat, CheckNat, DeleteNat
  <1>4. CASE UndoFails(p) \/ Rerecord(p)
    BY <1>4 DEF UndoFails, Rerecord
  <1>5. CASE UndoEnd(p)
    BY <1>5 DEF UndoEnd, Release
  <1>6. CASE DeleteRecord(p) \/ DeleteLock(p) \/ SkipUnreadable(p)
    BY <1>6 DEF DeleteRecord, DeleteLock, SkipUnreadable, Release
  <1> QED BY <1>1, <1>2, <1>3, <1>4, <1>5, <1>6 DEF Undo

(* The steps of a launch for its own id. *)
LEMMA OwnFrame ==
    ASSUME TypeOK, LockInv, NEW p \in Vms, SetUp(p) \/ TearDown(p) \/ Stop(p)
    PROVE  Frame(p) /\ pc[p] \in Own \ {"helping"} /\ target[p] = p /\ target' = target
  <1> USE DEF Frame, Goto, WriteRecord, Record, passVars, undoVars, files, env, TypeOK, Acts, Own, Setup,
          Teardown, LockInv, DescriptorInv
  <1>1. CASE RecordDir(p) \/ MakeDir(p) \/ RecordNat(p)
    BY <1>1 DEF RecordDir, MakeDir, RecordNat, Release
  <1>2. CASE Reserve(p) \/ CreateVeth(p) \/ EnsureNat(p) \/ StartHelper(p) \/ Run(p)
    BY <1>2 DEF Reserve, CreateVeth, EnsureNat, StartHelper, Run, SetupFails
  <1>3. CASE RecordNetns(p) \/ RecordLink(p)
    BY <1>3 DEF RecordNetns, RecordLink, RecordObject, SetupFails
  <1>4. CASE ForgetLink(p) \/ ForgetNetns(p) \/ ForgetNat(p)
    BY <1>4 DEF ForgetLink, ForgetNetns, ForgetNat, Forget
  <1>5. CASE DeleteVeth(p) \/ DeleteNetns(p) \/ TeardownCheckNat(p) \/ TeardownDeleteNat(p)
    BY <1>5 DEF DeleteVeth, DeleteNetns, TeardownCheckNat, TeardownDeleteNat, CheckNat, DeleteNat
  <1>6. CASE CleanupReturns(p) \/ RemoveDir(p) \/ Stop(p)
    BY <1>6 DEF CleanupReturns, RemoveDir, Stop
  <1> QED BY <1>1, <1>2, <1>3, <1>4, <1>5, <1>6 DEF SetUp, TearDown

(* Because an owner has one actor, it is enough to look at that actor. *)
LEMMA FrameDir ==
    ASSUME TypeOK, TypeOK', LockInv, DirInv, NEW p \in Vms, Frame(p), helpers' = helpers,
           pc[p] # "helping", ProcDir(p)',
           target[p] \in dirs' /\ pc[p] \in Acts =>
               rec'[target[p]] # NoRecord /\ "dir" \in rec'[target[p]].res
    PROVE  DirInv'
  <1>1. pc[p] \in Acts => target[p] \notin helpers
    BY DEF LockInv, DescriptorInv, HelperInv, OneActor, Acting, TypeOK, Acts, Own, Setup, Teardown, Undoing
  <1>2. HelperKeepsDir'
    BY <1>1 DEF DirInv, HelperKeepsDir, Frame, TypeOK
  <1>3. DirsRecorded'
    BY DEF DirInv, DirsRecorded, Frame, TypeOK
  <1>4. ASSUME NEW q \in Vms PROVE ProcDir(q)'
    <2>1. CASE q = p
      BY <2>1
    <2>2. CASE q # p
      <3>0. pc[q] \in Acts => target[q] \in Vms /\ (target[q] # target[p] \/ pc[p] \notin Acts)
        BY <2>2 DEF LockInv, DescriptorInv, OneActor, Acting, TypeOK
      <3>1. ASSUME pc[q] \in Acts
            PROVE  rec'[target[q]] = rec[target[q]] /\ (target[q] \in dirs' <=> target[q] \in dirs)
        BY <3>0, <3>1 DEF Frame
      <3>2. pc[q] \in Own => target[q] = q /\ pc[q] \in Acts
        BY DEF LockInv, DescriptorInv, Acts
      <3>3. Undone \union {"rm_record", "rm_lock"} \subseteq Acts /\ Built \subseteq Own
        BY DEF Undone, Built, Acts, Own, Undoing, Setup, Teardown
      <3>4. pc'[q] = pc[q] /\ mem'[q] = mem[q] /\ kept'[q] = kept[q] /\ target'[q] = target[q]
            /\ boot' = boot /\ ProcDir(q)
        BY <2>2 DEF Frame, DirInv
      <3>5. Mirrors(q)'
        <4>1. CASE pc[q] \in Own
          <5>1. rec'[q] = rec[q]
            BY <4>1, <3>1, <3>2
          <5> QED BY <5>1, <3>4 DEF ProcDir, Mirrors
        <4>2. CASE pc[q] \notin Own
          BY <4>2, <3>4 DEF Mirrors
        <4> QED BY <4>1, <4>2
      <3>6. UndoesDir(q)'
        <4>1. CASE pc[q] \in Acts
          <5>1. target[q] \in dirs' <=> target[q] \in dirs
            BY <4>1, <3>1
          <5> QED BY <5>1, <3>4 DEF ProcDir, UndoesDir
        <4>2. CASE pc[q] \notin Acts
          BY <4>2, <3>3, <3>4 DEF UndoesDir
        <4> QED BY <4>1, <4>2
      <3>7. (pc[q] \in Built => q \in dirs)'
        BY <3>1, <3>2, <3>3, <3>4 DEF ProcDir
      <3> QED BY <3>5, <3>6, <3>7 DEF ProcDir
    <2> QED BY <2>1, <2>2
  <1> QED BY <1>2, <1>3, <1>4 DEF DirInv

(* What remains to be shown of a step of p. *)
KeepsDir(p) ==
    /\ ProcDir(p)'
    /\ target[p] \in dirs' /\ pc[p] \in Acts =>
           rec'[target[p]] # NoRecord /\ "dir" \in rec'[target[p]].res

LEMMA WrittenRecord ==
    ASSUME NEW i \in Vms, NEW res \in SUBSET Kinds, TypeOK, WriteRecord(i, res)
    PROVE  rec'[i] = [res |-> res, boot |-> boot] /\ rec'[i] # NoRecord /\ rec'[i].res = res
  <1>1. rec'[i] = [res |-> res, boot |-> boot]
    BY DEF TypeOK, WriteRecord
  <1>2. rec'[i] \in Recorded
    BY <1>1 DEF TypeOK, Recorded
  <1> QED BY <1>1, <1>2, NoRecordAssumption

LEMMA PassKeepsDir ==
    ASSUME TypeOK, LockInv, DirInv, NEW p \in Vms, StartPass(p) \/ Pass(p)
    PROVE  KeepsDir(p)
  <1> USE DEF KeepsDir, ProcDir, Mirrors, UndoesDir, Goto, Own, Acts, Setup, Teardown, Undoing, Undone, Built,
          TypeOK
  <1>1. CASE StartPass(p) \/ VisitOwner(p) \/ Begin(p) \/ OpenLock(p) \/ SkipHeld(p)
    BY <1>1 DEF StartPass, VisitOwner, Begin, OpenLock, SkipHeld
  <1>2. CASE TakeLock(p)
    BY <1>2 DEF TakeLock
  <1>3. CASE ReadRecord(p)
    <2>1. target[p] \in dirs => rec[target[p]] # NoRecord /\ "dir" \in rec[target[p]].res
      BY DEF DirInv, DirsRecorded
    <2> QED BY <1>3, <2>1 DEF ReadRecord, passVars, files
  <1> QED BY <1>1, <1>2, <1>3 DEF Pass

LEMMA UndoKeepsDir ==
    ASSUME TypeOK, LockInv, DirInv, NEW p \in Vms, Undo(p) PROVE KeepsDir(p)
  <1> DEFINE i == target[p]
  <1>a. /\ ProcDir(p) /\ i \in Vms
        /\ i \in dirs => rec[i] # NoRecord /\ "dir" \in rec[i].res
    BY DEF DirInv, DirsRecorded, TypeOK
  <1>b. "dir" \in Kinds /\ mem[p] \in SUBSET Kinds /\ kept[p] \in SUBSET Kinds /\ cur[p] \in Kinds
    BY DEF TypeOK, Kinds
  <1>c. /\ Undone \intersect Own = {} /\ Undone \intersect Built = {} /\ Undone \subseteq Acts
        /\ \A s \in {"rm_record", "rm_lock", "pass", "done"} : s \notin Own \union Built \union Undone
        /\ {"undo", "delete", "rerecord", "undo_nat"} \subseteq Undone
        /\ \A s \in Undone \union {"pass", "done"} : s \notin {"rm_record", "rm_lock"}
    BY DEF Undone, Own, Built, Acts, Setup, Teardown, Undoing
  <1>d. ASSUME pc[p] \in Undone, i \in dirs PROVE "dir" \in mem[p] \union kept[p]
    BY <1>a, <1>d DEF ProcDir, UndoesDir
  <1>e. pc \in [Vms -> PCs] /\ mem \in [Vms -> SUBSET Kinds] /\ kept \in [Vms -> SUBSET Kinds]
    BY DEF TypeOK
  <1>1. CASE UndoDir(p) \/ UndoPasses(p)
    BY <1>a, <1>b, <1>c, <1>d, <1>e, <1>1
    DEF UndoDir, UndoPasses, KernelObject, passVars, files, KeepsDir, ProcDir, Mirrors, UndoesDir
  <1>2. CASE UndoRetires(p)
    <2> DEFINE k == Newest(mem[p])
    <2>1. k # "dir" /\ pc[p] = "undo" /\ UNCHANGED <<target, dirs>> /\ mem' = [mem EXCEPT ![p] = @ \ {k}]
      BY <1>2 DEF UndoRetires, KernelObject, passVars
    <2>2. CASE WriteRecord(i, (mem[p] \ {k}) \union kept[p]) /\ Goto(p, "delete") /\ UNCHANGED kept
      <3>1. rec'[i] # NoRecord /\ rec'[i].res = (mem[p] \ {k}) \union kept[p]
        <4> DEFINE r == (mem[p] \ {k}) \union kept[p]
        <4>1. r \in SUBSET Kinds
          BY <1>b
        <4>2. WriteRecord(i, r)
          BY <2>2
        <4> HIDE DEF r, i
        <4>3. i \in Vms
          BY <1>a
        <4>4. rec'[i] # NoRecord /\ rec'[i].res = r
          BY <4>1, <4>2, <4>3, WrittenRecord
        <4> QED BY <4>4 DEF r, i
      <3> QED BY <1>a, <1>b, <1>c, <1>d, <1>e, <2>1, <2>2, <3>1
          DEF Goto, KeepsDir, ProcDir, Mirrors, UndoesDir
    <2>3. CASE UNCHANGED <<pc, rec>> /\ kept' = [kept EXCEPT ![p] = @ \union {k}]
      BY <1>a, <1>b, <1>c, <1>d, <1>e, <2>1, <2>3 DEF KeepsDir, ProcDir, Mirrors, UndoesDir
    <2> QED BY <1>2, <2>2, <2>3 DEF UndoRetires
  <1>3. CASE UndoDelete(p) \/ UndoNat(p)
    <2>1. /\ pc[p] \in Undone /\ UNCHANGED <<target, dirs, rec, mem, kept>>
          /\ pc' = [pc EXCEPT ![p] = "undo"] \/ pc' = [pc EXCEPT ![p] = "undo_nat"]
      BY <1>c, <1>3 DEF UndoDelete, UndoNat, CheckNat, DeleteNat, Goto, passVars, undoVars, files
    <2> QED BY <1>a, <1>c, <1>d, <1>e, <2>1 DEF KeepsDir, ProcDir, Mirrors, UndoesDir
  <1>4. CASE UndoFails(p)
    BY <1>a, <1>b, <1>c, <1>d, <1>e, <1>4
    DEF UndoFails, Goto, passVars, files, KeepsDir, ProcDir, Mirrors, UndoesDir
  <1>5. CASE Rerecord(p)
    <2>1. rec'[i] = rec[i] \/ (rec'[i] # NoRecord /\ rec'[i].res = mem[p] \union kept[p])
      <3> DEFINE r == mem[p] \union kept[p]
      <3>1. r \in SUBSET Kinds /\ i \in Vms
        BY <1>a, <1>b
      <3>2. WriteRecord(i, r) \/ rec' = rec
        BY <1>5 DEF Rerecord
      <3> HIDE DEF r, i
      <3>3. rec'[i] = rec[i] \/ (rec'[i] # NoRecord /\ rec'[i].res = r)
        BY <3>1, <3>2, WrittenRecord
      <3> QED BY <3>3 DEF r, i
    <2> QED BY <1>a, <1>b, <1>c, <1>d, <1>e, <1>5, <2>1
        DEF Rerecord, Goto, passVars, undoVars, KeepsDir, ProcDir, Mirrors, UndoesDir
  <1>6. CASE UndoEnd(p)
    <2>1. rec'[i] = rec[i] \/ (rec'[i] # NoRecord /\ rec'[i].res = kept[p])
      BY <1>a, <1>b, <1>6, WrittenRecord DEF UndoEnd
    <2>2. i \in dirs => kept[p] # {} /\ "dir" \in kept[p]
      BY <1>c, <1>d, <1>6 DEF UndoEnd
    <2> QED BY <1>a, <1>b, <1>c, <1>e, <1>6, <2>1, <2>2
        DEF UndoEnd, Release, Goto, passVars, KeepsDir, ProcDir, Mirrors, UndoesDir
  <1>7. CASE DeleteRecord(p) \/ DeleteLock(p)
    <2>1. i \notin dirs' /\ target'[p] = i /\ pc'[p] \in {"rm_lock", "pass", "done"}
      BY <1>a, <1>e, <1>7 DEF DeleteRecord, DeleteLock, Release, Goto, passVars, ProcDir, UndoesDir
    <2> QED BY <1>c, <2>1 DEF KeepsDir, ProcDir, Mirrors, UndoesDir
  <1>8. CASE SkipUnreadable(p)
    <2>1. rec' = rec /\ dirs' = dirs /\ target'[p] = i /\ pc'[p] \in {"pass", "done"}
      BY <1>a, <1>e, <1>8 DEF SkipUnreadable, Release, Goto, passVars, files
    <2> QED BY <1>a, <1>b, <1>c, <1>e, <2>1 DEF KeepsDir, ProcDir, Mirrors, UndoesDir
  <1> QED BY <1>1, <1>2, <1>3, <1>4, <1>5, <1>6, <1>7, <1>8 DEF Undo

LEMMA OwnKeepsDir ==
    ASSUME TypeOK, LockInv, DirInv, NEW p \in Vms, SetUp(p) \/ TearDown(p) \/ Stop(p)
    PROVE  KeepsDir(p)
  <1>a. /\ ProcDir(p) /\ target[p] = p /\ target'[p] = p /\ boot' = boot
        /\ pc[p] \in Own \ {"helping"}
        /\ p \in dirs => rec[p] # NoRecord /\ "dir" \in rec[p].res
    BY OwnFrame DEF DirInv, DirsRecorded, Frame
  <1>b. "dir" \in Kinds /\ "nat" \in Kinds /\ mem[p] \in SUBSET Kinds
    BY DEF TypeOK, Kinds
  <1>e. pc \in [Vms -> PCs] /\ mem \in [Vms -> SUBSET Kinds] /\ rec \in [Vms -> Records]
    BY DEF TypeOK
  <1>1. CASE RecordDir(p)
    <2>1. CASE Record(p, "dir") /\ Goto(p, "mkdir")
      <3>1. mem'[p] = mem[p] \union {"dir"} /\ rec'[p] = [res |-> mem'[p], boot |-> boot]
            /\ rec'[p] # NoRecord /\ rec'[p].res = mem'[p]
        BY <1>b, <1>e, <2>1, WrittenRecord DEF Record
      <3>2. pc'[p] = "mkdir" /\ dirs' = dirs
        BY <1>e, <1>1, <2>1 DEF RecordDir, Goto
      <3> QED BY <1>a, <3>1, <3>2 DEF KeepsDir, ProcDir, Mirrors, UndoesDir, Undone, Built
    <2>2. CASE Release(p) /\ UNCHANGED rec
      <3>1. pc'[p] = "done" /\ UNCHANGED <<dirs, rec>>
        BY <1>a, <1>e, <1>1, <2>2 DEF RecordDir, Release, Goto
      <3> QED BY <1>a, <3>1
          DEF KeepsDir, ProcDir, Mirrors, UndoesDir, Undone, Built, Own, Setup, Teardown
    <2> QED BY <1>1, <2>1, <2>2 DEF RecordDir
  <1>2. CASE ~ RecordDir(p)
    <2>1. rec[p] = [res |-> mem[p], boot |-> boot] /\ "dir" \in mem[p] /\ pc[p] # "record_dir"
      <3>1. pc[p] # "record_dir"
        BY <1>2 DEF SetUp, TearDown, Stop, MakeDir, RecordNat, Reserve, RecordNetns, RecordLink, CreateVeth,
                    EnsureNat, StartHelper, Run, ForgetLink, DeleteVeth, ForgetNetns, DeleteNetns,
                    TeardownCheckNat, TeardownDeleteNat, ForgetNat, CleanupReturns, RemoveDir
      <3> QED BY <1>a, <3>1 DEF ProcDir, Mirrors
    <2>2. rec[p] # NoRecord /\ rec[p].res = mem[p]
      <3>1. rec[p] \in Recorded
        BY <2>1, <1>b DEF Recorded, TypeOK
      <3> QED BY <2>1, <3>1, NoRecordAssumption
    <2>3. /\ rec'[p] = [res |-> mem'[p], boot |-> boot] /\ "dir" \in mem'[p]
          /\ rec'[p] # NoRecord /\ rec'[p].res = mem'[p]
      <3>1. CASE UNCHANGED <<rec, mem>>
        BY <2>1, <2>2, <3>1
      <3>2. ASSUME NEW k \in Kinds, Record(p, k) PROVE <2>3!:
        BY <1>b, <1>e, <2>1, <3>2, WrittenRecord DEF Record
      <3>3. ASSUME NEW k \in Kinds \ {"dir"}, Forget(p, k) PROVE <2>3!:
        <4>1. mem'[p] = mem[p] \ {k} /\ "dir" \in mem'[p]
          BY <1>e, <2>1, <3>3 DEF Forget
        <4>2. CASE k \in mem[p]
          BY <1>b, <4>1, <4>2, <3>3, WrittenRecord DEF Forget
        <4>3. CASE k \notin mem[p]
          BY <4>1, <4>3, <3>3, <2>1, <2>2 DEF Forget
        <4> QED BY <4>2, <4>3
      <3>4. {"nat", "netns", "link"} \subseteq Kinds \ {"dir"}
        BY DEF Kinds
      <3>5. CASE SetUp(p) \/ Stop(p)
        <4>1. UNCHANGED <<rec, mem>> \/ \E k \in Kinds : Record(p, k)
          BY <1>2, <3>4, <3>5 DEF SetUp, Stop, MakeDir, RecordNat, Reserve, RecordNetns, RecordLink, RecordObject,
                    CreateVeth, EnsureNat, StartHelper, Run, files
        <4> QED BY <4>1, <3>1, <3>2
      <3>6. CASE TearDown(p)
        <4>1. UNCHANGED <<rec, mem>> \/ \E k \in Kinds \ {"dir"} : Forget(p, k)
          BY <3>4, <3>6 DEF TearDown, ForgetLink, DeleteVeth, ForgetNetns, DeleteNetns,
                    TeardownCheckNat, TeardownDeleteNat, ForgetNat, CleanupReturns, RemoveDir, files
        <4> QED BY <4>1, <3>1, <3>3
      <3> QED BY <3>5, <3>6
    <2>4. pc'[p] \in Built => p \in dirs'
      <3> USE <1>a, <1>e DEF ProcDir, Built, Goto, files
      <3>1. CASE MakeDir(p) \/ RecordNat(p) \/ Reserve(p)
        BY <3>1 DEF MakeDir, RecordNat, Reserve
      <3>2. CASE RecordNetns(p) \/ RecordLink(p)
        BY <3>2 DEF RecordNetns, RecordLink, RecordObject, SetupFails
      <3>3. CASE CreateVeth(p) \/ EnsureNat(p) \/ StartHelper(p) \/ Run(p) \/ Stop(p)
        BY <3>3 DEF CreateVeth, EnsureNat, StartHelper, Run, Stop, SetupFails
      <3>4. CASE TearDown(p)
        BY <3>4 DEF TearDown, ForgetLink, DeleteVeth, ForgetNetns, DeleteNetns, TeardownCheckNat,
                    TeardownDeleteNat, ForgetNat, CleanupReturns, RemoveDir, CheckNat, DeleteNat
      <3> QED BY <1>2, <3>1, <3>2, <3>3, <3>4 DEF SetUp
    <2>5. pc'[p] \in {"rm_record", "rm_lock"} => FALSE
      <3> USE <1>e DEF Goto
      <3>1. CASE SetUp(p) \/ Stop(p)
        BY <1>2, <3>1 DEF SetUp, Stop, MakeDir, RecordNat, Reserve, RecordNetns, RecordLink, RecordObject,
                    CreateVeth, EnsureNat, StartHelper, Run, SetupFails
      <3>2. CASE TearDown(p)
        BY <3>2 DEF TearDown, ForgetLink, DeleteVeth, ForgetNetns, DeleteNetns, TeardownCheckNat,
                    TeardownDeleteNat, ForgetNat, CleanupReturns, RemoveDir, CheckNat, DeleteNat
      <3> QED BY <3>1, <3>2
    <2> QED BY <1>a, <2>3, <2>4, <2>5 DEF KeepsDir, ProcDir, Mirrors, UndoesDir
  <1> QED BY <1>1, <1>2

LEMMA HelperDir ==
    ASSUME TypeOK, LockInv, DirInv, NEW p \in Vms, HelperExits(p) \/ Kill(p) PROVE DirInv'
  <1>1. UNCHANGED <<rec, dirs, boot>> /\ helpers' \subseteq helpers
    BY DEF HelperExits, Kill, files, help, env
  <1>2. ASSUME NEW q \in Vms PROVE ProcDir(q)'
    <2>1. ProcDir(q)
      BY DEF DirInv
    <2>2. CASE HelperExits(p)
      <3>1. pc[p] = "helping" => "helping" \in Own \ {"record_dir"} /\ "running" \in Own \ {"record_dir"}
                                 /\ "helping" \in Built
        BY DEF Own, Setup, Built
      <3>2. /\ UNCHANGED <<target, mem, kept>> /\ "running" \notin Undone \union {"rm_record", "rm_lock"}
            /\ pc'[q] = pc[q] \/ (q = p /\ pc[q] = "helping" /\ pc'[q] = "running")
        BY <2>2 DEF HelperExits, Goto, passVars, undoVars, TypeOK, Undone
      <3> QED BY <1>1, <2>1, <3>1, <3>2 DEF ProcDir, Mirrors, UndoesDir
    <2>3. CASE Kill(p) /\ q = p
      BY <2>3 DEF Kill, Goto, TypeOK, ProcDir, Mirrors, UndoesDir, Own, Setup, Teardown, Undone, Built
    <2>4. CASE Kill(p) /\ q # p
      BY <1>1, <2>1, <2>4 DEF Kill, Goto, TypeOK, ProcDir, Mirrors, UndoesDir
    <2> QED BY <2>2, <2>3, <2>4
  <1> QED BY <1>1, <1>2 DEF DirInv, DirsRecorded, HelperKeepsDir

LEMMA RebootDir ==
    ASSUME TypeOK, DirInv, Reboot PROVE DirInv'
  <1>1. UNCHANGED <<rec, dirs>> /\ helpers' = {} /\ \A q \in Vms : pc'[q] \in Gone
    BY DEF Reboot, files, TypeOK, Gone
  <1>2. \A q \in Vms : ProcDir(q)'
    BY <1>1 DEF ProcDir, Mirrors, UndoesDir, Own, Setup, Teardown, Undone, Built, Gone
  <1> QED BY <1>1, <1>2 DEF DirInv, DirsRecorded, HelperKeepsDir

LEMMA DirStep == TypeOK /\ LockInv /\ DirInv /\ [Next]_vars => DirInv'
  <1> SUFFICES ASSUME TypeOK, LockInv, DirInv, [Next]_vars PROVE DirInv'
    OBVIOUS
  <1>0. TypeOK'
    BY TypeStep
  <1>1. CASE UNCHANGED vars
    BY <1>1 DEF vars, local, passVars, undoVars, files, help, env, DirInv, ProcDir, Mirrors, UndoesDir,
                DirsRecorded, HelperKeepsDir
  <1>2. ASSUME NEW p \in Vms, KeepsDir(p), Frame(p), pc[p] # "helping", helpers' = helpers PROVE DirInv'
    BY <1>0, <1>2, FrameDir DEF KeepsDir
  <1>3. ASSUME NEW p \in Vms, StartPass(p) \/ Pass(p) PROVE DirInv'
    <2>1. pc[p] # "helping" /\ helpers' = helpers
      BY <1>3 DEF StartPass, Pass, VisitOwner, Begin, OpenLock, TakeLock, SkipHeld, ReadRecord, help
    <2> QED BY <1>2, <1>3, <2>1, PassFrame, PassKeepsDir
  <1>4. ASSUME NEW p \in Vms, Undo(p) PROVE DirInv'
    <2>1. helpers' = helpers
      BY <1>4 DEF Undo, SkipUnreadable, UndoDir, UndoPasses, UndoRetires, UndoDelete, UndoNat, UndoFails, Rerecord, UndoEnd,
                  DeleteRecord, DeleteLock, help
    <2> QED BY <1>2, <1>4, <2>1, UndoFrame, UndoKeepsDir
  <1>5. ASSUME NEW p \in Vms, SetUp(p) \/ TearDown(p) \/ Stop(p) PROVE DirInv'
    <2>1. Frame(p) /\ KeepsDir(p) /\ pc[p] # "helping"
      BY <1>5, OwnFrame, OwnKeepsDir
    <2>2. CASE StartHelper(p)
      <3>1. pc[p] = "build" /\ helpers' = helpers \union {p} /\ UNCHANGED <<rec, dirs, boot>>
            /\ pc' = [pc EXCEPT ![p] = "helping"] /\ UNCHANGED <<target, mem, kept>>
        BY <2>2 DEF StartHelper, files, env, Goto, passVars, undoVars
      <3>2. p \in dirs
        BY <3>1 DEF DirInv, ProcDir, Built
      <3>3. ASSUME NEW q \in Vms \ {p} PROVE ProcDir(q)'
        <4>1. ProcDir(q) /\ pc'[q] = pc[q]
          BY <3>1, <3>3 DEF DirInv, TypeOK
        <4> QED BY <3>1, <4>1 DEF ProcDir, Mirrors, UndoesDir
      <3> QED BY <2>1, <3>1, <3>2, <3>3 DEF KeepsDir, DirInv, DirsRecorded, HelperKeepsDir
    <2>3. CASE ~ StartHelper(p)
      <3>1. helpers' = helpers
        BY <1>5, <2>3 DEF SetUp, Stop, RecordDir, MakeDir, RecordNat, Reserve, RecordNetns, RecordLink,
              RecordObject, CreateVeth, EnsureNat, Run, TearDown, ForgetLink, DeleteVeth, ForgetNetns,
              DeleteNetns, TeardownCheckNat, TeardownDeleteNat, ForgetNat, CleanupReturns, RemoveDir, help
      <3> QED BY <1>2, <2>1, <3>1
    <2> QED BY <2>2, <2>3
  <1> QED BY <1>1, <1>3, <1>4, <1>5, HelperDir, RebootDir DEF Next, Step

(* A runtime directory is never there without a record that names it       *)
(* (reclaim::record before create_dir_all, podman/mod.rs 1824-1829, and    *)
(* undo_all, which drops the entry only after the directory).              *)
THEOREM DirectoriesAreRecorded == Spec => []DirsRecorded
  <1>1. Init => TypeOK /\ LockInv /\ DirInv
    BY TypeInit, LockInit, DirInit
  <1>2. TypeOK /\ LockInv /\ DirInv /\ [Next]_vars => (TypeOK /\ LockInv /\ DirInv)'
    BY TypeStep, LockStep, DirStep
  <1>3. DirInv => DirsRecorded
    BY DEF DirInv
  <1> QED BY <1>1, <1>2, <1>3, PTL DEF Spec

(* A disk helper that outlives its process keeps the directory it writes   *)
(* in, because it keeps the owner lock (Holder::hold_in).                  *)
THEOREM HelpersKeepTheirDirectory == Spec => []HelperKeepsDir
  <1>1. Init => TypeOK /\ LockInv /\ DirInv
    BY TypeInit, LockInit, DirInit
  <1>2. TypeOK /\ LockInv /\ DirInv /\ [Next]_vars => (TypeOK /\ LockInv /\ DirInv)'
    BY TypeStep, LockStep, DirStep
  <1>3. DirInv => HelperKeepsDir
    BY DEF DirInv
  <1> QED BY <1>1, <1>2, <1>3, PTL DEF Spec

(* Both together: runtime directories are neither leaked nor removed under  *)
(* a helper, whoever is killed between an act and its record.              *)
THEOREM DirectoriesAreKept == Spec => []DirsKept
  BY DirectoriesAreRecorded, HelpersKeepTheirDirectory, PTL DEF DirsKept

-----------------------------------------------------------------------------
(* The network.  OwnsName(i) is what entitles an actor for i to delete     *)
(* what has i's names.                                                     *)

Net == {"netns", "link"}
Clean == \A q \in Vms : repeat[q] # "done"
OwnsName(i) == base[i] \in Bases /\ netns[base[i]] = i
Linked == {"ensure_nat", "build", "helping", "running"}
Named == {"record_netns", "record_link", "veth"} \union Linked
Natted == {"build", "helping", "running"}
Cleaning == {"forget_link", "del_link", "forget_netns", "del_netns"}
Before == {"idle", "pass", "open", "flock", "record_dir", "mkdir", "record_nat", "reserve"}

(* A record of this boot that names an object proves the ownership.        *)
RecordNet(i) ==
    rec[i] # NoRecord =>
        /\ rec[i].boot <= boot
        /\ rec[i].boot = boot /\ rec[i].res \intersect Net # {} => OwnsName(i)

(* undo_all works newest first: when the namespace's turn comes, nothing   *)
(* is left that was named after it.                                        *)
UndoNet(p) ==
    pc[p] \in Undone =>
        /\ ~ same[p] => pc[p] = "undo" /\ kept[p] \subseteq {"dir"}
        /\ same[p] /\ (mem[p] \union kept[p]) \intersect Net # {} => OwnsName(target[p])
        /\ same[p] /\ ~ hold[p] => kept[p] \subseteq {"dir"}
        /\ pc[p] \in {"delete", "undo_nat"} => ~ hold[p]
        /\ pc[p] = "delete" => rec[target[p]] = [res |-> mem[p] \union kept[p], boot |-> boot]
        /\ pc[p] = "delete" /\ cur[p] \in Net => OwnsName(target[p])
        /\ pc[p] = "delete" /\ cur[p] = "netns" => mem[p] \intersect Net = {}

(* What a launch's network object remembers is its own for as long as      *)
(* cleanup() has not run through.                                          *)
OwnNet(p) ==
    /\ pc[p] \in Before \/ (pc[p] \in Undoing /\ target[p] # p) =>
          handles[p] = {} /\ base[p] = Nobody
    /\ pc[p] = "record_dir" => mem[p] = {}
    /\ pc[p] \in Named => OwnsName(p)
    /\ pc[p] \in Cleaning /\ handles[p] # {} => OwnsName(p)
    /\ pc[p] \in {"del_link", "forget_netns"} => "link" \notin mem[p]
    /\ pc[p] = "del_netns" => mem[p] \intersect Net = {}
    /\ pc[p] \in Linked => link[base[p]] = p

(* The holder of bridged-nat.lock found no veth, so nobody relies on the   *)
(* rules it is about to delete.                                            *)
NatInv ==
    /\ \A p \in Vms : pc[p] \in {"del_nat", "undo_nat"} <=> natLock = p
    /\ natLock # Nobody => \A p \in Vms : pc[p] \notin Natted
    /\ \A p \in Vms : pc[p] \in Natted => nat

NetInv == (\A i \in Vms : RecordNet(i) /\ UndoNet(i) /\ OwnNet(i)) /\ NatInv
CleanNetInv == Clean => NetInv

LEMMA NetInit == Init => CleanNetInv
  BY ReclaimAssumption
  DEF Init, CleanNetInv, NetInv, RecordNet, UndoNet, OwnNet, NatInv, Undone, Before, Undoing, Named, Linked,
      Cleaning, Natted

(* What a step of p leaves alone of the network: the locals of the others, and
   every name that its target neither owns nor has just been given. *)
NetFrame(p) ==
    /\ \A q \in Vms \ {p} : /\ same'[q] = same[q] /\ hold'[q] = hold[q] /\ cur'[q] = cur[q]
                             /\ handles'[q] = handles[q] /\ base'[q] = base[q]
    /\ target[p] # p \/ pc[p] \notin Acts => base'[p] = base[p]
    /\ pc[p] \notin Acts => UNCHANGED <<netns, link>>
    /\ \A b \in Bases : netns'[b] # netns[b] => netns[b] = Nobody \/ netns[b] = target[p]
    /\ \A b \in Bases : link'[b] # link[b] => netns[b] = target[p]

LEMMA PassNetFrame ==
    ASSUME TypeOK, NEW p \in Vms, StartPass(p) \/ Pass(p) PROVE NetFrame(p)
  BY DEF StartPass, Pass, VisitOwner, Begin, OpenLock, TakeLock, SkipHeld, ReadRecord, NetFrame,
         undoVars, netVars, kernel, TypeOK

LEMMA UndoNetFrame ==
    ASSUME TypeOK, NEW p \in Vms, Undo(p), UndoNet(p) PROVE NetFrame(p)
  <1> USE DEF NetFrame, undoVars, netVars, kernel, TypeOK
  <1>0. pc[p] \in Acts
    BY UndoFrame
  <1>1. CASE UndoDir(p) \/ UndoPasses(p) \/ UndoRetires(p)
    BY <1>1 DEF UndoDir, UndoPasses, UndoRetires
  <1>2. CASE UndoDelete(p)
    <2>1. cur[p] \in Net => OwnsName(target[p])
      BY <1>2 DEF UndoDelete, UndoNet, Undone
    <2>2. CASE cur[p] = "link" /\ DelLink(base[target[p]])
      BY <1>0, <1>2, <2>1, <2>2 DEF UndoDelete, DelLink, OwnsName, Net
    <2>3. CASE cur[p] = "netns" /\ DelNetns(base[target[p]])
      BY <1>0, <1>2, <2>1, <2>3 DEF UndoDelete, DelNetns, OwnsName, Net
    <2>4. CASE UNCHANGED <<netns, link>>
      BY <1>2, <2>4 DEF UndoDelete
    <2> QED BY <1>2, <2>2, <2>3, <2>4 DEF UndoDelete
  <1>3. CASE UndoNat(p) \/ UndoFails(p) \/ Rerecord(p)
    BY <1>3 DEF UndoNat, UndoFails, Rerecord
  <1>4. CASE UndoEnd(p) \/ DeleteRecord(p) \/ DeleteLock(p) \/ SkipUnreadable(p)
    BY <1>4 DEF UndoEnd, DeleteRecord, DeleteLock, SkipUnreadable, Release
  <1> QED BY <1>1, <1>2, <1>3, <1>4 DEF Undo

LEMMA OwnNetFrame ==
    ASSUME TypeOK, LockInv, NEW p \in Vms, SetUp(p) \/ TearDown(p) \/ Stop(p), OwnNet(p)
    PROVE  NetFrame(p)
  <1>0. pc[p] \in Acts /\ target[p] = p
    BY OwnFrame DEF Acts
  <1> USE <1>0 DEF NetFrame, undoVars, netVars, kernel, TypeOK
  <1>1. CASE RecordDir(p) \/ MakeDir(p) \/ RecordNat(p) \/ EnsureNat(p) \/ StartHelper(p) \/ Run(p) \/ Stop(p)
    BY <1>1 DEF RecordDir, MakeDir, RecordNat, EnsureNat, StartHelper, Run, Stop, Release
  <1>2. CASE Reserve(p)
    BY <1>2 DEF Reserve, FreeBase
  <1>3. CASE RecordNetns(p) \/ RecordLink(p)
    BY <1>3 DEF RecordNetns, RecordLink, RecordObject
  <1>4. CASE CreateVeth(p)
    <2>1. OwnsName(p)
      BY <1>4 DEF CreateVeth, OwnNet, Named
    <2> QED BY <1>4, <2>1 DEF CreateVeth, OwnsName
  <1>5. CASE DeleteVeth(p)
    <2>1. handles[p] # {} => OwnsName(p)
      BY <1>5 DEF DeleteVeth, OwnNet, Cleaning
    <2> QED BY <1>5, <2>1 DEF DeleteVeth, DelLink, OwnsName
  <1>6. CASE DeleteNetns(p)
    <2>1. handles[p] # {} => OwnsName(p)
      BY <1>6 DEF DeleteNetns, OwnNet, Cleaning
    <2> QED BY <1>6, <2>1 DEF DeleteNetns, DelNetns, OwnsName
  <1>7. CASE ForgetLink(p) \/ ForgetNetns(p) \/ ForgetNat(p)
    BY <1>7 DEF ForgetLink, ForgetNetns, ForgetNat
  <1>8. CASE TeardownCheckNat(p) \/ TeardownDeleteNat(p) \/ CleanupReturns(p) \/ RemoveDir(p)
    BY <1>8 DEF TeardownCheckNat, TeardownDeleteNat, CleanupReturns, RemoveDir
  <1> QED BY <1>1, <1>2, <1>3, <1>4, <1>5, <1>6, <1>7, <1>8 DEF SetUp, TearDown

(* A name another owner has stays with it, and so does the veth that has it. *)
LEMMA NamesKept ==
    ASSUME TypeOK, NEW p \in Vms, NetFrame(p), NEW i \in Vms, i # target[p] \/ pc[p] \notin Acts, OwnsName(i)
    PROVE  OwnsName(i)' /\ base'[i] = base[i] /\ link'[base[i]] = link[base[i]]
  <1>1. base'[i] = base[i]
    BY DEF NetFrame
  <1>2. netns'[base[i]] = netns[base[i]] /\ link'[base[i]] = link[base[i]]
    BY ReclaimAssumption DEF NetFrame, OwnsName, TypeOK
  <1> QED BY <1>1, <1>2 DEF OwnsName

ProcNet == \A i \in Vms : RecordNet(i) /\ UndoNet(i) /\ OwnNet(i)

(* Because an owner has one actor, it is enough to look at that actor. *)
LEMMA FrameNet ==
    ASSUME TypeOK, LockInv, ProcNet, NEW p \in Vms, Frame(p), NetFrame(p),
           UndoNet(p)', OwnNet(p)', \A i \in Vms : i = target[p] /\ pc[p] \in Acts => RecordNet(i)'
    PROVE  ProcNet'
  <1>1. ASSUME NEW i \in Vms PROVE RecordNet(i)'
    <2>1. CASE i = target[p] /\ pc[p] \in Acts
      BY <2>1
    <2>2. CASE i # target[p] \/ pc[p] \notin Acts
      <3>1. rec'[i] = rec[i] /\ boot' = boot /\ (OwnsName(i) => OwnsName(i)') /\ RecordNet(i)
        BY <2>2, NamesKept DEF Frame, ProcNet
      <3> QED BY <3>1 DEF RecordNet
    <2> QED BY <2>1, <2>2
  <1>2. ASSUME NEW q \in Vms, q # p PROVE UndoNet(q)' /\ OwnNet(q)'
    <2>1. /\ pc'[q] = pc[q] /\ mem'[q] = mem[q] /\ kept'[q] = kept[q] /\ target'[q] = target[q]
          /\ same'[q] = same[q] /\ hold'[q] = hold[q] /\ cur'[q] = cur[q] /\ boot' = boot
          /\ handles'[q] = handles[q] /\ base'[q] = base[q] /\ UndoNet(q) /\ OwnNet(q)
      BY <1>2 DEF Frame, NetFrame, ProcNet
    <2>2. target[q] \in Vms /\ (pc[q] \in Acts => target[q] # target[p] \/ pc[p] \notin Acts)
      BY <1>2 DEF LockInv, DescriptorInv, OneActor, Acting, TypeOK
    <2>3. CASE pc[q] \in Undone
      <3>1. pc[q] \in Acts /\ pc[q] \notin Before \union Named \union Cleaning
            /\ pc[q] \notin {"record_dir", "del_link", "forget_netns", "del_netns"} /\ pc[q] \notin Linked
        BY <2>3 DEF Undone, Acts, Undoing, Before, Named, Linked, Cleaning
      <3>2. PICK i \in Vms : i = target[q]
        BY <2>2
      <3>3. rec'[i] = rec[i] /\ (OwnsName(i) => OwnsName(i)')
        BY <2>2, <3>1, <3>2, NamesKept DEF Frame
      <3>4. UndoNet(q)'
        BY <2>1, <3>2, <3>3 DEF UndoNet, OwnsName
      <3>5. OwnNet(q)'
        BY <2>1, <3>1 DEF OwnNet
      <3> QED BY <3>4, <3>5
    <2>4. CASE pc[q] \notin Undone
      <3>1. UndoNet(q)'
        BY <2>1, <2>4 DEF UndoNet
      <3>2. CASE pc[q] \in Own
        <4>1. q # target[p] \/ pc[p] \notin Acts
          BY <2>2, <3>2 DEF LockInv, DescriptorInv, Acts
        <4>2. OwnsName(q) => OwnsName(q)' /\ link'[base[q]] = link[base[q]]
          BY <4>1, NamesKept
        <4>3. Linked \subseteq Named
          BY DEF Named
        <4>4. OwnNet(q)'
          BY <2>1, <4>2, <4>3 DEF OwnNet
        <4> QED BY <3>1, <4>4
      <3>3. CASE pc[q] \notin Own
        <4>1. Named \subseteq Own /\ Cleaning \subseteq Own /\ Linked \subseteq Own
          BY DEF Named, Linked, Cleaning, Own, Setup, Teardown
        <4> QED BY <2>1, <3>1, <3>3, <4>1 DEF OwnNet
      <3> QED BY <3>2, <3>3
    <2> QED BY <2>3, <2>4
  <1> QED BY <1>1, <1>2 DEF ProcNet

(* What remains to be shown of a step of p. *)
KeepsNet(p) ==
    /\ UndoNet(p)' /\ OwnNet(p)'
    /\ \A i \in Vms : i = target[p] /\ pc[p] \in Acts => RecordNet(i)'

LEMMA PassKeepsNet ==
    ASSUME TypeOK, ProcNet, NEW p \in Vms, StartPass(p) \/ Pass(p) PROVE KeepsNet(p)
  <1>a. UndoNet(p) /\ OwnNet(p) /\ (\A i \in Vms : RecordNet(i)) /\ target[p] \in Vms
    BY DEF ProcNet, TypeOK
  <1>b. pc \in [Vms -> PCs] /\ mem \in [Vms -> SUBSET Kinds]
    BY DEF TypeOK
  <1>c. UNCHANGED <<netns, link, base, handles, rec, boot>>
    BY DEF StartPass, Pass, VisitOwner, Begin, OpenLock, TakeLock, SkipHeld, ReadRecord, netVars, files,
           kernel, env
  <1>d. \A i \in Vms : RecordNet(i)'
    BY <1>a, <1>c DEF RecordNet, OwnsName
  <1>1. CASE StartPass(p) \/ VisitOwner(p) \/ Begin(p) \/ OpenLock(p) \/ SkipHeld(p)
    <2>1. /\ pc[p] \in Before \ {"record_dir"} /\ pc'[p] \in Before \ {"record_dir"}
      BY <1>b, <1>1 DEF StartPass, VisitOwner, Begin, OpenLock, SkipHeld, Goto, Before
    <2>2. pc'[p] \notin Undone \union Undoing \union Named \union Cleaning \union Linked
          /\ pc'[p] \notin {"del_link", "forget_netns", "del_netns"}
      BY <2>1 DEF Undone, Undoing, Named, Cleaning, Linked, Before
    <2> QED BY <1>a, <1>c, <1>d, <2>1, <2>2 DEF KeepsNet, UndoNet, OwnNet
  <1>2. CASE TakeLock(p)
    <2>1. /\ pc[p] \in Before /\ mem'[p] = {} /\ target' = target
          /\ pc'[p] \in {"open", "done", "record_dir"} \/ (pc'[p] = "read" /\ target[p] # p)
      BY <1>b, <1>2 DEF TakeLock, Goto, passVars, Before
    <2>2. pc'[p] \notin Undone \union Named \union Cleaning \union Linked
          /\ pc'[p] \notin {"del_link", "forget_netns", "del_netns"}
      BY <2>1 DEF Undone, Undoing, Named, Cleaning, Linked, Before
    <2> QED BY <1>a, <1>c, <1>d, <2>1, <2>2 DEF KeepsNet, UndoNet, OwnNet
  <1>3. CASE ReadRecord(p)
    <2>1. /\ pc[p] = "read" /\ target' = target
          /\ pc'[p] \notin Before \union Named \union Cleaning \union Linked
          /\ pc'[p] \notin {"del_link", "forget_netns", "del_netns", "record_dir"}
      BY <1>b, <1>3 DEF ReadRecord, Goto, passVars, Before, Named, Cleaning, Linked
    <2>2. pc[p] \in Undoing
      BY <2>1 DEF Undoing
    <2>3. OwnNet(p)'
      BY <1>a, <1>c, <2>1, <2>2 DEF OwnNet
    <2>4. UndoNet(p)'
      <3>1. CASE rec[target[p]] = NoRecord
        BY <1>b, <1>3, <3>1 DEF ReadRecord, Goto, UndoNet, Undone
      <3>2. CASE rec[target[p]] # NoRecord
        <4>1. /\ pc'[p] = "undo" /\ mem'[p] = rec[target[p]].res /\ kept'[p] = {} /\ hold'[p] = FALSE
              /\ same'[p] = (rec[target[p]].boot = boot)
          BY <1>3, <3>2 DEF ReadRecord, Goto, TypeOK
        <4>2. RecordNet(target[p])
          BY <1>a
        <4>3. same'[p] /\ (mem'[p] \union kept'[p]) \intersect Net # {} => OwnsName(target[p])
          BY <3>2, <4>1, <4>2 DEF RecordNet
        <4>4. OwnsName(target[p])' <=> OwnsName(target[p])
          BY <1>c, <2>1 DEF OwnsName
        <4> QED BY <4>1, <4>3, <4>4 DEF UndoNet
      <3> QED BY <3>1, <3>2
    <2> QED BY <1>d, <2>3, <2>4 DEF KeepsNet
  <1> QED BY <1>1, <1>2, <1>3 DEF Pass

(* Newest first: what is named after the namespace goes before it. *)
LEMMA LinkBeforeNetns ==
    ASSUME NEW s \in SUBSET Kinds, s # {}, Newest(s) = "netns" PROVE (s \ {"netns"}) \intersect Net = {}
  <1>1. "link" \in s => Rank["link"] <= Rank["netns"]
    BY NewestIn
  <1> QED BY <1>1 DEF Rank, Net

LEMMA UndoKeepsNet ==
    ASSUME TypeOK, ProcNet, NEW p \in Vms, Undo(p) PROVE KeepsNet(p)
  <1>1. PICK i \in Vms : i = target[p]
    BY DEF TypeOK
  <1>2. UndoNet(p) /\ OwnNet(p) /\ RecordNet(i)
    BY DEF ProcNet
  <1>3. target' = target /\ base' = base /\ handles' = handles /\ boot' = boot
    BY DEF Undo, SkipUnreadable, UndoDir, UndoPasses, UndoRetires, UndoDelete, UndoNat, UndoFails, Rerecord, UndoEnd,
           DeleteRecord, DeleteLock, passVars, netVars, env
  <1>4. /\ pc[p] \in Undoing
        /\ pc'[p] \in Undoing \/ (pc'[p] = "pass" /\ i # p) \/ pc'[p] = "done"
    <2> USE <1>1 DEF Goto, Undoing, TypeOK
    <2>1. CASE UndoDir(p) \/ UndoPasses(p) \/ UndoRetires(p)
      BY <2>1 DEF UndoDir, UndoPasses, UndoRetires
    <2>2. CASE UndoDelete(p) \/ UndoNat(p)
      BY <2>2 DEF UndoDelete, UndoNat, CheckNat, DeleteNat
    <2>3. CASE UndoFails(p) \/ Rerecord(p)
      BY <2>3 DEF UndoFails, Rerecord
    <2>4. CASE UndoEnd(p) \/ DeleteRecord(p) \/ DeleteLock(p) \/ SkipUnreadable(p)
      BY <2>4 DEF UndoEnd, DeleteRecord, DeleteLock, SkipUnreadable, Release
    <2> QED BY <2>1, <2>2, <2>3, <2>4 DEF Undo
  <1>5. OwnNet(p)'
    <2>1. /\ Undoing \intersect (Named \union Cleaning \union Linked) = {}
          /\ \A s \in Undoing \union {"pass", "done"} :
                 /\ s \notin {"del_link", "forget_netns", "del_netns", "record_dir"}
                 /\ s \notin Named \union Cleaning \union Linked
          /\ \A s \in Undoing \union {"done"} : s \notin Before
      BY DEF Undoing, Named, Cleaning, Linked, Before
    <2> QED BY <1>1, <1>2, <1>3, <1>4, <2>1 DEF OwnNet
  <1>6. pc \in [Vms -> PCs] /\ mem \in [Vms -> SUBSET Kinds] /\ kept \in [Vms -> SUBSET Kinds]
        /\ hold \in [Vms -> BOOLEAN] /\ same \in [Vms -> BOOLEAN] /\ cur \in [Vms -> Kinds \ {"dir"}]
        /\ rec \in [Vms -> Records]
    BY DEF TypeOK
  <1>7. /\ pc[p] \in Undone => UndoNet(p)!2
        /\ Undone \intersect {"rm_record", "rm_lock", "pass", "done"} = {}
        /\ \A s \in {"undo", "delete", "rerecord", "undo_nat"} : s \in Undone
    BY <1>2 DEF UndoNet, Undone
  <1>8. SUFFICES UndoNet(p)' /\ RecordNet(i)'
    BY <1>1, <1>5 DEF KeepsNet
  <1>9. ASSUME netns' = netns PROVE OwnsName(i)' <=> OwnsName(i)
    BY <1>3, <1>9 DEF OwnsName
  <1>10. ASSUME netns' = netns, UNCHANGED rec PROVE RecordNet(i)'
    BY <1>2, <1>3, <1>9, <1>10 DEF RecordNet
  <1>11. ASSUME netns' = netns, NEW res \in SUBSET Kinds, WriteRecord(i, res),
                res \intersect Net # {} => OwnsName(i)
         PROVE  RecordNet(i)'
    <2>1. rec'[i] = [res |-> res, boot |-> boot]
      BY <1>11, WrittenRecord
    <2> QED BY <1>3, <1>9, <1>11, <2>1 DEF RecordNet, TypeOK
  <1>12. CASE UndoDir(p)
    <2>1. /\ pc[p] = "undo" /\ pc' = pc /\ mem' = [mem EXCEPT ![p] = @ \ {"dir"}]
          /\ kept'[p] = kept[p] \/ kept'[p] = kept[p] \union {"dir"}
          /\ UNCHANGED <<netns, rec, same, hold>>
      BY <1>6, <1>12 DEF UndoDir, kernel
    <2>2. mem'[p] = mem[p] \ {"dir"} /\ "dir" \notin Net
      BY <1>6, <2>1 DEF Net
    <2>3. (mem'[p] \union kept'[p]) \intersect Net = (mem[p] \union kept[p]) \intersect Net
      BY <2>1, <2>2
    <2> QED BY <1>1, <1>2, <1>3, <1>7, <1>9, <1>10, <2>1, <2>3 DEF UndoNet
  <1>13. CASE UndoPasses(p)
    <2> DEFINE k == Newest(mem[p])
    <2>1. /\ pc[p] = "undo" /\ pc' = pc /\ (same[p] => hold[p])
          /\ mem'[p] = mem[p] \ {k} /\ kept'[p] = IF same[p] THEN kept[p] \union {k} ELSE kept[p]
          /\ UNCHANGED <<netns, rec, same, hold>> /\ k \in mem[p]
      BY <1>6, <1>13, NewestIn DEF UndoPasses, undoVars, files, kernel
    <2>2. (mem'[p] \union kept'[p]) \intersect Net # {} => (mem[p] \union kept[p]) \intersect Net # {}
      BY <2>1
    <2>3. ~ same[p] => kept'[p] = kept[p] /\ kept[p] \subseteq {"dir"}
      BY <1>2, <1>7, <2>1 DEF UndoNet
    <2>4. same[p] /\ (mem'[p] \union kept'[p]) \intersect Net # {} => OwnsName(i)
      BY <1>1, <1>2, <1>7, <2>1, <2>2 DEF UndoNet
    <2>5. pc'[p] = "undo" /\ same'[p] = same[p] /\ hold'[p] = hold[p] /\ RecordNet(i)'
      BY <1>10, <2>1
    <2>6. UndoNet(p)'
      <3> HIDE DEF k
      <3> QED BY <1>1, <1>3, <1>9, <2>1, <2>3, <2>4, <2>5 DEF UndoNet
    <2> QED BY <2>5, <2>6
  <1>14. CASE UndoRetires(p)
    <2> DEFINE k == Newest(mem[p])
    <2>1. /\ pc[p] = "undo" /\ same[p] /\ ~ hold[p] /\ same' = same /\ netns' = netns
          /\ mem'[p] = mem[p] \ {k} /\ k \in mem[p] /\ mem[p] # {}
      BY <1>6, <1>14, NewestIn DEF UndoRetires, kernel
    <2>2. ((mem[p] \ {k}) \union kept[p]) \intersect Net # {} \/ k \in Net => OwnsName(i)
      BY <1>1, <1>2, <1>7, <2>1 DEF UndoNet
    <2>3. kept[p] \subseteq {"dir"}
      BY <1>2, <1>7, <2>1 DEF UndoNet
    <2>4. CASE /\ WriteRecord(i, (mem[p] \ {k}) \union kept[p]) /\ cur' = [cur EXCEPT ![p] = k]
               /\ Goto(p, "delete") /\ UNCHANGED <<kept, hold>>
      <3> DEFINE r == (mem[p] \ {k}) \union kept[p]
      <3>1. r \in SUBSET Kinds
        BY <1>6
      <3>2. RecordNet(i)'
        <4> HIDE DEF r
        <4>1. WriteRecord(i, r) /\ (r \intersect Net # {} => OwnsName(i))
          BY <2>2, <2>4 DEF r
        <4> QED BY <1>11, <2>1, <3>1, <4>1
      <3>3. rec'[i] = [res |-> mem'[p] \union kept'[p], boot |-> boot']
        <4>1. rec'[i] = [res |-> r, boot |-> boot]
          <5> HIDE DEF r
          <5>1. WriteRecord(i, r)
            BY <2>4 DEF r
          <5> QED BY <3>1, <5>1, WrittenRecord
        <4> QED BY <1>3, <2>1, <2>4, <4>1
      <3>4. pc'[p] = "delete" /\ cur'[p] = k /\ kept'[p] = kept[p] /\ ~ hold'[p] /\ same'[p]
        BY <1>6, <2>1, <2>4 DEF Goto
      <3>5. k = "netns" => mem'[p] \intersect Net = {}
        <4>1. mem[p] \in SUBSET Kinds
          BY <1>6
        <4> QED BY <2>1, <4>1, LinkBeforeNetns
      <3>6. UndoNet(p)'
        BY <1>1, <1>3, <1>9, <2>1, <2>2, <2>3, <3>3, <3>4, <3>5 DEF UndoNet
      <3> QED BY <3>2, <3>6
    <2>5. CASE UNCHANGED <<pc, rec>> /\ kept' = [kept EXCEPT ![p] = @ \union {k}] /\ hold' = [hold EXCEPT ![p] = TRUE]
      <3>1. kept'[p] = kept[p] \union {k} /\ hold'[p] /\ pc'[p] = "undo" /\ same'[p]
        BY <1>6, <2>1, <2>5
      <3> QED BY <1>1, <1>3, <1>9, <1>10, <2>1, <2>2, <2>5, <3>1 DEF UndoNet
    <2> QED BY <1>1, <1>14, <2>4, <2>5 DEF UndoRetires
  <1>15. CASE UndoDelete(p) /\ netns' = netns
    <2>1. pc[p] = "delete" /\ pc'[p] \in {"undo", "undo_nat"} /\ UNCHANGED <<mem, kept, hold, same, rec>>
      BY <1>6, <1>15 DEF UndoDelete, CheckNat, Goto, undoVars, files
    <2> QED BY <1>1, <1>2, <1>3, <1>7, <1>9, <1>10, <1>15, <2>1 DEF UndoNet
  <1>16. CASE UndoDelete(p) /\ netns' # netns
    <2>1. /\ pc[p] = "delete" /\ pc'[p] = "undo" /\ UNCHANGED <<mem, kept, hold, same, rec>>
          /\ cur[p] = "netns"
      BY <1>6, <1>16 DEF UndoDelete, CheckNat, Goto, undoVars, files, DelLink, DelNetns
    <2>2. /\ ~ hold[p] /\ same[p] /\ kept[p] \subseteq {"dir"} /\ mem[p] \intersect Net = {}
          /\ rec[i] = [res |-> mem[p] \union kept[p], boot |-> boot]
      BY <1>1, <1>2, <1>7, <2>1 DEF UndoNet
    <2>3. (mem[p] \union kept[p]) \intersect Net = {}
      BY <2>2 DEF Net
    <2>4. rec[i].res = mem[p] \union kept[p] /\ rec[i].boot = boot
      BY <2>2
    <2>5. boot \in Nat
      BY DEF TypeOK
    <2> QED BY <1>3, <2>1, <2>2, <2>3, <2>4, <2>5 DEF UndoNet, RecordNet
  <1>17. CASE UndoNat(p)
    <2>1. pc[p] = "undo_nat" /\ pc'[p] = "undo" /\ UNCHANGED <<mem, kept, hold, same, rec, netns>>
      BY <1>6, <1>17 DEF UndoNat, DeleteNat, Goto, undoVars, files
    <2> QED BY <1>1, <1>2, <1>3, <1>7, <1>9, <1>10, <2>1 DEF UndoNet
  <1>18. CASE UndoFails(p)
    <2>1. /\ pc[p] = "delete" /\ pc'[p] = "rerecord" /\ UNCHANGED <<mem, same, rec, netns>>
          /\ kept'[p] = kept[p] \union {cur[p]} /\ hold'[p]
      BY <1>6, <1>18 DEF UndoFails, Goto, files, kernel
    <2> QED BY <1>1, <1>2, <1>3, <1>7, <1>9, <1>10, <2>1 DEF UndoNet
  <1>19. CASE Rerecord(p)
    <2> DEFINE r == mem[p] \union kept[p]
    <2>1. /\ pc[p] = "rerecord" /\ pc'[p] = "undo" /\ UNCHANGED <<mem, same, kept, hold, netns>>
          /\ rec' = rec \/ WriteRecord(i, r)
      BY <1>1, <1>6, <1>19 DEF Rerecord, Goto, undoVars, kernel
    <2>2. same[p] /\ (r \intersect Net # {} => OwnsName(i)) /\ r \in SUBSET Kinds
      BY <1>1, <1>2, <1>6, <1>7, <2>1 DEF UndoNet
    <2>3. RecordNet(i)'
      <3> HIDE DEF r
      <3> QED BY <1>10, <1>11, <2>1, <2>2
    <2> QED BY <1>1, <1>2, <1>3, <1>7, <1>9, <2>1, <2>2, <2>3 DEF UndoNet
  <1>20. CASE UndoEnd(p)
    <2>1. /\ pc[p] = "undo" /\ pc'[p] \in {"rm_record", "pass", "done"} /\ netns' = netns
          /\ rec' = rec \/ WriteRecord(i, kept[p])
      BY <1>1, <1>6, <1>20 DEF UndoEnd, Release, Goto, kernel
    <2>2. (kept[p] \intersect Net # {} => OwnsName(i)) /\ kept[p] \in SUBSET Kinds
      <3>1. CASE same[p]
        BY <1>1, <1>2, <1>6, <1>7, <2>1, <3>1 DEF UndoNet
      <3>2. CASE ~ same[p]
        BY <1>2, <1>6, <1>7, <2>1, <3>2 DEF UndoNet, Net
      <3> QED BY <3>1, <3>2
    <2> QED BY <1>7, <1>10, <1>11, <2>1, <2>2 DEF UndoNet
  <1>21. CASE DeleteRecord(p) \/ DeleteLock(p)
    <2>1. pc'[p] \in {"rm_lock", "pass", "done"} /\ netns' = netns /\ (rec' = rec \/ rec'[i] = NoRecord)
      BY <1>1, <1>6, <1>21 DEF DeleteRecord, DeleteLock, Release, Goto, kernel
    <2> QED BY <1>7, <1>10, <2>1 DEF UndoNet, RecordNet
  <1>22. CASE SkipUnreadable(p)
    <2>1. pc'[p] \in {"pass", "done"} /\ netns' = netns /\ rec' = rec
      BY <1>1, <1>6, <1>22 DEF SkipUnreadable, Release, Goto, kernel, files
    <2> QED BY <1>7, <1>10, <2>1 DEF UndoNet, RecordNet
  <1> QED BY <1>12, <1>13, <1>14, <1>15, <1>16, <1>17, <1>18, <1>19, <1>20, <1>21, <1>22 DEF Undo

LEMMA OwnKeepsNet ==
    ASSUME TypeOK, TypeOK', LockInv, DirInv, ProcNet, NEW p \in Vms, SetUp(p) \/ TearDown(p) \/ Stop(p),
           repeat'[p] # "done"
    PROVE  KeepsNet(p)
  <1>1. /\ target[p] = p /\ target' = target /\ pc[p] \in Own \ {"helping"} /\ boot' = boot
        /\ KeepsDir(p)
    BY OwnFrame, OwnKeepsDir DEF Frame
  <1>2. OwnNet(p) /\ RecordNet(p)
    BY DEF ProcNet
  <1>3. pc[p] # "record_dir" => (mem[p] \intersect Net # {} => OwnsName(p))
    <2> HAVE pc[p] # "record_dir"
    <2>1. rec[p] = [res |-> mem[p], boot |-> boot]
      BY <1>1 DEF DirInv, ProcDir, Mirrors
    <2>2. rec[p] \in Recorded /\ rec[p].res = mem[p] /\ rec[p].boot = boot
      BY <2>1 DEF Recorded, TypeOK
    <2> QED BY <1>2, <2>2, NoRecordAssumption DEF RecordNet
  <1>4. pc \in [Vms -> PCs] /\ mem \in [Vms -> SUBSET Kinds] /\ handles \in [Vms -> SUBSET {"netns", "link"}]
        /\ base \in [Vms -> Bases \union {Nobody}] /\ netns \in [Bases -> Vms \union {Nobody}]
        /\ link \in [Bases -> Vms \union {Nobody}] /\ rec \in [Vms -> Records] /\ boot \in Nat
    BY DEF TypeOK
  <1>5. ASSUME pc'[p] \in Own \ {"record_dir"}, OwnNet(p)', mem'[p] \intersect Net # {} => OwnsName(p)'
        PROVE  KeepsNet(p)
    <2>1. rec'[p] = [res |-> mem'[p], boot |-> boot']
      BY <1>1, <1>5 DEF KeepsDir, ProcDir, Mirrors
    <2>2. RecordNet(p)'
      BY <1>1, <1>4, <1>5, <2>1 DEF RecordNet
    <2>3. UndoNet(p)'
      BY <1>5 DEF UndoNet, Undone, Own, Setup, Teardown
    <2> QED BY <1>1, <1>5, <2>2, <2>3 DEF KeepsNet
  <1>6. CASE RecordDir(p)
    <2>1. UNCHANGED <<base, handles, netns>> /\ pc[p] = "record_dir"
      BY <1>6 DEF RecordDir, netVars, kernel
    <2>2. mem[p] = {}
      BY <1>2, <2>1 DEF OwnNet
    <2>3. CASE pc'[p] = "mkdir" /\ mem'[p] = {"dir"}
      <3>1. "mkdir" \in Own \ {"record_dir"} /\ {"dir"} \intersect Net = {} /\ "record_dir" \in Before
        BY DEF Own, Setup, Net, Before
      <3>2. OwnNet(p)'
        BY <1>2, <2>1, <2>3, <3>1 DEF OwnNet, Named, Linked, Cleaning
      <3> QED BY <1>5, <2>3, <3>1, <3>2
    <2>4. CASE pc'[p] = "done" /\ UNCHANGED rec
      <3>1. UndoNet(p)' /\ OwnNet(p)'
        BY <2>4 DEF UndoNet, OwnNet, Undone, Before, Undoing, Named, Linked, Cleaning
      <3>2. RecordNet(p)'
        BY <1>1, <1>2, <2>1, <2>4 DEF RecordNet, OwnsName
      <3> QED BY <1>1, <3>1, <3>2 DEF KeepsNet
    <2> QED BY <1>1, <1>4, <1>6, <2>2, <2>3, <2>4 DEF RecordDir, Record, Goto, Release
  <1>7. CASE MakeDir(p) \/ RecordNat(p)
    <2>1. /\ UNCHANGED <<base, handles, netns>> /\ pc[p] \in {"mkdir", "record_nat"}
          /\ pc'[p] \in {"record_nat", "reserve", "forget_link"} /\ mem'[p] \subseteq mem[p] \union {"nat"}
      BY <1>4, <1>7 DEF MakeDir, RecordNat, Record, Goto, netVars, kernel
    <2>2. pc[p] \in Before /\ pc[p] # "record_dir" /\ handles[p] = {} /\ base[p] = Nobody
          /\ pc'[p] \in Own \ {"record_dir"} /\ "nat" \notin Net
      BY <1>2, <2>1 DEF OwnNet, Before, Own, Setup, Teardown, Net
    <2>3. OwnNet(p)'
      BY <2>1, <2>2 DEF OwnNet, Named, Linked, Cleaning
    <2>4. mem'[p] \intersect Net # {} => OwnsName(p)'
      BY <1>3, <2>1, <2>2 DEF OwnsName
    <2> QED BY <1>5, <2>2, <2>3, <2>4
  <1>8. CASE Reserve(p)
    <2>1. pc[p] = "reserve" /\ mem' = mem
      BY <1>8 DEF Reserve
    <2>2. pc[p] # "record_dir" /\ handles[p] = {} /\ base[p] = Nobody
      BY <1>2, <2>1 DEF OwnNet, Before
    <2>3. ASSUME NEW b \in Bases, netns' = [netns EXCEPT ![b] = p], base' = [base EXCEPT ![p] = b],
                 Goto(p, "record_netns")
          PROVE  KeepsNet(p)
      <3>1. OwnsName(p)' /\ pc'[p] = "record_netns"
        BY <1>4, <2>3 DEF OwnsName, Goto
      <3>2. OwnNet(p)' /\ pc'[p] \in Own \ {"record_dir"}
        BY <1>1, <3>1 DEF OwnNet, Before, Undoing, Named, Linked, Cleaning, Own, Setup
      <3> QED BY <1>5, <3>1, <3>2
    <2>4. CASE UNCHANGED <<netns, base, handles>> /\ Goto(p, "forget_link")
      <3>1. pc'[p] = "forget_link" /\ pc'[p] \in Own \ {"record_dir"} /\ handles'[p] = {}
        BY <1>4, <2>2, <2>4 DEF Goto, Own, Teardown
      <3>2. OwnNet(p)'
        BY <3>1 DEF OwnNet, Before, Undoing, Named, Linked
      <3>3. mem'[p] \intersect Net # {} => OwnsName(p)'
        BY <1>3, <2>1, <2>2, <2>4 DEF OwnsName
      <3> QED BY <1>5, <3>1, <3>2, <3>3
    <2> QED BY <1>8, <2>3, <2>4 DEF Reserve
  <1>9. CASE \/ RecordNetns(p) \/ RecordLink(p) \/ CreateVeth(p) \/ EnsureNat(p) \/ StartHelper(p)
             \/ Run(p) \/ Stop(p)
    <2>1. /\ pc[p] \in Named /\ netns' = netns /\ base' = base
          /\ pc'[p] \in Named \/ pc'[p] = "forget_link"
          /\ pc'[p] \in Linked => pc[p] = "veth" \/ pc[p] \in Linked
      <3> USE <1>4 DEF Named, Linked, Goto, netVars, kernel
      <3>1. CASE RecordNetns(p) \/ RecordLink(p)
        BY <3>1 DEF RecordNetns, RecordLink, RecordObject, SetupFails
      <3>2. CASE CreateVeth(p) \/ EnsureNat(p) \/ StartHelper(p) \/ Run(p) \/ Stop(p)
        BY <3>2 DEF CreateVeth, EnsureNat, StartHelper, Run, Stop, SetupFails
      <3> QED BY <1>9, <3>1, <3>2
    <2>2. OwnsName(p) /\ OwnsName(p)'
      BY <1>2, <2>1 DEF OwnNet, OwnsName
    <2>3. pc'[p] \in Linked => link'[base'[p]] = p
      <3>1. CASE pc[p] = "veth"
        <4>1. CreateVeth(p)
          BY <1>9, <3>1 DEF RecordNetns, RecordLink, EnsureNat, StartHelper, Run, Stop
        <4>2. CASE link' = [link EXCEPT ![base[p]] = p]
          BY <1>4, <2>1, <2>2, <4>2 DEF OwnsName
        <4>3. CASE SetupFails(p)
          BY <1>4, <4>3 DEF SetupFails, Goto, Linked
        <4> QED BY <4>1, <4>2, <4>3 DEF CreateVeth
      <3>2. CASE pc[p] \in Linked
        <4>1. pc[p] # "veth" /\ link[base[p]] = p
          BY <1>2, <3>2 DEF Linked, OwnNet
        <4>2. link' = link
          BY <1>9, <4>1 DEF RecordNetns, RecordLink, RecordObject, CreateVeth, EnsureNat, StartHelper, Run, Stop, kernel
        <4> QED BY <2>1, <4>1, <4>2
      <3> QED BY <2>1, <3>1, <3>2
    <2>4. OwnNet(p)' /\ pc'[p] \in Own \ {"record_dir"}
      BY <2>1, <2>2, <2>3 DEF OwnNet, Before, Undoing, Named, Linked, Own, Setup, Teardown
    <2> QED BY <1>5, <2>2, <2>4
  <1>10. CASE ForgetLink(p)
    <2>1. /\ UNCHANGED <<base, handles, netns>> /\ pc[p] = "forget_link"
          /\ pc'[p] \in {"del_link", "net_done"} /\ mem'[p] \subseteq mem[p]
          /\ pc'[p] = "del_link" => "link" \notin mem'[p]
      BY <1>4, <1>10 DEF ForgetLink, Forget, Goto, netVars, kernel
    <2>2. OwnNet(p)' /\ pc'[p] \in Own \ {"record_dir"}
      BY <1>2, <2>1 DEF OwnNet, Before, Undoing, Named, Linked, Cleaning, Own, Teardown, OwnsName
    <2> QED BY <1>3, <1>5, <2>1, <2>2 DEF OwnsName
  <1>11. CASE DeleteVeth(p)
    <2>1. /\ UNCHANGED <<base, handles, netns, mem>> /\ pc[p] = "del_link" /\ pc'[p] = "forget_netns"
      BY <1>4, <1>11 DEF DeleteVeth, DelLink, Goto, netVars
    <2>2. OwnNet(p)' /\ pc'[p] \in Own \ {"record_dir"}
      BY <1>2, <2>1 DEF OwnNet, Before, Undoing, Named, Linked, Cleaning, Own, Teardown, OwnsName
    <2> QED BY <1>3, <1>5, <2>1, <2>2 DEF OwnsName
  <1>12. CASE ForgetNetns(p)
    <2>1. /\ UNCHANGED <<base, handles, netns>> /\ pc[p] = "forget_netns"
          /\ pc'[p] \in {"del_netns", "check_nat"} /\ mem'[p] \subseteq mem[p]
          /\ pc'[p] = "del_netns" => "netns" \notin mem'[p]
      BY <1>4, <1>12 DEF ForgetNetns, Forget, Goto, netVars, kernel
    <2>2. OwnNet(p)' /\ pc'[p] \in Own \ {"record_dir"}
      BY <1>2, <2>1 DEF OwnNet, Net, Before, Undoing, Named, Linked, Cleaning, Own, Teardown, OwnsName
    <2> QED BY <1>3, <1>5, <2>1, <2>2 DEF OwnsName
  <1>13. CASE DeleteNetns(p)
    <2>1. mem' = mem /\ pc[p] = "del_netns" /\ pc'[p] = "check_nat"
      BY <1>4, <1>13 DEF DeleteNetns, Goto
    <2>2. OwnNet(p)' /\ pc'[p] \in Own \ {"record_dir"} /\ mem[p] \intersect Net = {}
      BY <1>2, <2>1 DEF OwnNet, Before, Undoing, Named, Linked, Cleaning, Own, Teardown
    <2> QED BY <1>5, <2>1, <2>2
  <1>14. CASE TeardownCheckNat(p) \/ TeardownDeleteNat(p) \/ ForgetNat(p) \/ CleanupReturns(p)
    <2>1. /\ UNCHANGED <<base, netns>> /\ mem'[p] \subseteq mem[p] /\ pc[p] # "record_dir"
          /\ pc'[p] \in {"forget_nat", "del_nat", "net_done", "rmdir"}
      BY <1>4, <1>14 DEF TeardownCheckNat, TeardownDeleteNat, ForgetNat, Forget, CleanupReturns, CheckNat,
                         DeleteNat, Goto, netVars, kernel, TypeOK
    <2>2. OwnNet(p)' /\ pc'[p] \in Own \ {"record_dir"}
      BY <2>1 DEF OwnNet, Before, Undoing, Named, Linked, Cleaning, Own, Teardown
    <2> QED BY <1>3, <1>5, <2>1, <2>2 DEF OwnsName
  <1>15. CASE RemoveDir(p)
    <2>1. /\ UNCHANGED <<base, netns, mem, rec>> /\ pc[p] = "rmdir" /\ pc'[p] = "undo"
          /\ kept'[p] = {} /\ hold'[p] = FALSE /\ same'[p]
      BY <1>15 DEF RemoveDir, Goto, netVars, kernel, TypeOK
    <2>2. OwnNet(p)'
      BY <1>1, <2>1 DEF OwnNet, Before, Undoing, Named, Linked, Cleaning
    <2>3. OwnsName(p)' <=> OwnsName(p)
      BY <2>1 DEF OwnsName
    <2>4. RecordNet(p)'
      BY <1>1, <1>2, <2>1, <2>3 DEF RecordNet
    <2>5. UndoNet(p)'
      BY <1>1, <1>3, <2>1, <2>3 DEF UndoNet
    <2> QED BY <1>1, <2>2, <2>4, <2>5 DEF KeepsNet
  <1> QED BY <1>6, <1>7, <1>8, <1>9, <1>10, <1>11, <1>12, <1>13, <1>14, <1>15 DEF SetUp, TearDown

(* A step outside the NAT section: it neither enters nor leaves the steps made
   under bridged-nat.lock, and relies on the rules only if it did before. *)
NatIdle(p) ==
    /\ UNCHANGED <<nat, natLock>>
    /\ \A q \in Vms \ {p} : pc'[q] = pc[q]
    /\ pc'[p] \in {"del_nat", "undo_nat"} <=> pc[p] \in {"del_nat", "undo_nat"}
    /\ pc'[p] \in Natted => pc[p] \in Natted

LEMMA IdleNat ==
    ASSUME NatInv, NEW p \in Vms, NatIdle(p) PROVE NatInv'
  BY DEF NatInv, NatIdle

LEMMA NatSteps ==
    ASSUME TypeOK, LockInv, ProcNet, NatInv, NEW p \in Vms, StartPass(p) \/ Step(p) \/ Stop(p)
    PROVE  NatInv'
  <1>1. pc \in [Vms -> PCs] /\ natLock \in Vms \union {Nobody} /\ nat \in BOOLEAN
    BY DEF TypeOK
  <1>2. /\ "undo_nat" \notin Natted /\ "del_nat" \notin Natted /\ "undo" \notin Natted /\ "delete" \notin Natted
        /\ "forget_nat" \notin Natted /\ "net_done" \notin Natted /\ "check_nat" \notin Natted
        /\ "build" \in Natted /\ "forget_link" \notin Natted /\ "ensure_nat" \notin Natted
    BY DEF Natted
  <1>3. ASSUME NEW used, NEW unused, CheckNat(p, used, unused), nat' = nat, pc[p] \notin {"del_nat", "undo_nat"},
               used \notin Natted \union {"del_nat", "undo_nat"}, unused \in {"del_nat", "undo_nat"}
        PROVE  NatInv'
    <2>1. (\E q \in Vms : pc[q] \in Natted) => \E b \in Bases : link[b] # Nobody
      <3>1. ASSUME NEW q \in Vms, pc[q] \in Natted PROVE \E b \in Bases : link[b] # Nobody
        <4>1. OwnNet(q) /\ pc[q] \in Named /\ pc[q] \in Linked
          BY <3>1 DEF ProcNet, Natted, Named, Linked
        <4> QED BY <4>1, ReclaimAssumption DEF OwnNet, OwnsName
      <3> QED BY <3>1
    <2>2. CASE \E b \in Bases : link[b] # Nobody
      <3>1. NatIdle(p)
        BY <1>1, <1>3, <2>2 DEF CheckNat, Goto, NatIdle
      <3> QED BY <3>1, IdleNat
    <2>3. CASE ~ \E b \in Bases : link[b] # Nobody
      <3>1. pc'[p] = unused /\ natLock = Nobody /\ natLock' = p /\ \A q \in Vms \ {p} : pc'[q] = pc[q]
        BY <1>1, <1>3, <2>3 DEF CheckNat, Goto
      <3> QED BY <1>2, <1>3, <2>1, <2>3, <3>1, ReclaimAssumption DEF NatInv
    <2> QED BY <2>2, <2>3
  <1>4. ASSUME NEW s, Goto(p, s), natLock' = Nobody, pc[p] \in {"del_nat", "undo_nat"},
               s \notin Natted \union {"del_nat", "undo_nat"}
        PROVE  NatInv'
    <2>1. natLock = p /\ natLock # Nobody
      BY <1>4, ReclaimAssumption DEF NatInv
    <2>2. \A q \in Vms : pc[q] \notin Natted
      BY <2>1 DEF NatInv
    <2>3. \A q \in Vms : pc'[q] = IF q = p THEN s ELSE pc[q]
      BY <1>1, <1>4 DEF Goto
    <2>4. \A q \in Vms \ {p} : pc[q] \notin {"del_nat", "undo_nat"}
      BY <2>1 DEF NatInv
    <2> QED BY <1>4, <2>2, <2>3, <2>4, ReclaimAssumption DEF NatInv
  <1>5. CASE StartPass(p) \/ Pass(p)
    <2>1. NatIdle(p)
      BY <1>1, <1>5 DEF NatIdle, Natted, StartPass, Pass, VisitOwner, Begin, OpenLock, TakeLock, SkipHeld,
                        ReadRecord, Goto, kernel
    <2> QED BY <2>1, IdleNat
  <1>6. CASE UndoDelete(p)
    <2>1. CASE CheckNat(p, "undo", "undo_nat")
      BY <1>2, <1>3, <1>6, <2>1 DEF UndoDelete
    <2>2. CASE ~ CheckNat(p, "undo", "undo_nat")
      <3>1. NatIdle(p)
        BY <1>1, <1>6, <2>2 DEF NatIdle, Natted, UndoDelete, Goto
      <3> QED BY <3>1, IdleNat
    <2> QED BY <2>1, <2>2
  <1>7. CASE UndoNat(p)
    BY <1>2, <1>4, <1>7 DEF UndoNat, DeleteNat
  <1>8. CASE Undo(p) /\ ~ UndoDelete(p) /\ ~ UndoNat(p)
    <2>1. NatIdle(p)
      <3> USE <1>1, <1>8 DEF NatIdle, Natted, Goto, kernel
      <3>1. CASE UndoDir(p) \/ UndoPasses(p) \/ UndoRetires(p)
        BY <3>1 DEF UndoDir, UndoPasses, UndoRetires
      <3>2. CASE UndoFails(p) \/ Rerecord(p)
        BY <3>2 DEF UndoFails, Rerecord
      <3>3. CASE UndoEnd(p) \/ DeleteRecord(p) \/ DeleteLock(p) \/ SkipUnreadable(p)
        BY <3>3 DEF UndoEnd, DeleteRecord, DeleteLock, SkipUnreadable, Release
      <3> QED BY <3>1, <3>2, <3>3 DEF Undo
    <2> QED BY <2>1, IdleNat
  <1>9. CASE EnsureNat(p)
    <2>1. CASE SetupFails(p) /\ UNCHANGED nat
      <3>1. NatIdle(p)
        BY <1>1, <1>9, <2>1 DEF EnsureNat, SetupFails, Goto, NatIdle, Natted
      <3> QED BY <3>1, IdleNat
    <2>2. CASE nat' = TRUE /\ Goto(p, "build")
      <3>1. natLock = Nobody /\ natLock' = Nobody /\ \A q \in Vms \ {p} : pc'[q] = pc[q]
        BY <1>1, <1>9, <2>2 DEF EnsureNat, Goto
      <3>2. pc'[p] = "build" /\ nat'
        BY <1>1, <2>2 DEF Goto
      <3> QED BY <3>1, <3>2, ReclaimAssumption DEF NatInv
    <2> QED BY <1>9, <2>1, <2>2 DEF EnsureNat
  <1>10. CASE SetUp(p) /\ ~ EnsureNat(p)
    <2>1. NatIdle(p)
      <3> USE <1>1, <1>10 DEF NatIdle, Natted, Goto, kernel
      <3>1. CASE RecordDir(p) \/ MakeDir(p) \/ RecordNat(p) \/ Reserve(p)
        BY <3>1 DEF RecordDir, MakeDir, RecordNat, Reserve, Release
      <3>2. CASE RecordNetns(p) \/ RecordLink(p)
        BY <3>2 DEF RecordNetns, RecordLink, RecordObject, SetupFails
      <3>3. CASE CreateVeth(p) \/ StartHelper(p) \/ Run(p)
        BY <3>3 DEF CreateVeth, StartHelper, Run, SetupFails
      <3> QED BY <3>1, <3>2, <3>3 DEF SetUp
    <2> QED BY <2>1, IdleNat
  <1>11. CASE TeardownCheckNat(p)
    <2>1. CASE CheckNat(p, "forget_nat", "del_nat")
      BY <1>2, <1>3, <1>11, <2>1 DEF TeardownCheckNat
    <2>2. CASE ~ CheckNat(p, "forget_nat", "del_nat")
      <3>1. NatIdle(p)
        BY <1>1, <1>11, <2>2 DEF NatIdle, Natted, TeardownCheckNat, Goto
      <3> QED BY <3>1, IdleNat
    <2> QED BY <2>1, <2>2
  <1>12. CASE TeardownDeleteNat(p)
    BY <1>2, <1>4, <1>12 DEF TeardownDeleteNat, DeleteNat
  <1>13. CASE (TearDown(p) /\ ~ TeardownCheckNat(p) /\ ~ TeardownDeleteNat(p)) \/ Stop(p) \/ HelperExits(p)
    <2>1. NatIdle(p)
      <3> USE <1>1, <1>13 DEF NatIdle, Natted, Goto, kernel
      <3>1. CASE ForgetLink(p) \/ DeleteVeth(p) \/ ForgetNetns(p) \/ DeleteNetns(p) \/ ForgetNat(p)
        BY <3>1 DEF ForgetLink, DeleteVeth, ForgetNetns, DeleteNetns, ForgetNat
      <3>2. CASE CleanupReturns(p) \/ RemoveDir(p) \/ Stop(p) \/ HelperExits(p)
        BY <3>2 DEF CleanupReturns, RemoveDir, Stop, HelperExits
      <3> QED BY <3>1, <3>2 DEF TearDown
    <2> QED BY <2>1, IdleNat
  <1> QED BY <1>5, <1>6, <1>7, <1>8, <1>9, <1>10, <1>11, <1>12, <1>13 DEF Step

(* Whether prepare_vm calls cleanup() again is decided after the setup, and never
   undecided. *)
Deciding(p) == pc[p] \in Before \union Named \/ (pc[p] \in Undoing /\ target[p] # p)

RepeatInv == \A p \in Vms : Deciding(p) => repeat[p] = "no"

LEMMA RepeatStep == TypeOK /\ LockInv /\ RepeatInv /\ [Next]_vars => RepeatInv'
  <1> SUFFICES ASSUME TypeOK, LockInv, RepeatInv, [Next]_vars PROVE RepeatInv'
    OBVIOUS
  <1>1. CASE UNCHANGED vars
    BY <1>1 DEF vars, local, passVars, netVars, RepeatInv, Deciding
  <1>2. CASE Reboot
    BY <1>2 DEF Reboot, netVars, RepeatInv, Deciding, TypeOK, Gone, Before, Named, Linked, Undoing
  <1>3. ASSUME NEW p \in Vms, \A q \in Vms \ {p} : /\ pc'[q] = pc[q] /\ target'[q] = target[q]
                                                     /\ repeat'[q] = repeat[q],
               Deciding(p)' => Deciding(p) /\ repeat'[p] = repeat[p]
        PROVE  RepeatInv'
    BY <1>3 DEF RepeatInv, Deciding
  <1>4. ASSUME NEW p \in Vms, StartPass(p) \/ Pass(p) PROVE RepeatInv'
    <2>1. Frame(p) /\ repeat' = repeat
      BY <1>4, PassFrame DEF StartPass, Pass, VisitOwner, Begin, OpenLock, TakeLock, SkipHeld, ReadRecord, netVars
    <2>2. CASE ReadRecord(p)
      <3>1. \A q \in Vms \ {p} : /\ pc'[q] = pc[q] /\ target'[q] = target[q]
                                 /\ repeat'[q] = repeat[q]
        BY <2>1 DEF Frame
      <3>2. target'[p] = target[p] /\ repeat'[p] = repeat[p]
        BY <2>1, <2>2 DEF ReadRecord, passVars
      <3>3. Deciding(p)' => Deciding(p)
        BY <2>2, <3>2 DEF ReadRecord, TypeOK, Deciding, Goto, Before, Named, Linked, Undoing
      <3> QED BY <1>3, <3>1, <3>2, <3>3
    <2>3. CASE ~ ReadRecord(p)
      <3>1. Deciding(p)
        BY <1>4, <2>3
        DEF StartPass, Pass, VisitOwner, Begin, OpenLock, TakeLock, SkipHeld, Deciding, Before
      <3> QED BY <1>3, <2>1, <3>1 DEF Frame
    <2> QED BY <2>2, <2>3
  <1>5. ASSUME NEW p \in Vms, Undo(p) PROVE RepeatInv'
    <2>1. Frame(p) /\ UNCHANGED <<target, repeat>>
      BY <1>5, UndoFrame
      DEF Undo, SkipUnreadable, UndoDir, UndoPasses, UndoRetires, UndoDelete, UndoNat, UndoFails, Rerecord, UndoEnd,
          DeleteRecord, DeleteLock, passVars, netVars
    <2>2. pc[p] \in Undoing /\ (target[p] = p => pc'[p] \in Undoing \union {"done"})
      <3> USE DEF TypeOK, Goto, Undoing
      <3>1. CASE UndoDir(p) \/ UndoPasses(p) \/ UndoRetires(p)
        BY <3>1 DEF UndoDir, UndoPasses, UndoRetires
      <3>2. CASE UndoDelete(p) \/ UndoNat(p)
        BY <3>2 DEF UndoDelete, UndoNat, CheckNat, DeleteNat
      <3>3. CASE UndoFails(p) \/ Rerecord(p)
        BY <3>3 DEF UndoFails, Rerecord
      <3>4. CASE UndoEnd(p) \/ DeleteRecord(p) \/ DeleteLock(p) \/ SkipUnreadable(p)
        BY <3>4 DEF UndoEnd, DeleteRecord, DeleteLock, SkipUnreadable, Release
      <3> QED BY <1>5, <3>1, <3>2, <3>3, <3>4 DEF Undo
    <2>3. Undoing \intersect (Before \union Named) = {} /\ "done" \notin Before \union Named \union Undoing
      BY DEF Undoing, Before, Named, Linked
    <2> QED BY <1>3, <2>1, <2>2, <2>3 DEF Frame, Deciding
  <1>6. ASSUME NEW p \in Vms, SetUp(p) \/ TearDown(p) \/ Stop(p) PROVE RepeatInv'
    <2>1. Frame(p) /\ target[p] = p /\ target' = target
      BY <1>6, OwnFrame
    <2>2. \A q \in Vms \ {p} : repeat'[q] = repeat[q]
      <3>1. CASE repeat' = repeat
        BY <3>1
      <3>2. CASE SetupFails(p) \/ CleanupReturns(p)
        BY <3>2 DEF SetupFails, CleanupReturns, TypeOK
      <3> QED BY <1>6, <3>1, <3>2
          DEF SetUp, Stop, RecordDir, MakeDir, RecordNat, Reserve, RecordNetns, RecordLink,
              RecordObject, CreateVeth, EnsureNat, StartHelper, Run, TearDown, ForgetLink, DeleteVeth, ForgetNetns,
              DeleteNetns, TeardownCheckNat, TeardownDeleteNat, ForgetNat, RemoveDir, netVars
    <2>3. pc'[p] \in Before \union Named => pc[p] \in Before \union Named /\ repeat'[p] = repeat[p]
      <3> USE DEF TypeOK, Goto, Before, Named, Linked, netVars
      <3>1. CASE RecordDir(p) \/ MakeDir(p) \/ RecordNat(p) \/ Reserve(p)
        BY <2>1, <3>1 DEF RecordDir, MakeDir, RecordNat, Reserve, Release
      <3>2. CASE RecordNetns(p) \/ RecordLink(p)
        BY <3>2 DEF RecordNetns, RecordLink, RecordObject, SetupFails
      <3>3. CASE CreateVeth(p) \/ EnsureNat(p) \/ StartHelper(p) \/ Run(p) \/ Stop(p)
        BY <3>3 DEF CreateVeth, EnsureNat, StartHelper, Run, Stop, SetupFails
      <3>4. CASE TearDown(p)
        BY <3>4 DEF TearDown, ForgetLink, DeleteVeth, ForgetNetns, DeleteNetns, TeardownCheckNat,
                    TeardownDeleteNat, ForgetNat, CleanupReturns, RemoveDir, CheckNat, DeleteNat
      <3> QED BY <1>6, <3>1, <3>2, <3>3, <3>4 DEF SetUp
    <2> QED BY <1>3, <2>1, <2>2, <2>3 DEF Frame, Deciding
  <1>7. ASSUME NEW p \in Vms, HelperExits(p) \/ Kill(p) PROVE RepeatInv'
    <2>1. UNCHANGED repeat /\ \A q \in Vms \ {p} : pc'[q] = pc[q] /\ target'[q] = target[q]
      BY <1>7 DEF HelperExits, Kill, Goto, passVars, netVars, TypeOK
    <2>2. CASE HelperExits(p)
      BY <1>3, <2>1, <2>2 DEF HelperExits, Goto, passVars, TypeOK, Deciding, Named, Linked
    <2>3. CASE Kill(p)
      BY <1>3, <2>1, <2>3 DEF Kill, Goto, TypeOK, Deciding, Before, Named, Linked, Undoing
    <2> QED BY <1>7, <2>2, <2>3
  <1> QED BY <1>1, <1>2, <1>4, <1>5, <1>6, <1>7 DEF Next, Step

(* A second cleanup() is never forgotten. *)
LEMMA CleanBefore ==
    ASSUME TypeOK, RepeatInv, [Next]_vars, Clean' PROVE Clean
  <1>1. CASE UNCHANGED repeat
    BY <1>1 DEF Clean
  <1>2. ASSUME NEW p \in Vms, SetupFails(p), pc[p] \in Named PROVE Clean
    <2>1. repeat[p] = "no"
      BY <1>2 DEF RepeatInv, Deciding
    <2> QED BY <1>2, <2>1 DEF SetupFails, Clean, TypeOK
  <1>3. ASSUME NEW p \in Vms, CleanupReturns(p) PROVE Clean
    BY <1>3 DEF Clean, CleanupReturns, TypeOK
  <1>4. CASE UNCHANGED vars \/ Reboot
    BY <1>1, <1>4 DEF vars, local, netVars, Reboot
  <1>5. ASSUME NEW p \in Vms, StartPass(p) \/ Pass(p) \/ Undo(p) PROVE Clean
    BY <1>1, <1>5 DEF StartPass, Pass, VisitOwner, Begin, OpenLock, TakeLock, SkipHeld, ReadRecord, Undo, SkipUnreadable, UndoDir,
          UndoPasses, UndoRetires, UndoDelete, UndoNat, UndoFails, Rerecord, UndoEnd, DeleteRecord, DeleteLock, netVars
  <1>6. ASSUME NEW p \in Vms, SetUp(p) PROVE Clean
    BY <1>1, <1>2, <1>6 DEF SetUp, RecordDir, MakeDir, RecordNat, Reserve, RecordNetns, RecordLink, RecordObject,
          CreateVeth, EnsureNat, StartHelper, Run, Named, Linked, netVars
  <1>7. ASSUME NEW p \in Vms, TearDown(p) \/ Stop(p) \/ HelperExits(p) \/ Kill(p) PROVE Clean
    BY <1>1, <1>3, <1>7 DEF TearDown, ForgetLink, DeleteVeth, ForgetNetns, DeleteNetns, TeardownCheckNat,
          TeardownDeleteNat, ForgetNat, RemoveDir, Stop, HelperExits, Kill, netVars
  <1> QED BY <1>4, <1>5, <1>6, <1>7 DEF Next, Step

LEMMA EndNet ==
    ASSUME TypeOK, LockInv, NetInv, NEW p \in Vms, HelperExits(p) \/ Kill(p) PROVE ProcNet' /\ NatInv'
  <1>1. /\ UNCHANGED <<rec, boot, netns, link, nat, base, handles, same, hold, cur>>
        /\ \A q \in Vms \ {p} : /\ pc'[q] = pc[q] /\ mem'[q] = mem[q]
                                 /\ kept'[q] = kept[q] /\ target'[q] = target[q]
    <2>1. CASE HelperExits(p)
      BY <2>1 DEF HelperExits, Goto, passVars, undoVars, netVars, files, kernel, env, TypeOK
    <2>2. CASE Kill(p)
      BY <2>2 DEF Kill, Goto, netVars, files, TypeOK
    <2> QED BY <2>1, <2>2
  <1>2. ASSUME NEW q \in Vms PROVE RecordNet(q)'
    <2>1. RecordNet(q) /\ (OwnsName(q)' <=> OwnsName(q))
      BY <1>1 DEF NetInv, OwnsName
    <2> QED BY <1>1, <2>1 DEF RecordNet
  <1>3. ASSUME NEW q \in Vms \ {p} PROVE UndoNet(q)' /\ OwnNet(q)'
    <2>1. UndoNet(q) /\ OwnNet(q)
      BY DEF NetInv
    <2> QED BY <1>1, <2>1 DEF UndoNet, OwnNet, OwnsName
  <1>4. CASE HelperExits(p)
    <2>1. UNCHANGED <<mem, kept, target, natLock>> /\ p \in helpers
          /\ pc'[p] = IF pc[p] = "helping" THEN "running" ELSE pc[p]
      BY <1>4 DEF HelperExits, Goto, undoVars, passVars, kernel, TypeOK
    <2>2. UndoNet(p) /\ OwnNet(p) /\ pc[p] \in {"helping", "dead"}
      BY <2>1 DEF NetInv, LockInv, HelperInv
    <2>3. UndoNet(p)'
      BY <2>1, <2>2 DEF UndoNet, Undone
    <2>4. OwnNet(p)'
      BY <1>1, <2>1, <2>2 DEF OwnNet, OwnsName, Before, Undoing, Named, Linked, Cleaning
    <2>5. NatInv'
      BY <1>1, <2>1, <2>2 DEF NetInv, NatInv, Natted
    <2> QED BY <1>2, <1>3, <2>3, <2>4, <2>5 DEF ProcNet
  <1>5. CASE Kill(p)
    <2>1. pc'[p] = "dead" /\ natLock' = IF natLock = p THEN Nobody ELSE natLock
      BY <1>5 DEF Kill, Goto, TypeOK
    <2>2. UndoNet(p)' /\ OwnNet(p)'
      BY <2>1 DEF UndoNet, OwnNet, Undone, Before, Undoing, Named, Linked, Cleaning
    <2>3. NatInv'
      BY <1>1, <2>1, ReclaimAssumption DEF NetInv, NatInv, Natted
    <2> QED BY <1>2, <1>3, <2>2, <2>3 DEF ProcNet
  <1> QED BY <1>4, <1>5

LEMMA RebootNet ==
    ASSUME TypeOK, NetInv, Reboot PROVE ProcNet' /\ NatInv'
  <1>1. ASSUME NEW q \in Vms PROVE RecordNet(q)' /\ UndoNet(q)' /\ OwnNet(q)'
    <2>1. /\ pc'[q] \in Gone /\ (pc'[q] = "idle" => pc[q] = "idle")
          /\ UNCHANGED <<rec, base, handles>> /\ boot' = boot + 1 /\ boot \in Nat
      BY DEF Reboot, Gone, TypeOK, files, netVars
    <2>2. UndoNet(q)' /\ OwnNet(q)'
      BY <2>1 DEF NetInv, UndoNet, OwnNet, Undone, Before, Undoing, Named, Linked, Cleaning, Gone
    <2>3. RecordNet(q)'
      <3>1. CASE rec[q] = NoRecord
        BY <2>1, <3>1 DEF RecordNet
      <3>2. CASE rec[q] # NoRecord
        <4>1. rec[q].boot <= boot /\ rec[q].boot \in Nat
          BY <3>2 DEF NetInv, RecordNet, TypeOK, Records, Recorded
        <4> QED BY <2>1, <4>1 DEF RecordNet
      <3> QED BY <3>1, <3>2
    <2> QED BY <2>2, <2>3
  <1>2. NatInv'
    BY ReclaimAssumption DEF Reboot, NatInv, Natted, TypeOK, Gone
  <1> QED BY <1>1, <1>2 DEF ProcNet

LEMMA NetStep ==
    TypeOK /\ LockInv /\ DirInv /\ RepeatInv /\ CleanNetInv /\ [Next]_vars => CleanNetInv'
  <1> SUFFICES ASSUME TypeOK, LockInv, DirInv, RepeatInv, CleanNetInv, [Next]_vars, Clean' PROVE NetInv'
    BY DEF CleanNetInv
  <1>1. TypeOK' /\ NetInv /\ ProcNet /\ NatInv /\ \A p \in Vms : repeat'[p] # "done"
    BY CleanBefore, TypeStep DEF CleanNetInv, NetInv, ProcNet, Clean
  <1>2. SUFFICES ProcNet' /\ NatInv'
    BY DEF NetInv, ProcNet
  <1>3. CASE UNCHANGED vars
    BY <1>1, <1>3 DEF vars, local, passVars, undoVars, netVars, files, kernel, env, ProcNet, RecordNet, UndoNet,
                OwnNet, OwnsName, NatInv
  <1>4. ASSUME NEW p \in Vms, Frame(p), NetFrame(p), KeepsNet(p) PROVE ProcNet'
    BY <1>1, <1>4, FrameNet DEF KeepsNet
  <1>5. ASSUME NEW p \in Vms, StartPass(p) \/ Pass(p) PROVE ProcNet'
    BY <1>1, <1>4, <1>5, PassFrame, PassNetFrame, PassKeepsNet
  <1>6. ASSUME NEW p \in Vms, Undo(p) PROVE ProcNet'
    BY <1>1, <1>4, <1>6, UndoFrame, UndoNetFrame, UndoKeepsNet DEF ProcNet
  <1>7. ASSUME NEW p \in Vms, SetUp(p) \/ TearDown(p) \/ Stop(p) PROVE ProcNet'
    BY <1>1, <1>4, <1>7, OwnFrame, OwnNetFrame, OwnKeepsNet DEF ProcNet
  <1>8. ASSUME NEW p \in Vms, StartPass(p) \/ Step(p) \/ Stop(p) PROVE ProcNet' /\ NatInv'
    <2>1. NatInv'
      BY <1>1, <1>8, NatSteps
    <2> QED BY <1>1, <1>5, <1>6, <1>7, <1>8, <2>1, EndNet DEF Step
  <1> QED BY <1>1, <1>3, <1>8, EndNet, RebootNet DEF Next

ReclaimInv == TypeOK /\ LockInv /\ DirInv /\ RepeatInv /\ CleanNetInv

(* Whatever other launches, passes, teardowns and kills do around it, a VM *)
(* that runs keeps its directory, its namespace, its veth and the shared   *)
(* NAT rules, for as long as no failed setup was cleaned up a second time  *)
(* (undo_all, names::reserve, cleanup_global_nat_if_unused).               *)
THEOREM RunningVmsStayIntact == Spec => []RunningIntact
  <1>1. Init => ReclaimInv
    <2>1. Init => RepeatInv
      BY DEF Init, RepeatInv
    <2> QED BY <2>1, TypeInit, LockInit, DirInit, NetInit DEF ReclaimInv
  <1>2. ReclaimInv /\ [Next]_vars => ReclaimInv'
    BY TypeStep, LockStep, DirStep, RepeatStep, NetStep DEF ReclaimInv
  <1>3. ReclaimInv => RunningIntact
    <2> SUFFICES ASSUME ReclaimInv, Clean, NEW p \in Vms, pc[p] = "running" PROVE Intact(p)
      BY DEF RunningIntact, Clean
    <2>1. p \in dirs
      BY DEF ReclaimInv, DirInv, ProcDir, Built
    <2>2. netns[base[p]] = p /\ link[base[p]] = p
      BY DEF ReclaimInv, CleanNetInv, NetInv, OwnNet, Named, Linked, OwnsName
    <2>3. nat
      BY DEF ReclaimInv, CleanNetInv, NetInv, NatInv, Natted
    <2> QED BY <2>1, <2>2, <2>3 DEF Intact
  <1> QED BY <1>1, <1>2, <1>3, PTL DEF Spec
=============================================================================
