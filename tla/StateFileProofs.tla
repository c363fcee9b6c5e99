-------------------------- MODULE StateFileProofs --------------------------
(***************************************************************************)
(* Proofs about StateFile for any set of processes and inodes.             *)
(*                                                                         *)
(* LockInv is the inductive form of PayloadMutex: a process in the payload *)
(* holds the flock, in its mode, of the inode the path names, and flocks   *)
(* of one inode exclude each other.  It needs nothing about the data and   *)
(* holds with aborted monitors too.  DataInv relates the files to what the *)
(* process in the payload has read, and needs monitors that are not        *)
(* aborted (BudgetMayExpire = FALSE): the run state_file_resurrect shows   *)
(* that it fails otherwise.                                                *)
(***************************************************************************)
EXTENDS StateFile, TLAPS

-----------------------------------------------------------------------------
(* Types.                                                                  *)

LEMMA TypeInit == Init => TypeOK
  <1>1. NoOrphan \in Orphans
    BY DEF NoOrphan, Orphans
  <1> QED BY <1>1 DEF Init, TypeOK, PCs, Ops

(* Every operator a step is built from keeps the types. *)
LEMMA BeginType ==
    ASSUME TypeOK, NEW p \in Procs, NEW o \in Ops, Begin(p, o),
           owner' \in {"up", "stopping", "closing", "zombie", "gone"}
    PROVE  TypeOK'
  BY DEF Begin, Goto, TypeOK, PCs

LEMMA StartType ==
    ASSUME TypeOK, NEW p \in Procs, Start(p) PROVE TypeOK'
  BY BeginType
  DEF Start, save_state, update_state, delete_state, cleanup_stale_state,
      with_locked_state, Ops, TypeOK

LEMMA LockStepType ==
    ASSUME TypeOK, NEW p \in Procs,
           open_lock_file(p) \/ lock_existing_state_file(p) \/ Flock(p) \/ CheckInode(p)
    PROVE  TypeOK'
  <1>z. [q \in Procs |-> 0] \in States
    BY DEF States
  <1>f. FirstStep(p) \in PCs
    BY DEF FirstStep, PCs
  <1>1. CASE open_lock_file(p)
    BY <1>1 DEF open_lock_file, Unreferenced, Return, Goto, TypeOK, PCs, Ops
  <1>2. CASE lock_existing_state_file(p)
    BY <1>2 DEF lock_existing_state_file, Return, Goto, TypeOK, PCs, Ops
  <1>3. CASE Flock(p)
    BY <1>3 DEF Flock, Mode, Return, Goto, TypeOK, PCs, Ops
  <1>4. CASE CheckInode(p)
    BY <1>4, <1>z, <1>f DEF CheckInode, Return, Goto, TypeOK, PCs, Ops
  <1> QED BY <1>1, <1>2, <1>3, <1>4

LEMMA UpdatedType ==
    ASSUME NEW p \in Procs, NEW s \in States PROVE Updated(p, s) \in States
  BY DEF Updated, States

LEMMA PayloadStepType ==
    ASSUME TypeOK, NEW p \in Procs,
           \/ ReadState(p) \/ Inspect(p) \/ WriteTemp(p) \/ RenameTemp(p)
           \/ RemoveState(p) \/ RemoveTemp(p) \/ RemoveLock(p) \/ Unlock(p)
    PROVE  TypeOK'
  <1>1. CASE ReadState(p)
    BY <1>1, UpdatedType DEF ReadState, Goto, TypeOK, PCs
  <1>2. CASE Inspect(p) \/ RemoveLock(p) \/ RemoveState(p) \/ RemoveTemp(p)
    BY <1>2 DEF Inspect, RemoveLock, RemoveState, RemoveTemp, Goto, TypeOK, PCs
  <1>3. CASE WriteTemp(p)
    BY <1>3 DEF WriteTemp, Goto, TypeOK, PCs
  <1>4. CASE RenameTemp(p)
    BY <1>4 DEF RenameTemp, Goto, TypeOK, PCs
  <1>5. CASE Unlock(p)
    BY <1>5 DEF Unlock, Return, Goto, TypeOK, PCs, Ops
  <1> QED BY <1>1, <1>2, <1>3, <1>4, <1>5

LEMMA KillType ==
    ASSUME TypeOK, NEW K, Kill(K) PROVE
        /\ state' = state /\ lock' = lock /\ removed' = removed
        /\ tmp' \in States \union {NoState, Torn}
        /\ pc' \in [Procs -> PCs] /\ op' \in [Procs -> Ops]
        /\ fd' \in [Procs -> Inodes \union {NoInode}]
        /\ held' \in [Procs -> {"none", "shared", "exclusive"}]
        /\ buf' \in [Procs -> States \union {NoState, Torn}]
  BY DEF Kill, TypeOK, PCs, Ops

LEMMA OrphanType ==
    ASSUME TypeOK, NEW m \in Procs, OrphanCall \/ stop_health_monitor(m)
    PROVE  TypeOK'
  <1>n. NoOrphan \in Orphans
    BY DEF NoOrphan, Orphans
  <1>1. CASE OrphanCall
    <2>1. orphan.buf \in States \union {NoState, Torn}
      BY DEF TypeOK, Orphans
    <2> QED BY <1>n, <1>1, <2>1 DEF OrphanCall, TypeOK
  <1>2. CASE stop_health_monitor(m)
    <2>1. orphan' \in Orphans
      BY <1>2, ProcsAssumption DEF stop_health_monitor, Orphans, TypeOK
    <2> QED BY <1>2, <2>1 DEF stop_health_monitor, Return, Goto, TypeOK, PCs, Ops
  <1> QED BY <1>1, <1>2

LEMMA TypeStep == TypeOK /\ [Next]_vars => TypeOK'
  <1> SUFFICES ASSUME TypeOK, [Next]_vars PROVE TypeOK'
    OBVIOUS
  <1>1. ASSUME NEW p \in Procs, Start(p) PROVE TypeOK'
    BY <1>1, StartType
  <1>2. ASSUME NEW p \in Procs, Step(p) PROVE TypeOK'
    BY <1>2, LockStepType, PayloadStepType DEF Step
  <1>3. ASSUME NEW p \in Procs, KillClient(p) PROVE TypeOK'
    BY <1>3, KillType DEF KillClient, TypeOK
  <1>4. CASE cleanup_vm \/ ReapOwner
    BY <1>4 DEF cleanup_vm, ReapOwner, TypeOK
  <1>5. CASE KillOwner
    <2>1. NoOrphan \in Orphans
      BY DEF NoOrphan, Orphans
    <2> QED BY <1>5, <2>1, KillType DEF KillOwner, TypeOK
  <1>6. ASSUME NEW m \in Monitors, stop_health_monitor(m) PROVE TypeOK'
    BY <1>6, OrphanType, ProcsAssumption
  <1>7. CASE OrphanCall
    BY <1>7, OrphanType, ProcsAssumption
  <1>8. CASE UNCHANGED vars
    BY <1>8 DEF vars, TypeOK
  <1> QED
    BY <1>1, <1>2, <1>3, <1>4, <1>5, <1>6, <1>7, <1>8 DEF Next

(* The variables of the model stay in their types, for every number of
   processes and inodes. *)
THEOREM TypeCorrect == Spec => []TypeOK
  BY TypeInit, TypeStep, PTL DEF Spec

-----------------------------------------------------------------------------
(* The locks.                                                              *)

(* The steps in which a process holds a flock. *)
Holding == Payload \union {"check", "unlock"}

(* The steps that no reader takes. *)
Writing == {"write", "rename", "rm_state", "rm_tmp", "rm_lock"}

(* What a process has open and holds, by the step it is at. *)
DescriptorInv ==
    \A p \in Procs :
        /\ pc[p] # "idle" => op[p] # "none"
        /\ pc[p] \in {"idle", "open"} => fd[p] = NoInode /\ held[p] = "none"
        /\ pc[p] = "flock" => fd[p] \in Inodes /\ held[p] = "none"
        /\ pc[p] \in Holding => fd[p] \in Inodes /\ held[p] = Mode(p)
        /\ pc[p] \in Writing => op[p] # "with_locked_state"

(* A process in the payload has the lock file open that the path names. *)
PublishedInv == \A p \in Procs : pc[p] \in Payload => fd[p] = lock

(* flock(2): an exclusive flock of an inode is the only one. *)
ExclusionInv ==
    \A p, q \in Procs :
        p # q /\ fd[p] = fd[q] /\ held[p] = "exclusive" => held[q] = "none"

LockInv == TypeOK /\ DescriptorInv /\ PublishedInv /\ ExclusionInv

LEMMA LockInit == Init => LockInv
  <1> SUFFICES ASSUME Init PROVE LockInv
    OBVIOUS
  <1>1. TypeOK
    BY TypeInit
  <1>2. DescriptorInv /\ PublishedInv /\ ExclusionInv
    BY DEF Init, DescriptorInv, PublishedInv, ExclusionInv, Holding, Payload, Writing
  <1> QED BY <1>1, <1>2 DEF LockInv

(* Two processes in the payload are both readers. *)
LEMMA LockInvMutex == LockInv => PayloadMutex
  BY DEF LockInv, DescriptorInv, PublishedInv, ExclusionInv, PayloadMutex, Holding,
         Payload, Mode, TypeOK

(* A step that leaves the flocks, descriptors and the path alone, and takes p from
   one step that holds the flock to another, or into the payload's end. *)
LEMMA HolderMoves ==
    ASSUME LockInv, NEW p \in Procs, NEW label \in PCs,
           pc[p] \in Payload, Goto(p, label), label \in Holding \ {"check"},
           label \in Writing => op[p] # "with_locked_state",
           UNCHANGED <<lock, op, fd, held>>
    PROVE  DescriptorInv' /\ PublishedInv' /\ ExclusionInv'
  BY DEF LockInv, TypeOK, DescriptorInv, PublishedInv, ExclusionInv, Goto, Holding,
         Payload, Writing, Mode, PCs

LEMMA StartLock ==
    ASSUME LockInv, NEW p \in Procs, Start(p)
    PROVE  DescriptorInv' /\ PublishedInv' /\ ExclusionInv'
  <1>1. PICK o \in Ops \ {"none"} : Begin(p, o)
    BY DEF Start, save_state, update_state, delete_state, cleanup_stale_state,
           with_locked_state, Ops
  <1> QED
    BY <1>1 DEF Begin, Goto, LockInv, TypeOK, DescriptorInv, PublishedInv, ExclusionInv,
                Holding, Payload, Writing, Mode, PCs

(* A process that returns gives everything back. *)
LEMMA ReturnLock ==
    ASSUME LockInv, NEW p \in Procs, Return(p), UNCHANGED lock
    PROVE  DescriptorInv' /\ PublishedInv' /\ ExclusionInv'
  BY DEF Return, Goto, LockInv, TypeOK, DescriptorInv, PublishedInv, ExclusionInv,
         Holding, Payload, Writing, Mode, PCs

LEMMA OpenLock ==
    ASSUME LockInv, NEW p \in Procs, open_lock_file(p) \/ lock_existing_state_file(p)
    PROVE  DescriptorInv' /\ PublishedInv' /\ ExclusionInv'
  <1>1. CASE open_lock_file(p) /\ ~Return(p)
    <2>1. lock' \in Inodes
      BY <1>1 DEF open_lock_file, Unreferenced, LockInv, TypeOK
    <2>2. \A q \in Procs : pc[q] \in Payload => lock' = lock
      BY <1>1, ValuesAssumption
      DEF open_lock_file, LockInv, DescriptorInv, PublishedInv, Holding
    <2> QED
      BY <1>1, <2>1, <2>2
      DEF open_lock_file, Goto, LockInv, TypeOK, DescriptorInv, PublishedInv, ExclusionInv,
          Holding, Payload, Writing, Mode, PCs
  <1>2. CASE lock_existing_state_file(p) /\ ~Return(p)
    BY <1>2
    DEF lock_existing_state_file, Goto, LockInv, TypeOK, DescriptorInv, PublishedInv,
        ExclusionInv, Holding, Payload, Writing, Mode, PCs
  <1>3. CASE Return(p) /\ (open_lock_file(p) \/ lock_existing_state_file(p))
    <2>1. UNCHANGED lock
      BY <1>3 DEF open_lock_file, lock_existing_state_file, Return, Goto, LockInv, TypeOK
    <2> QED BY <1>3, <2>1, ReturnLock
  <1> QED BY <1>1, <1>2, <1>3

LEMMA FlockLock ==
    ASSUME LockInv, NEW p \in Procs, Flock(p)
    PROVE  DescriptorInv' /\ PublishedInv' /\ ExclusionInv'
  <1>1. CASE Grantable(p) /\ held' = [held EXCEPT ![p] = Mode(p)] /\ Goto(p, "check")
             /\ UNCHANGED <<op, fd, lock>>
    <2>1. DescriptorInv' /\ PublishedInv'
      BY <1>1 DEF Flock, Goto, LockInv, TypeOK, DescriptorInv, PublishedInv, Holding, Payload,
                  Writing, Mode, PCs
    <2>2. ExclusionInv'
      BY <1>1 DEF Grantable, LockInv, TypeOK, ExclusionInv, Mode
    <2> QED BY <2>1, <2>2
  <1>2. CASE Return(p) /\ UNCHANGED lock
    BY <1>2, ReturnLock
  <1> QED BY <1>1, <1>2 DEF Flock

LEMMA CheckLock ==
    ASSUME LockInv, NEW p \in Procs, CheckInode(p)
    PROVE  DescriptorInv' /\ PublishedInv' /\ ExclusionInv'
  <1>1. CASE lock = fd[p] /\ Goto(p, FirstStep(p)) /\ UNCHANGED <<op, fd, held, lock>>
    <2>1. /\ FirstStep(p) \in Payload
          /\ FirstStep(p) \in Writing => op[p] # "with_locked_state"
      BY DEF CheckInode, FirstStep, LockInv, TypeOK, Ops, Payload, Writing, DescriptorInv
    <2> QED
      BY <1>1, <2>1
      DEF CheckInode, Goto, LockInv, TypeOK, DescriptorInv, PublishedInv, ExclusionInv,
          Holding, Payload, Writing, Mode, PCs
  <1>2. CASE /\ Goto(p, "open") /\ fd' = [fd EXCEPT ![p] = NoInode]
             /\ held' = [held EXCEPT ![p] = "none"] /\ UNCHANGED <<op, lock>>
    BY <1>2
    DEF CheckInode, Goto, LockInv, TypeOK, DescriptorInv, PublishedInv, ExclusionInv,
        Holding, Payload, Writing, Mode, PCs
  <1>3. CASE Return(p) /\ UNCHANGED lock
    BY <1>3, ReturnLock
  <1> QED BY <1>1, <1>2, <1>3 DEF CheckInode

LEMMA PayloadLock ==
    ASSUME LockInv, NEW p \in Procs,
           \/ ReadState(p) \/ Inspect(p) \/ WriteTemp(p) \/ RenameTemp(p)
           \/ RemoveState(p) \/ RemoveTemp(p) \/ RemoveLock(p) \/ Unlock(p)
    PROVE  DescriptorInv' /\ PublishedInv' /\ ExclusionInv'
  <1>0. /\ \A l \in Payload \union {"unlock"} : l \in PCs /\ l \in Holding \ {"check"}
        /\ pc[p] \in Writing => op[p] # "with_locked_state"
        /\ pc[p] \in {"read", "inspect"} \union Writing <=> pc[p] \in Payload
    BY DEF Payload, PCs, Holding, Writing, LockInv, DescriptorInv
  <1>1. CASE ReadState(p)
    <2>1. /\ pc[p] \in Payload
          /\ UNCHANGED <<lock, op, fd, held>>
          /\ \E l \in {"write", "rm_tmp", "rm_state", "inspect", "unlock"} :
                 Goto(p, l) /\ (l \in Writing => op[p] # "with_locked_state")
      BY <1>1 DEF ReadState, Payload, Writing
    <2> QED BY <1>0, <2>1, HolderMoves DEF Payload
  <1>2. CASE Inspect(p)
    BY <1>0, <1>2, HolderMoves DEF Inspect, Payload, Writing
  <1>3. CASE WriteTemp(p)
    BY <1>0, <1>3, HolderMoves DEF WriteTemp, Payload, Writing
  <1>4. CASE RenameTemp(p)
    BY <1>0, <1>4, HolderMoves DEF RenameTemp, Payload, Writing
  <1>5. CASE RemoveState(p)
    BY <1>0, <1>5, HolderMoves DEF RemoveState, Payload, Writing
  <1>6. CASE RemoveTemp(p)
    BY <1>0, <1>6, HolderMoves DEF RemoveTemp, Payload, Writing
  <1>7. CASE RemoveLock(p)
    (* Nobody else is in the payload of the lock that is retired. *)
    <2>1. \A q \in Procs \ {p} : pc[q] \notin Payload
      BY <1>0, <1>7, LockInvMutex DEF RemoveLock, PayloadMutex, Payload, Writing
    <2> QED
      BY <1>7, <2>1
      DEF RemoveLock, Goto, LockInv, TypeOK, DescriptorInv, PublishedInv, ExclusionInv,
          Holding, Payload, Writing, Mode, PCs
  <1>8. CASE Unlock(p)
    BY <1>8, ReturnLock DEF Unlock
  <1> QED BY <1>1, <1>2, <1>3, <1>4, <1>5, <1>6, <1>7, <1>8

LEMMA KillLock ==
    ASSUME LockInv, NEW K, Kill(K)
    PROVE  DescriptorInv' /\ PublishedInv' /\ ExclusionInv'
  BY DEF Kill, LockInv, TypeOK, DescriptorInv, PublishedInv, ExclusionInv, Holding, Payload,
         Writing, Mode

LEMMA LockStep == LockInv /\ [Next]_vars => LockInv'
  <1> SUFFICES ASSUME LockInv, [Next]_vars PROVE LockInv'
    OBVIOUS
  <1>t. TypeOK'
    BY TypeStep DEF LockInv
  <1> SUFFICES DescriptorInv' /\ PublishedInv' /\ ExclusionInv'
    BY <1>t DEF LockInv
  <1>1. ASSUME NEW p \in Procs, Start(p) PROVE DescriptorInv' /\ PublishedInv' /\ ExclusionInv'
    BY <1>1, StartLock
  <1>2. ASSUME NEW p \in Procs, Step(p) PROVE DescriptorInv' /\ PublishedInv' /\ ExclusionInv'
    BY <1>2, OpenLock, FlockLock, CheckLock, PayloadLock DEF Step
  <1>3. ASSUME NEW p \in Procs, KillClient(p)
        PROVE  DescriptorInv' /\ PublishedInv' /\ ExclusionInv'
    BY <1>3, KillLock DEF KillClient
  <1>4. CASE KillOwner
    BY <1>4, KillLock DEF KillOwner
  <1>5. ASSUME NEW m \in Monitors, stop_health_monitor(m)
        PROVE  DescriptorInv' /\ PublishedInv' /\ ExclusionInv'
    BY <1>5, ReturnLock, ProcsAssumption DEF stop_health_monitor
  <1>6. CASE cleanup_vm \/ ReapOwner \/ OrphanCall \/ UNCHANGED vars
    BY <1>6 DEF cleanup_vm, ReapOwner, OrphanCall, vars, LockInv, DescriptorInv, PublishedInv,
                ExclusionInv, Mode
  <1> QED BY <1>1, <1>2, <1>3, <1>4, <1>5, <1>6 DEF Next

(* At most one process works on a VM's files at a time, or several readers do, for
   every number of processes and inodes and with tasks aborted at any await: the
   comparison of inodes in lock_opened_state_file makes the flock of a file that
   delete_state may unlink a lock. *)
THEOREM MutualExclusion == Spec => []PayloadMutex
  <1>1. Spec => []LockInv
    BY LockInit, LockStep, PTL DEF Spec
  <1> QED BY <1>1, LockInvMutex, PTL

-----------------------------------------------------------------------------
(* The data, when no monitor is aborted.                                   *)

(* Which operation is at which step. *)
OperationInv ==
    \A p \in Procs :
        /\ pc[p] = "idle" => op[p] = "none"
        /\ pc[p] = "read" => op[p] \in {"update_state", "cleanup_stale_state", "with_locked_state"}
        /\ pc[p] = "inspect" => op[p] = "with_locked_state"
        /\ pc[p] \in {"write", "rename"} => op[p] \in {"save_state", "update_state"}
        /\ pc[p] = "rm_state" => op[p] \in {"delete_state", "cleanup_stale_state"}
        /\ op[p] = "save_state" => p = Owner /\ owner = "up"
        /\ op[p] = "delete_state" => owner # "up"

(* The state a process is about to write, or has read, is that of the file. *)
BufferInv ==
    \A p \in Procs :
        /\ pc[p] \in {"write", "rename"} /\ op[p] = "save_state" => buf[p] = [q \in Procs |-> 0]
        /\ pc[p] \in {"write", "rename"} /\ op[p] = "update_state"
               => state \in States /\ buf[p] = Updated(p, state)
        /\ pc[p] = "rename" => tmp = buf[p]
        /\ pc[p] = "inspect" => buf[p] = state

(* The removal: of a state whose owner is down, then of its other files. *)
RemovalInv ==
    \A p \in Procs :
        /\ pc[p] = "rm_state" => owner # "up" \/ state = NoState
        /\ pc[p] \in {"rm_tmp", "rm_lock"} => state = NoState

FileInv ==
    /\ orphan.call = "none"
    /\ state # Torn
    /\ state # NoState => lock # NoInode
    /\ removed => owner # "up" /\ state = NoState

ContentInv == OperationInv /\ BufferInv /\ RemovalInv /\ FileInv
DataInv == LockInv /\ ContentInv

LEMMA DataInit == Init => DataInv
  <1> SUFFICES ASSUME Init PROVE ContentInv
    BY LockInit DEF DataInv
  <1> QED
    BY ValuesAssumption
    DEF Init, ContentInv, OperationInv, BufferInv, RemovalInv, FileInv, NoOrphan

(* A process that changes the files is alone in the payload. *)
LEMMA WriterAlone ==
    ASSUME LockInv, NEW p \in Procs, pc[p] \in Writing
    PROVE  \A q \in Procs \ {p} : pc[q] \notin Payload
  <1>1. pc[p] \in Payload /\ op[p] # "with_locked_state"
    BY DEF LockInv, DescriptorInv, Writing, Payload
  <1> QED BY <1>1, LockInvMutex DEF PayloadMutex

LEMMA StartData ==
    ASSUME DataInv, NEW p \in Procs, Start(p) PROVE ContentInv'
  <1> USE DEF DataInv, LockInv, TypeOK, ContentInv
  <1>1. CASE save_state(p)
    BY <1>1 DEF save_state, Begin, Goto, OperationInv, BufferInv, RemovalInv, FileInv
  <1>2. CASE update_state(p) \/ cleanup_stale_state(p) \/ with_locked_state(p)
    BY <1>2 DEF update_state, cleanup_stale_state, with_locked_state, Begin, Goto,
                OperationInv, BufferInv, RemovalInv, FileInv
  <1>3. CASE delete_state(p)
    BY <1>3 DEF delete_state, Begin, Goto, OperationInv, BufferInv, RemovalInv, FileInv
  <1> QED BY <1>1, <1>2, <1>3 DEF Start

(* A process that returns, or is back where it opens the lock file, has no part in
   the data any more. *)
LEMMA ReturnData ==
    ASSUME DataInv, NEW p \in Procs, Return(p),
           UNCHANGED <<state, tmp, lock, owner, orphan, removed>>
    PROVE  ContentInv'
  BY DEF DataInv, LockInv, TypeOK, ContentInv, Return, Goto, OperationInv, BufferInv,
         RemovalInv, FileInv

LEMMA OpenData ==
    ASSUME DataInv, NEW p \in Procs, open_lock_file(p) \/ lock_existing_state_file(p)
    PROVE  ContentInv'
  <1> USE DEF DataInv, LockInv, TypeOK, ContentInv
  <1>1. CASE open_lock_file(p) /\ ~Return(p)
    <2>1. lock' # NoInode
      BY <1>1, ValuesAssumption DEF open_lock_file, Unreferenced
    <2> QED
      BY <1>1, <2>1 DEF open_lock_file, Goto, OperationInv, BufferInv, RemovalInv, FileInv
  <1>2. CASE lock_existing_state_file(p) /\ ~Return(p)
    BY <1>2 DEF lock_existing_state_file, Goto, OperationInv, BufferInv, RemovalInv, FileInv
  <1>3. CASE Return(p) /\ (open_lock_file(p) \/ lock_existing_state_file(p))
    <2>1. UNCHANGED <<state, tmp, lock, owner, orphan, removed>>
      BY <1>3 DEF open_lock_file, lock_existing_state_file, Return, Goto
    <2> QED BY <1>3, <2>1, ReturnData
  <1> QED BY <1>1, <1>2, <1>3

LEMMA FlockData ==
    ASSUME DataInv, NEW p \in Procs, Flock(p) PROVE ContentInv'
  <1> USE DEF DataInv, LockInv, TypeOK, ContentInv
  <1>1. CASE Goto(p, "check") /\ UNCHANGED <<op, fd, buf, state, tmp, lock, owner, orphan, removed>>
    BY <1>1 DEF Goto, Flock, OperationInv, BufferInv, RemovalInv, FileInv
  <1>2. CASE Return(p) /\ UNCHANGED <<state, tmp, lock, owner, orphan, removed>>
    BY <1>2, ReturnData
  <1> QED BY <1>1, <1>2 DEF Flock

LEMMA CheckData ==
    ASSUME DataInv, NEW p \in Procs, CheckInode(p) PROVE ContentInv'
  <1> USE DEF DataInv, LockInv, TypeOK, ContentInv
  <1>1. CASE /\ Goto(p, FirstStep(p))
             /\ buf' = [buf EXCEPT ![p] = IF op[p] = "save_state" THEN [q \in Procs |-> 0] ELSE @]
             /\ UNCHANGED <<op, state, tmp, lock, owner, orphan, removed>>
    <2>1. \/ op[p] = "save_state" /\ FirstStep(p) = "write"
          \/ op[p] = "delete_state" /\ FirstStep(p) = "rm_state"
          \/ /\ op[p] \in {"update_state", "cleanup_stale_state", "with_locked_state"}
             /\ FirstStep(p) = "read"
      BY DEF CheckInode, FirstStep, Ops, DescriptorInv
    <2> QED
      BY <1>1, <2>1 DEF Goto, OperationInv, BufferInv, RemovalInv, FileInv
  <1>2. CASE Goto(p, "open") /\ UNCHANGED <<op, buf, state, tmp, lock, owner, orphan, removed>>
    BY <1>2 DEF CheckInode, Goto, OperationInv, BufferInv, RemovalInv, FileInv
  <1>3. CASE Return(p) /\ UNCHANGED <<state, tmp, lock, owner, orphan, removed>>
    BY <1>3, ReturnData
  <1> QED BY <1>1, <1>2, <1>3 DEF CheckInode

LEMMA ReadData ==
    ASSUME DataInv, NEW p \in Procs, ReadState(p) \/ Inspect(p) PROVE ContentInv'
  <1> USE DEF DataInv, LockInv, TypeOK, ContentInv
  <1>1. CASE Inspect(p)
    BY <1>1 DEF Inspect, Goto, OperationInv, BufferInv, RemovalInv, FileInv
  <1>2. CASE ReadState(p)
    <2>1. UNCHANGED <<state, tmp, lock, op, owner, orphan, removed>> /\ pc[p] = "read"
      BY <1>2 DEF ReadState
    <2>2. CASE /\ op[p] = "update_state" /\ state \in States
               /\ buf' = [buf EXCEPT ![p] = Updated(p, state)] /\ Goto(p, "write")
      BY <2>1, <2>2 DEF Goto, OperationInv, BufferInv, RemovalInv, FileInv
    <2>3. CASE op[p] = "update_state" /\ state = NoState /\ buf' = buf /\ Goto(p, "rm_tmp")
      BY <2>1, <2>3 DEF Goto, OperationInv, BufferInv, RemovalInv, FileInv
    <2>4. CASE op[p] = "cleanup_stale_state" /\ Stale /\ buf' = buf /\ Goto(p, "rm_state")
      BY <2>1, <2>4 DEF Stale, Goto, OperationInv, BufferInv, RemovalInv, FileInv
    <2>5. CASE /\ op[p] = "with_locked_state" /\ state \in States
               /\ buf' = [buf EXCEPT ![p] = state] /\ Goto(p, "inspect")
      BY <2>1, <2>5 DEF Goto, OperationInv, BufferInv, RemovalInv, FileInv
    <2>6. CASE buf' = buf /\ Goto(p, "unlock")
      BY <2>1, <2>6 DEF Goto, OperationInv, BufferInv, RemovalInv, FileInv
    <2> QED BY <1>2, <2>2, <2>3, <2>4, <2>5, <2>6 DEF ReadState
  <1> QED BY <1>1, <1>2

LEMMA WriteData ==
    ASSUME DataInv, NEW p \in Procs, WriteTemp(p) \/ RenameTemp(p) PROVE ContentInv'
  <1> USE DEF DataInv, LockInv, TypeOK, ContentInv
  <1>1. \A q \in Procs \ {p} : pc[q] \notin Payload
    BY WriterAlone DEF WriteTemp, RenameTemp, Writing
  <1>2. CASE WriteTemp(p)
    BY <1>1, <1>2 DEF WriteTemp, Goto, OperationInv, BufferInv, RemovalInv, FileInv, Payload
  <1>3. CASE RenameTemp(p)
    <2>1. /\ lock # NoInode
          /\ buf[p] \in States /\ tmp = buf[p]
          /\ ~removed
      <3>1. pc[p] = "rename" /\ op[p] \in {"save_state", "update_state"}
        BY <1>3 DEF RenameTemp, OperationInv
      <3>2. lock # NoInode
        BY <3>1, ValuesAssumption DEF DescriptorInv, PublishedInv, Holding, Payload
      <3>3. buf[p] \in States /\ tmp = buf[p]
        BY <3>1, UpdatedType DEF BufferInv, States
      <3>4. ~removed
        BY <3>1, ValuesAssumption DEF FileInv, OperationInv, BufferInv
      <3> QED BY <3>2, <3>3, <3>4
    <2> QED
      BY <1>1, <1>3, <2>1, ValuesAssumption
      DEF RenameTemp, Goto, OperationInv, BufferInv, RemovalInv, FileInv, Payload
  <1> QED BY <1>2, <1>3

LEMMA RemoveData ==
    ASSUME DataInv, NEW p \in Procs, RemoveState(p) \/ RemoveTemp(p) \/ RemoveLock(p)
    PROVE  ContentInv'
  <1> USE DEF DataInv, LockInv, TypeOK, ContentInv
  <1>1. \A q \in Procs \ {p} : pc[q] \notin Payload
    BY WriterAlone DEF RemoveState, RemoveTemp, RemoveLock, Writing
  <1>2. CASE RemoveState(p)
    BY <1>1, <1>2, ValuesAssumption
    DEF RemoveState, Goto, OperationInv, BufferInv, RemovalInv, FileInv, Payload
  <1>3. CASE RemoveTemp(p)
    BY <1>1, <1>3 DEF RemoveTemp, Goto, OperationInv, BufferInv, RemovalInv, FileInv, Payload
  <1>4. CASE RemoveLock(p)
    BY <1>1, <1>4 DEF RemoveLock, Goto, OperationInv, BufferInv, RemovalInv, FileInv, Payload
  <1> QED BY <1>2, <1>3, <1>4

(* The killed processes leave the data of the others alone: a write they cut short
   was theirs alone. *)
LEMMA KillData ==
    ASSUME DataInv, NEW K \in SUBSET Procs, Kill(K),
           orphan.call = "none", orphan'.call = "none",
           owner' = owner \/ (owner' # "up" /\ Owner \in K)
    PROVE  ContentInv'
  <1> USE DEF DataInv, LockInv, TypeOK, ContentInv
  <1>1. ASSUME NEW q \in Procs \ K, pc[q] = "rename" PROVE tmp' = tmp
    <2>1. \A r \in Procs \ {q} : pc[r] \notin Payload
      BY <1>1, WriterAlone DEF Writing
    <2> QED BY <1>1, <2>1 DEF Kill, Payload
  <1>2. OperationInv' /\ RemovalInv' /\ FileInv'
    BY DEF Kill, OperationInv, RemovalInv, FileInv
  <1>3. BufferInv'
    BY <1>1 DEF Kill, BufferInv
  <1> QED BY <1>2, <1>3

LEMMA DataStep ==
    ASSUME BudgetMayExpire = FALSE PROVE DataInv /\ [Next]_vars => DataInv'
  <1> SUFFICES ASSUME DataInv, [Next]_vars PROVE ContentInv'
    BY LockStep DEF DataInv
  <1>1. ASSUME NEW p \in Procs, Start(p) PROVE ContentInv'
    BY <1>1, StartData
  <1>2. ASSUME NEW p \in Procs, Step(p) PROVE ContentInv'
    <2>1. CASE Unlock(p)
      BY <2>1, ReturnData DEF Unlock
    <2> QED
      BY <1>2, <2>1, OpenData, FlockData, CheckData, ReadData, WriteData, RemoveData DEF Step
  <1>3. ASSUME NEW p \in Procs, KillClient(p) PROVE ContentInv'
    BY <1>3, KillData DEF KillClient, DataInv, ContentInv, FileInv
  <1>4. CASE KillOwner
    BY <1>4, KillData, ProcsAssumption DEF KillOwner, NoOrphan, DataInv, ContentInv, FileInv
  <1>5. ASSUME NEW m \in Monitors, stop_health_monitor(m) PROVE ContentInv'
    BY <1>5 DEF stop_health_monitor
  <1>6. CASE OrphanCall
    BY <1>6 DEF OrphanCall, DataInv, ContentInv, FileInv
  <1>7. CASE cleanup_vm
    BY <1>7, ProcsAssumption
    DEF cleanup_vm, DataInv, ContentInv, OperationInv, BufferInv, RemovalInv, FileInv
  <1>8. CASE ReapOwner
    BY <1>8 DEF ReapOwner, DataInv, ContentInv, OperationInv, BufferInv, RemovalInv, FileInv
  <1>9. CASE UNCHANGED vars
    BY <1>9 DEF vars, DataInv, ContentInv, OperationInv, BufferInv, RemovalInv, FileInv
  <1> QED BY <1>1, <1>2, <1>3, <1>4, <1>5, <1>6, <1>7, <1>8, <1>9 DEF Next

LEMMA DataInvHolds == ASSUME BudgetMayExpire = FALSE PROVE Spec => []DataInv
  BY DataInit, DataStep, PTL DEF Spec

(* While with_locked_state's caller decides, it decides about the state on disk:
   nothing is written or removed before it returns, if no monitor is aborted. *)
THEOREM DecidesOnCurrent == ASSUME BudgetMayExpire = FALSE PROVE Spec => []InspectedIsCurrent
  <1>1. DataInv => InspectedIsCurrent
    BY DEF DataInv, ContentInv, BufferInv, InspectedIsCurrent
  <1> QED BY <1>1, DataInvHolds, PTL

(* A state file has a lock file until the state is removed, so that list_vms and
   with_locked_state, which find a VM through its lock file, miss none. *)
THEOREM LockFileCovers == ASSUME BudgetMayExpire = FALSE PROVE Spec => []LockCoversState
  <1>1. DataInv => LockCoversState
    BY DEF DataInv, ContentInv, FileInv, LockCoversState
  <1> QED BY <1>1, DataInvHolds, PTL

(* What delete_state removed stays removed, if no monitor is aborted: the claim that
   the run state_file_resurrect refutes for aborted ones. *)
THEOREM RemovedForGood == ASSUME BudgetMayExpire = FALSE PROVE Spec => []NeverResurrected
  <1>1. DataInv => NeverResurrected
    BY DEF DataInv, ContentInv, FileInv, NeverResurrected
  <1> QED BY <1>1, DataInvHolds, PTL

-----------------------------------------------------------------------------
(* The refinement.                                                         *)

(* A step that leaves the state and the history alone stutters, or takes the owner
   down. *)
LEMMA RegisterStutters ==
    ASSUME UNCHANGED <<state, removed>>, owner' = owner \/ owner' # "up"
    PROVE  [Reg!RegNext]_Reg!regVars
  <1>1. CASE (owner' = "up") = (owner = "up")
    BY <1>1 DEF Reg!regVars
  <1>2. CASE owner' # "up"
    BY <1>2 DEF Reg!RegNext, Reg!RegOwnerDown
  <1> QED BY <1>1, <1>2

(* The rename of a save is the register's save, that of an update its update; one
   that fails stutters. *)
LEMMA RenameRefines ==
    ASSUME DataInv, NEW p \in Procs, RenameTemp(p) PROVE [Reg!RegNext]_Reg!regVars
  <1> USE DEF DataInv, LockInv, TypeOK, ContentInv
  <1>1. pc[p] = "rename" /\ tmp = buf[p] /\ op[p] \in {"save_state", "update_state"}
    BY DEF RenameTemp, OperationInv, BufferInv
  <1>2. UNCHANGED <<owner, removed>>
    BY DEF RenameTemp
  <1>5. CASE state' = state
    BY <1>2, <1>5, RegisterStutters
  <1>3. CASE op[p] = "save_state" /\ state' # state
    <2>1. buf[p] = Reg!Blank /\ owner = "up"
      BY <1>1, <1>3 DEF BufferInv, OperationInv, Reg!Blank
    <2>3. state' = Reg!Blank
      BY <1>1, <1>3, <2>1 DEF RenameTemp
    <2> QED BY <1>2, <2>1, <2>3 DEF Reg!RegNext, Reg!RegSave
  <1>4. CASE op[p] = "update_state" /\ state' # state
    <2>1. state \in States /\ buf[p] = Updated(p, state)
      BY <1>1, <1>4 DEF BufferInv
    <2>2. buf[p] # NoState /\ state # NoState
      BY <2>1, UpdatedType, ValuesAssumption
    <2>3. state' = [state EXCEPT ![p] = @ + 1]
      BY <1>1, <1>4, <2>1 DEF RenameTemp, Updated
    <2>4. Reg!RegUpdate(p)
      BY <1>2, <2>2, <2>3 DEF Reg!RegUpdate
    <2> QED BY <2>4 DEF Reg!RegNext
  <1> QED BY <1>1, <1>3, <1>4, <1>5

(* The unlink of an existing state is the register's removal. *)
LEMMA RemoveRefines ==
    ASSUME DataInv, NEW p \in Procs, RemoveState(p) PROVE [Reg!RegNext]_Reg!regVars
  <1>1. CASE state = NoState
    <2>1. UNCHANGED <<state, removed, owner>>
      BY <1>1 DEF RemoveState, DataInv, LockInv, TypeOK
    <2> QED BY <2>1, RegisterStutters
  <1>2. CASE UNCHANGED <<state, removed>>
    <2>1. UNCHANGED <<state, removed, owner>>
      BY <1>2 DEF RemoveState
    <2> QED BY <2>1, RegisterStutters
  <1>3. CASE state # NoState /\ ~UNCHANGED <<state, removed>>
    <2>1. owner # "up" /\ state' = NoState /\ removed' = TRUE /\ owner' = owner
      BY <1>3 DEF RemoveState, DataInv, ContentInv, RemovalInv
    <2> QED BY <2>1 DEF Reg!RegNext, Reg!RegRemove
  <1> QED BY <1>1, <1>2, <1>3

(* Every other step leaves the register alone. *)
LEMMA OthersRefine ==
    ASSUME DataInv, BudgetMayExpire = FALSE,
           \/ \E p \in Procs :
                  \/ Start(p) \/ KillClient(p)
                  \/ open_lock_file(p) \/ lock_existing_state_file(p) \/ Flock(p) \/ CheckInode(p)
                  \/ ReadState(p) \/ Inspect(p) \/ WriteTemp(p) \/ RemoveTemp(p) \/ RemoveLock(p)
                  \/ Unlock(p)
           \/ \E m \in Monitors : stop_health_monitor(m)
           \/ cleanup_vm \/ KillOwner \/ ReapOwner \/ OrphanCall \/ UNCHANGED vars
    PROVE  [Reg!RegNext]_Reg!regVars
  <1>1. UNCHANGED <<state, removed>> /\ (owner' = owner \/ owner' # "up")
    BY DEF Start, save_state, update_state, delete_state, cleanup_stale_state,
           with_locked_state, Begin, KillClient, Kill, open_lock_file,
           lock_existing_state_file, Flock, CheckInode, ReadState, Inspect, WriteTemp,
           RemoveTemp, RemoveLock, Unlock, stop_health_monitor, cleanup_vm, KillOwner,
           ReapOwner, OrphanCall, vars, DataInv, ContentInv, FileInv
  <1> QED BY <1>1, RegisterStutters

(* The files of a VM, written by lock, temporary file, rename and unlink and used by
   any number of processes that may be killed at any step, implement the register:
   whole states, no update lost, removed once and after the owner's end. *)
THEOREM StateFileIsRegister == ASSUME BudgetMayExpire = FALSE PROVE Spec => ImplementsRegister
  <1>1. Init => Reg!RegInit
    BY DEF Init, Reg!RegInit
  <1>2. DataInv /\ [Next]_vars => [Reg!RegNext]_Reg!regVars
    <2> SUFFICES ASSUME DataInv, [Next]_vars PROVE [Reg!RegNext]_Reg!regVars
      OBVIOUS
    <2> QED BY RenameRefines, RemoveRefines, OthersRefine DEF Next, Step
  <1> QED BY <1>1, <1>2, DataInvHolds, PTL DEF Spec, ImplementsRegister, Reg!RegSpec
=============================================================================
