------------------------- MODULE StateRegistryProofs -------------------------
(***************************************************************************)
(* Proofs about StateRegistry, for any VMs, processes, names, PIDs and     *)
(* lookups: type correctness and InstalledStays whatever fails to be read, *)
(* and the uniqueness of names and addresses and the completeness of       *)
(* listings while directories and files can be read.                       *)
(*                                                                         *)
(* The inductive invariant has two layers.  LaunchInv ties the place of a  *)
(* launch to its process, its locks and its files.  RegistryInv says what  *)
(* a listing knows: which files it still owes its caller, what a claim or  *)
(* an allocation in progress has not yet read, and that a VM whose name    *)
(* was already listed under another VM never appears again.                *)
(***************************************************************************)
EXTENDS StateRegistry, TLAPS, NaturalsInduction, WellFoundedInduction

-----------------------------------------------------------------------------
(* Launches, locks and files. *)

InCall == {"clean", "open", "scan", "read", "judge", "write", "release"}

(* Where a call may stand. *)
CallInv ==
    /\ \A v \in Vms :
        /\ op[v] \in {"claim", "alloc"} \union Saves
        /\ pc[v] = "new" => op[v] = "claim"
        /\ pc[v] \in {"wait", "clean"} => op[v] \in {"claim", "alloc"}
        /\ pc[v] = "judge" => op[v] \in {"claim"} \union Saves
        /\ pc[v] \in {"write", "release"} => op[v] \in Saves
    /\ \A c \in Clients :
        /\ op[c] \in Lookups
        /\ pc[c] \in {"new", "clean", "open", "scan", "read"}

(* A launch under way has a live process. *)
LiveInv == \A v \in Vms : pc[v] \notin {"new", "dead"} => proc[OwnerOf[v]] = "live"

Claims(v) == op[v] \in {"claim", "claim_save"} /\ pc[v] \in InCall
Allocates(v) == op[v] \in {"alloc", "alloc_save"} /\ pc[v] \in InCall

(* The locks are held exactly over the check and the write. *)
HeldInv ==
    \A v \in Vms : (names = v <=> Claims(v)) /\ (ips = v <=> Allocates(v))

LaunchInv == TypeOK /\ CallInv /\ LiveInv /\ HeldInv /\ InstalledStays

-----------------------------------------------------------------------------
(* Listings. *)

(* Every state file has its lock file, made before it and removed after it. *)
LockFileInv ==
    /\ file \subseteq lock
    /\ \A v \in Vms :
        /\ pc[v] = "write" => v \in lock
        /\ pc[v] = "retire" => v \notin file

(* A state that was there all along is found by its lock file, then read. *)
ScanInv ==
    \A a \in Actors :
        /\ owed[a] \subseteq file
        /\ pc[a] = "scan" => owed[a] \subseteq seenLock[a]
        /\ pc[a] = "read" => owed[a] \subseteq todo[a] \union got[a]

(* The state files of other VMs under the name of v. *)
Rivals(v) == {w \in file \ {v} : NameOf[w] = NameOf[v]}

(* A claim knows of every rival, or has yet to read it, and none comes. *)
ClaimInv ==
    \A v \in Vms :
        /\ op[v] = "claim" /\ pc[v] \in {"scan", "read"} => Rivals(v) \subseteq owed[v]
        /\ op[v] = "claim" /\ pc[v] = "judge" => Rivals(v) \subseteq got[v]
        /\ op[v] = "claim_save" /\ pc[v] \in InCall => Rivals(v) = {}

(* The launch has made its lock file, or is over. *)
Started(v) ==
    ~(op[v] \in {"claim", "claim_save"}
      /\ pc[v] \in {"new", "wait", "clean", "open", "scan", "read", "judge"})

(* It never writes its state file again. *)
Over(v) == v \notin file /\ ~(pc[v] = "write" /\ op[v] = "claim_save")

StartedInv ==
    /\ \A v \in lock : Started(v)
    /\ \A a \in Actors : \A v \in seenState[a] \union seenLock[a] \union todo[a] \union got[a] :
        Started(v)

(* Of a name already read, the other VMs a listing has found are over. *)
OnceInv ==
    \A a \in Actors : pc[a] = "read" =>
        \A u \in got[a] : \A w \in todo[a] \union got[a] :
            u # w /\ NameOf[u] = NameOf[w] => Over(w) /\ w \notin got[a]

(* The address in a state file is the one its launch has chosen. *)
WantInv ==
    \A v \in Vms :
        /\ op[v] \in {"claim", "claim_save", "alloc"} => want[v] = NoIp
        /\ v \in file /\ (op[v] = "net_save" \/ pc[v] = "release") => ip[v] = want[v]

(* An allocation knows every address in use, or has yet to read it. *)
AllocInv ==
    \A v \in Vms : \A w \in file \ {v} : ip[w] # NoIp =>
        /\ op[v] = "alloc" /\ pc[v] = "scan" => w \in owed[v]
        /\ op[v] = "alloc" /\ pc[v] = "read" => w \in todo[v] \/ ip[w] \in used[v]
        /\ op[v] = "alloc_save" /\ pc[v] \in InCall => ip[w] # want[v]

RegistryInv ==
    /\ LockFileInv /\ ScanInv /\ ClaimInv /\ StartedInv /\ OnceInv
    /\ WantInv /\ AllocInv /\ NamesUnique /\ IpsUnique
-----------------------------------------------------------------------------
(* The address that allocate_loopback_ip chooses is not in use. *)
LEMMA FreeIpIsFree ==
    ASSUME TypeOK, NEW v \in Vms, Ips \ used[v] # {}
    PROVE  FreeIp(v) \in Ips \ used[v]
  <1> DEFINE S == Ips \ used[v]
  <1>1. S \subseteq Nat /\ S # {}
    BY RegistryAssumption DEF Ips
  <1>2. \E x \in S : \A y \in S : ~(y < x)
    <2> DEFINE R == OpToRel(<, Nat)
    <2>1. \E x \in S : \A y \in S : <<y, x>> \notin R
      <3> HIDE DEF S, R
      <3>1. IsWellFoundedOn(R, Nat)
        BY NatLessThanWellFounded DEF R
      <3> QED BY <1>1, <3>1, WFMin
    <2> HIDE DEF S
    <2>2. \A x, y \in S : y < x => <<y, x>> \in R
      BY <1>1 DEF OpToRel
    <2> HIDE DEF R
    <2> QED BY <2>1, <2>2
  <1> HIDE DEF S
  <1>3. Min(S) \in S
    <2>1. \E x \in S : \A y \in S : x =< y
      BY <1>1, <1>2
    <2> QED BY <2>1 DEF Min
  <1> QED BY <1>3 DEF S, FreeIp

(* The plan of a run and what it says. *)
LEMMA PlanStays ==
    ASSUME LaunchInv, Next
    PROVE  /\ plan' = plan /\ plan \in Plans /\ ReadErrors' = ReadErrors
           /\ OwnerOf' = OwnerOf /\ PidOf' = PidOf /\ NameOf' = NameOf /\ WantsIp' = WantsIp
           /\ OwnerOf \in [Vms -> Procs] /\ WantsIp \subseteq Vms
  BY RegistryAssumption DEF LaunchInv, TypeOK, Next, OwnerOf, PidOf, NameOf, WantsIp, ReadErrors

(* LaunchInv is inductive, whether or not directories and files can be read. *)
LEMMA LaunchInvStep ==
    ASSUME LaunchInv, Next
    PROVE  LaunchInv'
  <1> USE RegistryAssumption DEF LaunchInv, TypeOK, Actors, Saves, Lookups, None, procVars,
      dirVars, lockVars, listVars
  <1>plan. /\ plan' = plan /\ plan \in Plans /\ ReadErrors' = ReadErrors
           /\ OwnerOf' = OwnerOf /\ PidOf' = PidOf /\ NameOf' = NameOf /\ WantsIp' = WantsIp
           /\ OwnerOf \in [Vms -> Procs] /\ WantsIp \subseteq Vms
    BY PlanStays
  <1> USE <1>plan
  <1>1. ASSUME NEW p \in Procs, StartProc(p) PROVE LaunchInv'
    <2>1. TypeOK'
      BY <1>1 DEF StartProc, PCs, Ops
    <2>2. CallInv' /\ LiveInv'
      BY <1>1 DEF StartProc, CallInv, LiveInv
    <2>3. HeldInv' /\ InstalledStays'
      BY <1>1 DEF StartProc, CallInv, HeldInv, Claims, Allocates, InCall, InstalledStays,
          Installed
    <2> QED BY <2>1, <2>2, <2>3 DEF LaunchInv
  <1>2. ASSUME NEW p \in Procs, ExitProc(p) PROVE LaunchInv'
    <2>1. TypeOK'
      BY <1>2 DEF ExitProc, PCs, Ops
    <2>2. CallInv' /\ LiveInv'
      BY <1>2 DEF ExitProc, CallInv, LiveInv
    <2>3. HeldInv' /\ InstalledStays'
      BY <1>2 DEF ExitProc, CallInv, HeldInv, Claims, Allocates, InCall, InstalledStays,
          Installed
    <2> QED BY <2>1, <2>2, <2>3 DEF LaunchInv
  <1>3. ASSUME NEW p \in Procs, ReapProc(p) PROVE LaunchInv'
    <2>1. TypeOK'
      BY <1>3 DEF ReapProc, PCs, Ops
    <2>2. CallInv' /\ LiveInv'
      BY <1>3 DEF ReapProc, CallInv, LiveInv
    <2>3. HeldInv' /\ InstalledStays'
      BY <1>3 DEF ReapProc, CallInv, HeldInv, Claims, Allocates, InCall, InstalledStays,
          Installed
    <2> QED BY <2>1, <2>2, <2>3 DEF LaunchInv
  <1>4. ASSUME NEW a \in Actors, OpenDir(a) PROVE LaunchInv'
    <2>1. TypeOK'
      BY <1>4 DEF OpenDir, Goto, PCs, Ops
    <2>2. CallInv' /\ LiveInv'
      BY <1>4 DEF OpenDir, Goto, CallInv, LiveInv
    <2>3. HeldInv' /\ InstalledStays'
      BY <1>4 DEF OpenDir, Goto, CallInv, HeldInv, Claims, Allocates, InCall, InstalledStays,
          Installed
    <2> QED BY <2>1, <2>2, <2>3 DEF LaunchInv
  <1>5. ASSUME NEW a \in Actors, ReadDir(a) PROVE LaunchInv'
    <2>1. TypeOK'
      BY <1>5 DEF ReadDir, Goto, Found, PCs, Ops
    <2>2. CallInv' /\ LiveInv'
      BY <1>5 DEF ReadDir, Goto, Found, CallInv, LiveInv
    <2>3. HeldInv' /\ InstalledStays'
      BY <1>5 DEF ReadDir, Goto, Found, CallInv, HeldInv, Claims, Allocates, InCall,
          InstalledStays, Installed
    <2> QED BY <2>1, <2>2, <2>3 DEF LaunchInv
  <1>6. ASSUME NEW a \in Actors, ListFails(a) PROVE LaunchInv'
    <2>1. TypeOK'
      BY <1>6 DEF ListFails, Goto, PCs, Ops
    <2>2. CallInv'
      BY <1>6, SMTT(30) DEF ListFails, Goto, CallInv
    <2>3. LiveInv'
      BY <1>6, SMTT(30) DEF ListFails, Goto, LiveInv
    <2>4. HeldInv' /\ InstalledStays'
      BY <1>6 DEF ListFails, Goto, CallInv, HeldInv, Claims, Allocates, InCall, InstalledStays,
          Installed
    <2> QED BY <2>1, <2>2, <2>3, <2>4 DEF LaunchInv
  <1>7. ASSUME NEW a \in Actors, CleanupDone(a) PROVE LaunchInv'
    <2>1. TypeOK'
      BY <1>7 DEF CleanupDone, Goto, PCs, Ops
    <2>2. CallInv' /\ LiveInv'
      BY <1>7 DEF CleanupDone, Goto, CallInv, LiveInv
    <2>3. HeldInv' /\ InstalledStays'
      BY <1>7 DEF CleanupDone, Goto, CallInv, HeldInv, Claims, Allocates, InCall,
          InstalledStays, Installed
    <2> QED BY <2>1, <2>2, <2>3 DEF LaunchInv
  <1>8. ASSUME NEW a \in Actors, NEW x \in Vms, ReadFile(a, x) PROVE LaunchInv'
    <2>1. TypeOK'
      BY <1>8, SMTT(30) DEF ReadFile, PCs, Ops
    <2>2. CallInv' /\ LiveInv'
      BY <1>8 DEF ReadFile, CallInv, LiveInv
    <2>3. HeldInv' /\ InstalledStays'
      BY <1>8 DEF ReadFile, CallInv, HeldInv, Claims, Allocates, InCall, InstalledStays,
          Installed
    <2> QED BY <2>1, <2>2, <2>3 DEF LaunchInv
  <1>9. ASSUME NEW a \in Actors, NEW x \in Vms, SkipFile(a, x) PROVE LaunchInv'
    <2>1. TypeOK'
      BY <1>9 DEF SkipFile, PCs, Ops
    <2>2. CallInv' /\ LiveInv'
      BY <1>9 DEF SkipFile, CallInv, LiveInv
    <2>3. HeldInv' /\ InstalledStays'
      BY <1>9 DEF SkipFile, CallInv, HeldInv, Claims, Allocates, InCall, InstalledStays,
          Installed
    <2> QED BY <2>1, <2>2, <2>3 DEF LaunchInv
  <1>10. ASSUME NEW a \in Actors, NEW x \in Vms, cleanup_stale_state(a, x) PROVE LaunchInv'
    <2>1. TypeOK'
      BY <1>10 DEF cleanup_stale_state, Remove, Without, Stale, PCs, Ops
    <2>2. CallInv' /\ LiveInv'
      BY <1>10 DEF cleanup_stale_state, Remove, Without, Stale, CallInv, LiveInv
    <2>3. HeldInv' /\ InstalledStays'
      BY <1>10 DEF cleanup_stale_state, Remove, Without, Stale, CallInv, LiveInv, HeldInv,
          Claims, Allocates, InCall, InstalledStays, Installed
    <2> QED BY <2>1, <2>2, <2>3 DEF LaunchInv
  <1>11. ASSUME NEW v \in Vms, Launch(v) PROVE LaunchInv'
    <2>1. TypeOK'
      BY <1>11 DEF Launch, Goto, PCs, Ops
    <2>2. CallInv' /\ LiveInv'
      BY <1>11 DEF Launch, Goto, CallInv, LiveInv
    <2>3. HeldInv' /\ InstalledStays'
      BY <1>11 DEF Launch, Goto, CallInv, HeldInv, Claims, Allocates, InCall, InstalledStays,
          Installed
    <2> QED BY <2>1, <2>2, <2>3 DEF LaunchInv
  <1>12. ASSUME NEW v \in Vms, claim_name(v) PROVE LaunchInv'
    <2>1. TypeOK'
      BY <1>12 DEF claim_name, Goto, PCs, Ops
    <2>2. CallInv' /\ LiveInv'
      BY <1>12 DEF claim_name, Goto, CallInv, LiveInv
    <2>3. HeldInv' /\ InstalledStays'
      BY <1>12 DEF claim_name, Goto, CallInv, HeldInv, Claims, Allocates, InCall,
          InstalledStays, Installed
    <2> QED BY <2>1, <2>2, <2>3 DEF LaunchInv
  <1>13. ASSUME NEW v \in Vms, allocate_loopback_ip(v) PROVE LaunchInv'
    <2>1. TypeOK'
      BY <1>13 DEF allocate_loopback_ip, Goto, PCs, Ops
    <2>2. CallInv' /\ LiveInv'
      BY <1>13 DEF allocate_loopback_ip, Goto, CallInv, LiveInv
    <2>3. HeldInv' /\ InstalledStays'
      BY <1>13 DEF allocate_loopback_ip, Goto, CallInv, HeldInv, Claims, Allocates, InCall,
          InstalledStays, Installed
    <2> QED BY <2>1, <2>2, <2>3 DEF LaunchInv
  <1>14. ASSUME NEW v \in Vms, JudgeList(v) PROVE LaunchInv'
    <2>1. TypeOK'
      BY <1>14 DEF JudgeList, Goto, Listed, EndList, Judged, PCs, Ops
    <2>2. CallInv' /\ LiveInv'
      BY <1>14 DEF JudgeList, Goto, Listed, EndList, Judged, CallInv, LiveInv
    <2>3. HeldInv' /\ InstalledStays'
      BY <1>14 DEF JudgeList, Goto, Listed, EndList, Judged, CallInv, HeldInv, Claims,
          Allocates, InCall, InstalledStays, Installed
    <2> QED BY <2>1, <2>2, <2>3 DEF LaunchInv
  <1>15. ASSUME NEW v \in Vms, ClaimFree(v) PROVE LaunchInv'
    <2>1. TypeOK'
      BY <1>15 DEF ClaimFree, Goto, Call, ClaimChecked, PCs, Ops
    <2>2. CallInv' /\ LiveInv'
      BY <1>15 DEF ClaimFree, Goto, Call, ClaimChecked, CallInv, LiveInv
    <2>3. HeldInv' /\ InstalledStays'
      BY <1>15 DEF ClaimFree, Goto, Call, ClaimChecked, CallInv, HeldInv, Claims, Allocates,
          InCall, InstalledStays, Installed
    <2> QED BY <2>1, <2>2, <2>3 DEF LaunchInv
  <1>16. ASSUME NEW v \in Vms, ChooseIp(v) PROVE LaunchInv'
    <2>1. TypeOK'
      BY <1>16, FreeIpIsFree DEF ChooseIp, Goto, Call, Listed, EndList, PCs, Ops
    <2>2. CallInv' /\ LiveInv'
      BY <1>16 DEF ChooseIp, Goto, Call, Listed, EndList, CallInv, LiveInv
    <2>3. HeldInv' /\ InstalledStays'
      BY <1>16 DEF ChooseIp, Goto, Call, Listed, EndList, CallInv, HeldInv, Claims, Allocates,
          InCall, InstalledStays, Installed
    <2> QED BY <2>1, <2>2, <2>3 DEF LaunchInv
  <1>17. ASSUME NEW v \in Vms, IpsExhausted(v) PROVE LaunchInv'
    <2>1. TypeOK'
      BY <1>17 DEF IpsExhausted, Goto, Listed, EndList, FailLaunch, PCs, Ops
    <2>2. CallInv' /\ LiveInv'
      BY <1>17 DEF IpsExhausted, Goto, Listed, EndList, FailLaunch, CallInv, LiveInv
    <2>3. HeldInv' /\ InstalledStays'
      BY <1>17 DEF IpsExhausted, Goto, Listed, EndList, FailLaunch, CallInv, HeldInv, Claims,
          Allocates, InCall, InstalledStays, Installed
    <2> QED BY <2>1, <2>2, <2>3 DEF LaunchInv
  <1>18. ASSUME NEW v \in Vms, NEW x \in Vms, ClaimRefused(v, x) PROVE LaunchInv'
    <2>1. TypeOK'
      BY <1>18 DEF ClaimRefused, Goto, FailLaunch, PCs, Ops
    <2>2. CallInv' /\ LiveInv'
      BY <1>18 DEF ClaimRefused, Goto, FailLaunch, CallInv, LiveInv
    <2>3. HeldInv' /\ InstalledStays'
      BY <1>18 DEF ClaimRefused, Goto, FailLaunch, CallInv, HeldInv, Claims, Allocates, InCall,
          InstalledStays, Installed
    <2> QED BY <2>1, <2>2, <2>3 DEF LaunchInv
  <1>19. ASSUME NEW v \in Vms, NEW x \in Vms, JudgeState(v, x) PROVE LaunchInv'
    <2>1. TypeOK'
      BY <1>19 DEF JudgeState, DropJudged, owner_is_live, Remove, Without, PCs, Ops
    <2>2. CallInv' /\ LiveInv'
      BY <1>19 DEF JudgeState, DropJudged, owner_is_live, Remove, Without, CallInv, LiveInv
    <2>3. HeldInv' /\ InstalledStays'
      BY <1>19 DEF JudgeState, DropJudged, owner_is_live, Remove, Without, CallInv, LiveInv,
          HeldInv, Claims, Allocates, InCall, InstalledStays, Installed
    <2> QED BY <2>1, <2>2, <2>3 DEF LaunchInv
  <1>20. ASSUME NEW v \in Vms, save_state(v) PROVE LaunchInv'
    <2>1. TypeOK'
      BY <1>20 DEF save_state, Goto, MakeLock, PCs, Ops
    <2>2. CallInv' /\ LiveInv'
      BY <1>20 DEF save_state, Goto, MakeLock, CallInv, LiveInv
    <2>3. HeldInv' /\ InstalledStays'
      BY <1>20 DEF save_state, Goto, MakeLock, CallInv, HeldInv, Claims, Allocates, InCall,
          InstalledStays, Installed
    <2> QED BY <2>1, <2>2, <2>3 DEF LaunchInv
  <1>21. ASSUME NEW v \in Vms, RenameIntoPlace(v) PROVE LaunchInv'
    <2>1. TypeOK'
      BY <1>21 DEF RenameIntoPlace, Goto, Without, PCs, Ops
    <2>2. CallInv' /\ LiveInv'
      BY <1>21 DEF RenameIntoPlace, Goto, Without, CallInv, LiveInv
    <2>3. HeldInv' /\ InstalledStays'
      BY <1>21 DEF RenameIntoPlace, Goto, Without, CallInv, HeldInv, Claims, Allocates, InCall,
          InstalledStays, Installed
    <2> QED BY <2>1, <2>2, <2>3 DEF LaunchInv
  <1>22. ASSUME NEW v \in Vms, SetupFails(v) PROVE LaunchInv'
    <2>1. TypeOK'
      BY <1>22 DEF SetupFails, Goto, FailLaunch, PCs, Ops
    <2>2. CallInv' /\ LiveInv'
      BY <1>22 DEF SetupFails, Goto, FailLaunch, CallInv, LiveInv
    <2>3. HeldInv' /\ InstalledStays'
      BY <1>22 DEF SetupFails, Goto, FailLaunch, CallInv, HeldInv, Claims, Allocates, InCall,
          InstalledStays, Installed
    <2> QED BY <2>1, <2>2, <2>3 DEF LaunchInv
  <1>23. ASSUME NEW v \in Vms, Saved(v) PROVE LaunchInv'
    <2>1. TypeOK'
      BY <1>23, SMTT(60) DEF Saved, Goto, Call, PCs, Ops
    <2>2. CallInv'
      BY <1>23, SMTT(30) DEF Saved, Goto, Call, CallInv
    <2>3. LiveInv'
      BY <1>23 DEF Saved, Goto, Call, LiveInv
    <2>4. HeldInv' /\ InstalledStays'
      BY <1>23 DEF Saved, Goto, Call, CallInv, HeldInv, Claims, Allocates, InCall,
          InstalledStays, Installed
    <2> QED BY <2>1, <2>2, <2>3, <2>4 DEF LaunchInv
  <1>24. ASSUME NEW v \in Vms, Stop(v) PROVE LaunchInv'
    <2>1. TypeOK'
      BY <1>24 DEF Stop, Goto, PCs, Ops
    <2>2. CallInv' /\ LiveInv'
      BY <1>24 DEF Stop, Goto, CallInv, LiveInv
    <2>3. HeldInv' /\ InstalledStays'
      BY <1>24 DEF Stop, Goto, CallInv, HeldInv, Claims, Allocates, InCall, InstalledStays,
          Installed
    <2> QED BY <2>1, <2>2, <2>3 DEF LaunchInv
  <1>25. ASSUME NEW v \in Vms, RemoveState(v) PROVE LaunchInv'
    <2>1. TypeOK'
      BY <1>25 DEF RemoveState, Goto, Without, PCs, Ops
    <2>2. CallInv' /\ LiveInv'
      BY <1>25 DEF RemoveState, Goto, Without, CallInv, LiveInv
    <2>3. HeldInv' /\ InstalledStays'
      BY <1>25 DEF RemoveState, Goto, Without, CallInv, HeldInv, Claims, Allocates, InCall,
          InstalledStays, Installed
    <2> QED BY <2>1, <2>2, <2>3 DEF LaunchInv
  <1>26. ASSUME NEW v \in Vms, RemoveLock(v) PROVE LaunchInv'
    <2>1. TypeOK'
      BY <1>26 DEF RemoveLock, Goto, Without, PCs, Ops
    <2>2. CallInv' /\ LiveInv'
      BY <1>26 DEF RemoveLock, Goto, Without, CallInv, LiveInv
    <2>3. HeldInv' /\ InstalledStays'
      BY <1>26 DEF RemoveLock, Goto, Without, CallInv, HeldInv, Claims, Allocates, InCall,
          InstalledStays, Installed
    <2> QED BY <2>1, <2>2, <2>3 DEF LaunchInv
  <1>27. ASSUME NEW v \in Vms, DeleteFails(v) PROVE LaunchInv'
    <2>1. TypeOK'
      BY <1>27 DEF DeleteFails, Goto, PCs, Ops
    <2>2. CallInv' /\ LiveInv'
      BY <1>27 DEF DeleteFails, Goto, CallInv, LiveInv
    <2>3. HeldInv' /\ InstalledStays'
      BY <1>27 DEF DeleteFails, Goto, CallInv, HeldInv, Claims, Allocates, InCall,
          InstalledStays, Installed
    <2> QED BY <2>1, <2>2, <2>3 DEF LaunchInv
  <1>28. ASSUME NEW v \in Vms, update_state(v) PROVE LaunchInv'
    <2>1. TypeOK'
      BY <1>28 DEF update_state, Without, PCs, Ops
    <2>2. CallInv' /\ LiveInv'
      BY <1>28 DEF update_state, Without, CallInv, LiveInv
    <2>3. HeldInv' /\ InstalledStays'
      BY <1>28 DEF update_state, Without, CallInv, HeldInv, Claims, Allocates, InCall,
          InstalledStays, Installed
    <2> QED BY <2>1, <2>2, <2>3 DEF LaunchInv
  <1>29. ASSUME NEW c \in Clients, LookupListed(c) PROVE LaunchInv'
    <2> PICK to \in {"clean", "new"}, call \in Lookups :
          pc' = [pc EXCEPT ![c] = to] /\ op' = [op EXCEPT ![c] = call]
      BY <1>29 DEF LookupListed, Call, Goto
    <2> Listed(c) /\ EndList(c, {}) /\ UNCHANGED <<procVars, lockVars, want>>
      BY <1>29 DEF LookupListed
    <2> \A v \in Vms : v \in Actors /\ v # c
      OBVIOUS
    <2>1. TypeOK'
      BY DEF Listed, EndList, PCs, Ops
    <2>2. CallInv' /\ LiveInv'
      BY DEF Listed, EndList, CallInv, LiveInv
    <2>3. HeldInv' /\ InstalledStays'
      BY DEF Listed, EndList, CallInv, HeldInv, Claims, Allocates, InCall, InstalledStays,
          Installed
    <2> QED BY <2>1, <2>2, <2>3 DEF LaunchInv
  <1>30. ASSUME NEW c \in Clients, NEW call \in Lookups, Lookup(c, call) PROVE LaunchInv'
    <2>1. TypeOK'
      BY <1>30 DEF Lookup, Goto, Call, PCs, Ops
    <2>2. CallInv' /\ LiveInv'
      BY <1>30 DEF Lookup, Goto, Call, CallInv, LiveInv
    <2>3. HeldInv' /\ InstalledStays'
      BY <1>30 DEF Lookup, Goto, Call, CallInv, HeldInv, Claims, Allocates, InCall,
          InstalledStays, Installed
    <2> QED BY <2>1, <2>2, <2>3 DEF LaunchInv
  <1> HIDE DEF LaunchInv, TypeOK, Actors, Saves, Lookups, None, procVars, dirVars, lockVars,
      listVars
  <1> QED BY <1>1, <1>2, <1>3, <1>4, <1>5, <1>6, <1>7, <1>8, <1>9, <1>10, <1>11, <1>12, <1>13,
      <1>14, <1>15, <1>16, <1>17, <1>18, <1>19, <1>20, <1>21, <1>22, <1>23, <1>24, <1>25, <1>26,
      <1>27, <1>28, <1>29, <1>30 DEF Next, Listing, Launching

(* RegistryInv is inductive as long as everything can be read. *)
LEMMA RegistryInvStep ==
    ASSUME ~ReadErrors, LaunchInv, LaunchInv', RegistryInv, Next
    PROVE  RegistryInv'
  <1> USE RegistryAssumption DEF LaunchInv, RegistryInv, TypeOK, CallInv, Actors, Saves,
      Lookups, None, procVars, dirVars, lockVars, listVars
  <1>plan. /\ plan' = plan /\ plan \in Plans /\ ReadErrors' = ReadErrors
           /\ OwnerOf' = OwnerOf /\ PidOf' = PidOf /\ NameOf' = NameOf /\ WantsIp' = WantsIp
           /\ OwnerOf \in [Vms -> Procs] /\ WantsIp \subseteq Vms
    BY PlanStays
  <1> USE <1>plan
  <1>1. ASSUME NEW p \in Procs, StartProc(p) PROVE RegistryInv'
    <2>1. LockFileInv' /\ ScanInv' /\ StartedInv'
      BY <1>1 DEF StartProc, LockFileInv, ScanInv, StartedInv, Started
    <2>2. ClaimInv' /\ NamesUnique'
      BY <1>1 DEF StartProc, ClaimInv, Rivals, InCall, NamesUnique
    <2>3. OnceInv'
      BY <1>1 DEF StartProc, OnceInv, Over
    <2>4. WantInv' /\ AllocInv' /\ IpsUnique'
      BY <1>1 DEF StartProc, AllocInv, WantInv, IpsUnique, InCall
    <2> QED BY <2>1, <2>2, <2>3, <2>4 DEF RegistryInv
  <1>2. ASSUME NEW p \in Procs, ExitProc(p) PROVE RegistryInv'
    <2>1. LockFileInv' /\ ScanInv' /\ StartedInv'
      BY <1>2 DEF ExitProc, LockFileInv, ScanInv, StartedInv, Started
    <2>2. ClaimInv' /\ NamesUnique'
      BY <1>2 DEF ExitProc, ClaimInv, Rivals, ScanInv, HeldInv, Claims, InCall, InstalledStays,
          Installed, NamesUnique
    <2>3. OnceInv'
      <3>1. \A w \in Vms : Over(w) => Over(w)'
        BY <1>2 DEF ExitProc, Over
      <3>2. \A b \in Actors : pc'[b] = "read" => pc[b] = "read"
        BY <1>2 DEF ExitProc
      <3>3. todo' = todo /\ got' = got
        BY <1>2 DEF ExitProc
      <3>4. \A b \in Actors : todo[b] \subseteq Vms /\ got[b] \subseteq Vms
        OBVIOUS
      <3> HIDE DEF LaunchInv, TypeOK, CallInv, Saves, Lookups
      <3> QED BY <3>1, <3>2, <3>3, <3>4 DEF OnceInv
    <2>4. WantInv' /\ AllocInv' /\ IpsUnique'
      BY <1>2 DEF ExitProc, AllocInv, WantInv, IpsUnique, InCall
    <2> QED BY <2>1, <2>2, <2>3, <2>4 DEF RegistryInv
  <1>3. ASSUME NEW p \in Procs, ReapProc(p) PROVE RegistryInv'
    <2>1. LockFileInv' /\ ScanInv' /\ StartedInv'
      BY <1>3 DEF ReapProc, LockFileInv, ScanInv, StartedInv, Started
    <2>2. ClaimInv' /\ NamesUnique'
      BY <1>3 DEF ReapProc, ClaimInv, Rivals, InCall, NamesUnique
    <2>3. OnceInv'
      BY <1>3 DEF ReapProc, OnceInv, Over
    <2>4. WantInv' /\ AllocInv' /\ IpsUnique'
      BY <1>3 DEF ReapProc, AllocInv, WantInv, IpsUnique, InCall
    <2> QED BY <2>1, <2>2, <2>3, <2>4 DEF RegistryInv
  <1>4. ASSUME NEW a \in Actors, OpenDir(a) PROVE RegistryInv'
    <2>1. LockFileInv' /\ ScanInv' /\ StartedInv'
      BY <1>4 DEF OpenDir, Goto, LockFileInv, ScanInv, StartedInv, Started
    <2>2. ClaimInv' /\ NamesUnique'
      BY <1>4 DEF OpenDir, Goto, ClaimInv, Rivals, InCall, NamesUnique
    <2>3. OnceInv'
      BY <1>4 DEF OpenDir, Goto, OnceInv, Over
    <2>4. WantInv' /\ AllocInv' /\ IpsUnique'
      BY <1>4 DEF OpenDir, Goto, AllocInv, WantInv, IpsUnique, InCall
    <2> QED BY <2>1, <2>2, <2>3, <2>4 DEF RegistryInv
  <1>5. ASSUME NEW a \in Actors, ReadDir(a) PROVE RegistryInv'
    <2>1. LockFileInv' /\ ScanInv' /\ StartedInv'
      BY <1>5 DEF ReadDir, Goto, Found, LockFileInv, ScanInv, StartedInv, Started
    <2>2. ClaimInv' /\ NamesUnique'
      BY <1>5 DEF ReadDir, Goto, Found, ClaimInv, Rivals, InCall, NamesUnique
    <2>3. OnceInv'
      BY <1>5 DEF ReadDir, Goto, Found, OnceInv, Over
    <2>4. WantInv' /\ AllocInv' /\ IpsUnique'
      BY <1>5 DEF ReadDir, Goto, Found, AllocInv, WantInv, IpsUnique, ScanInv, HeldInv,
          Allocates, InCall, InstalledStays, Installed, NoIp
    <2> QED BY <2>1, <2>2, <2>3, <2>4 DEF RegistryInv
  <1>6. ASSUME NEW a \in Actors, ListFails(a) PROVE RegistryInv'
    BY <1>6 DEF ListFails
  <1>7. ASSUME NEW a \in Actors, CleanupDone(a) PROVE RegistryInv'
    <2>1. LockFileInv' /\ ScanInv' /\ StartedInv'
      BY <1>7 DEF CleanupDone, Goto, LockFileInv, ScanInv, StartedInv, Started
    <2>2. ClaimInv' /\ NamesUnique'
      BY <1>7 DEF CleanupDone, Goto, ClaimInv, Rivals, InCall, NamesUnique
    <2>3. OnceInv'
      BY <1>7 DEF CleanupDone, Goto, OnceInv, Over
    <2>4. WantInv' /\ AllocInv' /\ IpsUnique'
      BY <1>7 DEF CleanupDone, Goto, AllocInv, WantInv, IpsUnique, InCall
    <2> QED BY <2>1, <2>2, <2>3, <2>4 DEF RegistryInv
  <1>8. ASSUME NEW a \in Actors, NEW x \in Vms, ReadFile(a, x) PROVE RegistryInv'
    <2>1. LockFileInv' /\ ScanInv' /\ StartedInv'
      BY <1>8 DEF ReadFile, LockFileInv, ScanInv, StartedInv, Started
    <2>2. ClaimInv' /\ NamesUnique'
      BY <1>8 DEF ReadFile, ClaimInv, Rivals, InCall, NamesUnique
    <2>3. OnceInv'
      BY <1>8 DEF ReadFile, OnceInv, Over, StartedInv, Started, NamesUnique, ClaimInv, Rivals,
          InCall, InstalledStays, Installed
    <2>4. WantInv' /\ AllocInv' /\ IpsUnique'
      BY <1>8 DEF ReadFile, AllocInv, WantInv, IpsUnique, InCall
    <2> QED BY <2>1, <2>2, <2>3, <2>4 DEF RegistryInv
  <1>9. ASSUME NEW a \in Actors, NEW x \in Vms, SkipFile(a, x) PROVE RegistryInv'
    BY <1>9 DEF SkipFile
  <1>10. ASSUME NEW a \in Actors, NEW x \in Vms, cleanup_stale_state(a, x) PROVE RegistryInv'
    <2>1. LockFileInv'
      BY <1>10 DEF cleanup_stale_state, Remove, Without, Stale, LiveInv, LockFileInv, ScanInv,
          StartedInv, Started, InstalledStays, Installed
    <2>2. ScanInv'
      BY <1>10 DEF cleanup_stale_state, Remove, Without, Stale, LockFileInv, ScanInv
    <2>3. StartedInv'
      BY <1>10 DEF cleanup_stale_state, Remove, Without, Stale, StartedInv, Started
    <2>4. ClaimInv' /\ NamesUnique'
      BY <1>10 DEF cleanup_stale_state, Remove, Without, Stale, ClaimInv, Rivals, InCall,
          NamesUnique
    <2>5. OnceInv'
      BY <1>10 DEF cleanup_stale_state, Remove, Without, Stale, OnceInv, Over
    <2>6. WantInv' /\ AllocInv' /\ IpsUnique'
      BY <1>10 DEF cleanup_stale_state, Remove, Without, Stale, AllocInv, WantInv, IpsUnique,
          InCall
    <2> QED BY <2>1, <2>2, <2>3, <2>4, <2>5, <2>6 DEF RegistryInv
  <1>11. ASSUME NEW v \in Vms, Launch(v) PROVE RegistryInv'
    <2>1. LockFileInv' /\ ScanInv' /\ StartedInv'
      BY <1>11 DEF Launch, Goto, LockFileInv, ScanInv, StartedInv, Started
    <2>2. ClaimInv' /\ NamesUnique'
      BY <1>11 DEF Launch, Goto, ClaimInv, Rivals, InCall, NamesUnique
    <2>3. OnceInv'
      BY <1>11 DEF Launch, Goto, OnceInv, Over
    <2>4. WantInv' /\ AllocInv' /\ IpsUnique'
      BY <1>11 DEF Launch, Goto, AllocInv, WantInv, IpsUnique, InCall
    <2> QED BY <2>1, <2>2, <2>3, <2>4 DEF RegistryInv
  <1>12. ASSUME NEW v \in Vms, claim_name(v) PROVE RegistryInv'
    <2>1. LockFileInv' /\ ScanInv' /\ StartedInv'
      BY <1>12 DEF claim_name, Goto, LockFileInv, ScanInv, StartedInv, Started
    <2>2. ClaimInv' /\ NamesUnique'
      BY <1>12 DEF claim_name, Goto, ClaimInv, Rivals, ScanInv, HeldInv, Claims, InCall,
          InstalledStays, Installed, NamesUnique
    <2>3. OnceInv'
      <3>1. \A w \in Vms : Over(w) => Over(w)'
        BY <1>12 DEF claim_name, Goto, Over
      <3>2. \A b \in Actors : pc'[b] = "read" => pc[b] = "read"
        BY <1>12 DEF claim_name, Goto
      <3>3. todo' = todo /\ got' = got
        BY <1>12 DEF claim_name
      <3>4. \A b \in Actors : todo[b] \subseteq Vms /\ got[b] \subseteq Vms
        OBVIOUS
      <3> HIDE DEF LaunchInv, TypeOK, CallInv, Saves, Lookups
      <3> QED BY <3>1, <3>2, <3>3, <3>4 DEF OnceInv
    <2>4. WantInv' /\ AllocInv' /\ IpsUnique'
      BY <1>12 DEF claim_name, Goto, AllocInv, WantInv, IpsUnique, ScanInv, HeldInv, Allocates,
          InCall, InstalledStays, Installed, NoIp
    <2> QED BY <2>1, <2>2, <2>3, <2>4 DEF RegistryInv
  <1>13. ASSUME NEW v \in Vms, allocate_loopback_ip(v) PROVE RegistryInv'
    <2>1. LockFileInv' /\ ScanInv' /\ StartedInv'
      BY <1>13 DEF allocate_loopback_ip, Goto, LockFileInv, ScanInv, StartedInv, Started
    <2>2. ClaimInv' /\ NamesUnique'
      BY <1>13 DEF allocate_loopback_ip, Goto, ClaimInv, Rivals, ScanInv, HeldInv, Claims,
          InCall, InstalledStays, Installed, NamesUnique
    <2>3. OnceInv'
      <3>1. \A w \in Vms : Over(w) => Over(w)'
        BY <1>13 DEF allocate_loopback_ip, Goto, Over
      <3>2. \A b \in Actors : pc'[b] = "read" => pc[b] = "read"
        BY <1>13 DEF allocate_loopback_ip, Goto
      <3>3. todo' = todo /\ got' = got
        BY <1>13 DEF allocate_loopback_ip
      <3>4. \A b \in Actors : todo[b] \subseteq Vms /\ got[b] \subseteq Vms
        OBVIOUS
      <3> HIDE DEF LaunchInv, TypeOK, CallInv, Saves, Lookups
      <3> QED BY <3>1, <3>2, <3>3, <3>4 DEF OnceInv
    <2>4. WantInv' /\ AllocInv' /\ IpsUnique'
      BY <1>13 DEF allocate_loopback_ip, Goto, AllocInv, WantInv, IpsUnique, ScanInv, HeldInv,
          Allocates, InCall, InstalledStays, Installed, NoIp
    <2> QED BY <2>1, <2>2, <2>3, <2>4 DEF RegistryInv
  <1>14. ASSUME NEW v \in Vms, JudgeList(v) PROVE RegistryInv'
    <2>1. LockFileInv' /\ ScanInv' /\ StartedInv'
      BY <1>14 DEF JudgeList, Goto, Listed, EndList, Judged, LockFileInv, ScanInv, StartedInv,
          Started
    <2>2. ClaimInv' /\ NamesUnique'
      BY <1>14 DEF JudgeList, Goto, Listed, EndList, Judged, ClaimInv, Rivals, ScanInv, HeldInv,
          Claims, InCall, InstalledStays, Installed, NamesUnique
    <2>3. OnceInv'
      BY <1>14 DEF JudgeList, Goto, Listed, EndList, Judged, OnceInv, Over
    <2>4. WantInv' /\ AllocInv' /\ IpsUnique'
      BY <1>14 DEF JudgeList, Goto, Listed, EndList, Judged, AllocInv, WantInv, IpsUnique,
          InCall
    <2> QED BY <2>1, <2>2, <2>3, <2>4 DEF RegistryInv
  <1>15. ASSUME NEW v \in Vms, ClaimFree(v) PROVE RegistryInv'
    <2>1. LockFileInv' /\ ScanInv' /\ StartedInv'
      BY <1>15 DEF ClaimFree, Goto, Call, ClaimChecked, LockFileInv, ScanInv, StartedInv,
          Started
    <2>2. ClaimInv' /\ NamesUnique'
      BY <1>15 DEF ClaimFree, Goto, Call, ClaimChecked, ClaimInv, Rivals, InCall, NamesUnique
    <2>3. OnceInv'
      BY <1>15 DEF ClaimFree, Goto, Call, ClaimChecked, OnceInv, Over
    <2>4. WantInv' /\ AllocInv' /\ IpsUnique'
      BY <1>15 DEF ClaimFree, Goto, Call, ClaimChecked, AllocInv, WantInv, IpsUnique, InCall
    <2> QED BY <2>1, <2>2, <2>3, <2>4 DEF RegistryInv
  <1>16. ASSUME NEW v \in Vms, ChooseIp(v) PROVE RegistryInv'
    <2>1. LockFileInv' /\ ScanInv' /\ StartedInv'
      BY <1>16 DEF ChooseIp, Goto, Call, Listed, EndList, LockFileInv, ScanInv, StartedInv,
          Started
    <2>2. ClaimInv' /\ NamesUnique'
      BY <1>16 DEF ChooseIp, Goto, Call, Listed, EndList, ClaimInv, Rivals, InCall, NamesUnique
    <2>3. OnceInv'
      BY <1>16 DEF ChooseIp, Goto, Call, Listed, EndList, OnceInv, Over
    <2>4. WantInv'
      BY <1>16 DEF ChooseIp, Goto, Call, Listed, EndList, WantInv
    <2>5. AllocInv'
      BY <1>16, FreeIpIsFree DEF ChooseIp, Goto, Call, Listed, EndList, AllocInv, WantInv,
          InCall
    <2>6. IpsUnique'
      BY <1>16 DEF ChooseIp, Goto, Call, Listed, EndList, IpsUnique
    <2> QED BY <2>1, <2>2, <2>3, <2>4, <2>5, <2>6 DEF RegistryInv
  <1>17. ASSUME NEW v \in Vms, IpsExhausted(v) PROVE RegistryInv'
    <2>1. LockFileInv' /\ ScanInv' /\ StartedInv'
      BY <1>17 DEF IpsExhausted, Goto, Listed, EndList, FailLaunch, LockFileInv, ScanInv,
          StartedInv, Started
    <2>2. ClaimInv' /\ NamesUnique'
      BY <1>17 DEF IpsExhausted, Goto, Listed, EndList, FailLaunch, ClaimInv, Rivals, InCall,
          NamesUnique
    <2>3. OnceInv'
      BY <1>17 DEF IpsExhausted, Goto, Listed, EndList, FailLaunch, OnceInv, Over
    <2>4. WantInv' /\ AllocInv' /\ IpsUnique'
      BY <1>17 DEF IpsExhausted, Goto, Listed, EndList, FailLaunch, AllocInv, WantInv,
          IpsUnique, InCall
    <2> QED BY <2>1, <2>2, <2>3, <2>4 DEF RegistryInv
  <1>18. ASSUME NEW v \in Vms, NEW x \in Vms, ClaimRefused(v, x) PROVE RegistryInv'
    <2>1. LockFileInv' /\ ScanInv' /\ StartedInv'
      BY <1>18 DEF ClaimRefused, Goto, FailLaunch, LockFileInv, ScanInv, StartedInv, Started
    <2>2. ClaimInv' /\ NamesUnique'
      BY <1>18 DEF ClaimRefused, Goto, FailLaunch, ClaimInv, Rivals, InCall, NamesUnique
    <2>3. OnceInv'
      BY <1>18 DEF ClaimRefused, Goto, FailLaunch, OnceInv, Over
    <2>4. WantInv' /\ AllocInv' /\ IpsUnique'
      BY <1>18 DEF ClaimRefused, Goto, FailLaunch, AllocInv, WantInv, IpsUnique, InCall
    <2> QED BY <2>1, <2>2, <2>3, <2>4 DEF RegistryInv
  <1>19. ASSUME NEW v \in Vms, NEW x \in Vms, JudgeState(v, x) PROVE RegistryInv'
    <2>1. LockFileInv' /\ ScanInv' /\ StartedInv'
      BY <1>19 DEF JudgeState, DropJudged, owner_is_live, Remove, Without, LiveInv, LockFileInv,
          ScanInv, StartedInv, Started, InstalledStays, Installed
    <2>2. ClaimInv' /\ NamesUnique'
      BY <1>19 DEF JudgeState, DropJudged, owner_is_live, Remove, Without, ClaimInv, Rivals,
          InCall, NamesUnique
    <2>3. OnceInv'
      BY <1>19 DEF JudgeState, DropJudged, owner_is_live, Remove, Without, OnceInv, Over
    <2>4. WantInv' /\ AllocInv' /\ IpsUnique'
      BY <1>19 DEF JudgeState, DropJudged, owner_is_live, Remove, Without, AllocInv, WantInv,
          IpsUnique, InCall
    <2> QED BY <2>1, <2>2, <2>3, <2>4 DEF RegistryInv
  <1>20. ASSUME NEW v \in Vms, save_state(v) PROVE RegistryInv'
    <2>1. LockFileInv' /\ ScanInv' /\ StartedInv'
      BY <1>20 DEF save_state, Goto, MakeLock, LockFileInv, ScanInv, StartedInv, Started
    <2>2. ClaimInv' /\ NamesUnique'
      BY <1>20 DEF save_state, Goto, MakeLock, ClaimInv, Rivals, InCall, NamesUnique
    <2>3. OnceInv'
      BY <1>20 DEF save_state, Goto, MakeLock, OnceInv, Over, StartedInv, Started, NamesUnique,
          ClaimInv, Rivals, InCall, InstalledStays, Installed
    <2>4. WantInv' /\ AllocInv' /\ IpsUnique'
      BY <1>20 DEF save_state, Goto, MakeLock, AllocInv, WantInv, IpsUnique, InCall
    <2> QED BY <2>1, <2>2, <2>3, <2>4 DEF RegistryInv
  <1>21. ASSUME NEW v \in Vms, RenameIntoPlace(v) PROVE RegistryInv'
    <2>1. LockFileInv' /\ ScanInv' /\ StartedInv'
      BY <1>21 DEF RenameIntoPlace, Goto, Without, LockFileInv, ScanInv, StartedInv, Started
    <2>2. ClaimInv' /\ NamesUnique'
      BY <1>21 DEF RenameIntoPlace, Goto, Without, ClaimInv, Rivals, ScanInv, HeldInv, Claims,
          InCall, InstalledStays, Installed, NamesUnique
    <2>3. OnceInv'
      BY <1>21 DEF RenameIntoPlace, Goto, Without, OnceInv, Over, StartedInv, Started,
          NamesUnique, ClaimInv, Rivals, InCall, InstalledStays, Installed
    <2>4. WantInv' /\ AllocInv' /\ IpsUnique'
      BY <1>21 DEF RenameIntoPlace, Goto, Without, AllocInv, WantInv, IpsUnique, ScanInv,
          HeldInv, Allocates, InCall, InstalledStays, Installed, NoIp
    <2> QED BY <2>1, <2>2, <2>3, <2>4 DEF RegistryInv
  <1>22. ASSUME NEW v \in Vms, SetupFails(v) PROVE RegistryInv'
    <2>1. LockFileInv' /\ ScanInv' /\ StartedInv'
      BY <1>22 DEF SetupFails, Goto, FailLaunch, LockFileInv, ScanInv, StartedInv, Started
    <2>2. ClaimInv' /\ NamesUnique'
      BY <1>22 DEF SetupFails, Goto, FailLaunch, ClaimInv, Rivals, InCall, NamesUnique
    <2>3. OnceInv'
      BY <1>22 DEF SetupFails, Goto, FailLaunch, OnceInv, Over
    <2>4. WantInv' /\ AllocInv' /\ IpsUnique'
      BY <1>22 DEF SetupFails, Goto, FailLaunch, AllocInv, WantInv, IpsUnique, InCall
    <2> QED BY <2>1, <2>2, <2>3, <2>4 DEF RegistryInv
  <1>23. ASSUME NEW v \in Vms, Saved(v) PROVE RegistryInv'
    <2>1. \A w \in Vms : Started(w) => Started(w)'
      BY <1>23 DEF Saved, Call, Goto, Started
    <2>2. LockFileInv'
      BY <1>23 DEF Saved, Goto, Call, LockFileInv
    <2>3. ScanInv'
      BY <1>23 DEF Saved, Goto, Call, LockFileInv, ScanInv
    <2>4. StartedInv'
      BY <1>23, <2>1 DEF Saved, Goto, Call, StartedInv, Started
    <2>5. ClaimInv' /\ NamesUnique'
      BY <1>23 DEF Saved, Goto, Call, ClaimInv, Rivals, InCall, NamesUnique
    <2>6. OnceInv'
      BY <1>23 DEF Saved, Goto, Call, OnceInv, Over
    <2>7. WantInv' /\ AllocInv' /\ IpsUnique'
      BY <1>23 DEF Saved, Goto, Call, AllocInv, WantInv, IpsUnique, InCall
    <2> QED BY <2>2, <2>3, <2>4, <2>5, <2>6, <2>7 DEF RegistryInv
  <1>24. ASSUME NEW v \in Vms, Stop(v) PROVE RegistryInv'
    <2>1. LockFileInv' /\ ScanInv' /\ StartedInv'
      BY <1>24 DEF Stop, Goto, LockFileInv, ScanInv, StartedInv, Started
    <2>2. ClaimInv' /\ NamesUnique'
      BY <1>24 DEF Stop, Goto, ClaimInv, Rivals, InCall, NamesUnique
    <2>3. OnceInv'
      BY <1>24 DEF Stop, Goto, OnceInv, Over
    <2>4. WantInv' /\ AllocInv' /\ IpsUnique'
      BY <1>24 DEF Stop, Goto, AllocInv, WantInv, IpsUnique, InCall
    <2> QED BY <2>1, <2>2, <2>3, <2>4 DEF RegistryInv
  <1>25. ASSUME NEW v \in Vms, RemoveState(v) PROVE RegistryInv'
    <2>1. LockFileInv' /\ ScanInv' /\ StartedInv'
      BY <1>25 DEF RemoveState, Goto, Without, LockFileInv, ScanInv, StartedInv, Started
    <2>2. ClaimInv' /\ NamesUnique'
      BY <1>25 DEF RemoveState, Goto, Without, ClaimInv, Rivals, InCall, NamesUnique
    <2>3. OnceInv'
      BY <1>25 DEF RemoveState, Goto, Without, OnceInv, Over
    <2>4. WantInv' /\ AllocInv' /\ IpsUnique'
      BY <1>25 DEF RemoveState, Goto, Without, AllocInv, WantInv, IpsUnique, InCall
    <2> QED BY <2>1, <2>2, <2>3, <2>4 DEF RegistryInv
  <1>26. ASSUME NEW v \in Vms, RemoveLock(v) PROVE RegistryInv'
    <2>1. LockFileInv' /\ ScanInv' /\ StartedInv'
      BY <1>26 DEF RemoveLock, Goto, Without, LockFileInv, ScanInv, StartedInv, Started
    <2>2. ClaimInv' /\ NamesUnique'
      BY <1>26 DEF RemoveLock, Goto, Without, ClaimInv, Rivals, InCall, NamesUnique
    <2>3. OnceInv'
      BY <1>26 DEF RemoveLock, Goto, Without, OnceInv, Over
    <2>4. WantInv' /\ AllocInv' /\ IpsUnique'
      BY <1>26 DEF RemoveLock, Goto, Without, AllocInv, WantInv, IpsUnique, InCall
    <2> QED BY <2>1, <2>2, <2>3, <2>4 DEF RegistryInv
  <1>27. ASSUME NEW v \in Vms, DeleteFails(v) PROVE RegistryInv'
    <2>1. LockFileInv' /\ ScanInv' /\ StartedInv'
      BY <1>27 DEF DeleteFails, Goto, LockFileInv, ScanInv, StartedInv, Started
    <2>2. ClaimInv' /\ NamesUnique'
      BY <1>27 DEF DeleteFails, Goto, ClaimInv, Rivals, InCall, NamesUnique
    <2>3. OnceInv'
      BY <1>27 DEF DeleteFails, Goto, OnceInv, Over
    <2>4. WantInv' /\ AllocInv' /\ IpsUnique'
      BY <1>27 DEF DeleteFails, Goto, AllocInv, WantInv, IpsUnique, InCall
    <2> QED BY <2>1, <2>2, <2>3, <2>4 DEF RegistryInv
  <1>28. ASSUME NEW v \in Vms, update_state(v) PROVE RegistryInv'
    <2>1. LockFileInv' /\ ScanInv' /\ StartedInv'
      BY <1>28 DEF update_state, Without, LockFileInv, ScanInv, StartedInv, Started
    <2>2. ClaimInv' /\ NamesUnique'
      BY <1>28 DEF update_state, Without, ClaimInv, Rivals, InCall, NamesUnique
    <2>3. OnceInv'
      BY <1>28 DEF update_state, Without, OnceInv, Over
    <2>4. WantInv' /\ AllocInv' /\ IpsUnique'
      BY <1>28 DEF update_state, Without, AllocInv, WantInv, IpsUnique, InCall
    <2> QED BY <2>1, <2>2, <2>3, <2>4 DEF RegistryInv
  <1>29. ASSUME NEW c \in Clients, LookupListed(c) PROVE RegistryInv'
    <2> PICK to \in {"clean", "new"}, call \in Lookups :
          pc' = [pc EXCEPT ![c] = to] /\ op' = [op EXCEPT ![c] = call]
      BY <1>29 DEF LookupListed, Call, Goto
    <2> Listed(c) /\ EndList(c, {}) /\ UNCHANGED <<procVars, lockVars, want>>
      BY <1>29 DEF LookupListed
    <2> \A v \in Vms : v \in Actors /\ v # c
      OBVIOUS
    <2> \A v \in Vms : pc'[v] = pc[v] /\ op'[v] = op[v]
      OBVIOUS
    <2>1. LockFileInv'
      BY DEF Listed, EndList, LockFileInv
    <2>2. ScanInv'
      BY DEF Listed, EndList, LockFileInv, ScanInv
    <2>3. StartedInv'
      BY DEF Listed, EndList, StartedInv, Started
    <2>4. ClaimInv' /\ NamesUnique'
      BY DEF Listed, EndList, ClaimInv, Rivals, InCall, NamesUnique
    <2>5. OnceInv'
      BY DEF Listed, EndList, OnceInv, Over
    <2>6. WantInv' /\ AllocInv' /\ IpsUnique'
      BY DEF Listed, EndList, AllocInv, WantInv, IpsUnique, InCall
    <2> QED BY <2>1, <2>2, <2>3, <2>4, <2>5, <2>6 DEF RegistryInv
  <1>30. ASSUME NEW c \in Clients, NEW call \in Lookups, Lookup(c, call) PROVE RegistryInv'
    <2>1. LockFileInv' /\ ScanInv' /\ StartedInv'
      BY <1>30 DEF Lookup, Goto, Call, LockFileInv, ScanInv, StartedInv, Started
    <2>2. ClaimInv' /\ NamesUnique'
      BY <1>30 DEF Lookup, Goto, Call, ClaimInv, Rivals, InCall, NamesUnique
    <2>3. OnceInv'
      BY <1>30 DEF Lookup, Goto, Call, OnceInv, Over
    <2>4. WantInv' /\ AllocInv' /\ IpsUnique'
      BY <1>30 DEF Lookup, Goto, Call, AllocInv, WantInv, IpsUnique, InCall
    <2> QED BY <2>1, <2>2, <2>3, <2>4 DEF RegistryInv
  <1> HIDE DEF LaunchInv, RegistryInv, TypeOK, CallInv, Actors, Saves, Lookups, None, procVars,
      dirVars, lockVars, listVars
  <1> QED BY <1>1, <1>2, <1>3, <1>4, <1>5, <1>6, <1>7, <1>8, <1>9, <1>10, <1>11, <1>12, <1>13,
      <1>14, <1>15, <1>16, <1>17, <1>18, <1>19, <1>20, <1>21, <1>22, <1>23, <1>24, <1>25, <1>26,
      <1>27, <1>28, <1>29, <1>30 DEF Next, Listing, Launching
-----------------------------------------------------------------------------
LEMMA LaunchInvInit == Init => LaunchInv
  BY RegistryAssumption
  DEF Init, LaunchInv, TypeOK, CallInv, LiveInv, HeldInv, Claims, Allocates, InCall,
      InstalledStays, Installed, Actors, PCs, Ops, Saves, Lookups, NoIp, None

LEMMA LaunchInvStutter == ASSUME LaunchInv, UNCHANGED vars PROVE LaunchInv'
  BY DEF vars, procVars, dirVars, lockVars, listVars, LaunchInv, TypeOK, CallInv, LiveInv,
      HeldInv, Claims, Allocates, InstalledStays, Installed, OwnerOf

LEMMA RegistryInvInit == Init => RegistryInv
  BY RegistryAssumption
  DEF Init, RegistryInv, LockFileInv, ScanInv, ClaimInv, StartedInv, Started, OnceInv, WantInv,
      AllocInv, NamesUnique, IpsUnique, Actors, NoIp, InCall

LEMMA RegistryInvStutter == ASSUME RegistryInv, UNCHANGED vars PROVE RegistryInv'
  BY DEF vars, procVars, dirVars, lockVars, listVars, RegistryInv, LockFileInv, ScanInv,
      ClaimInv, Rivals, StartedInv, Started, OnceInv, Over, WantInv, AllocInv, NamesUnique,
      IpsUnique, NameOf, ReadErrors

LEMMA SpecLaunchInv == Spec => []LaunchInv
  BY LaunchInvInit, LaunchInvStep, LaunchInvStutter, PTL DEF Spec

LEMMA SpecRegistryInv == Spec => [](~ReadErrors => RegistryInv)
  <1>1. LaunchInv /\ LaunchInv' /\ (~ReadErrors => RegistryInv) /\ [Next]_vars
            => (~ReadErrors => RegistryInv)'
    <2>1. LaunchInv /\ [Next]_vars => ReadErrors' = ReadErrors
      BY PlanStays DEF vars, ReadErrors
    <2> QED BY <2>1, RegistryInvStep, RegistryInvStutter
  <1> QED BY <1>1, SpecLaunchInv, RegistryInvInit, PTL DEF Spec

(* Every variable of the registry has its type (TypeOK) for any VMs,         *)
(* processes and lookups, also when reads fail: in particular the address a  *)
(* launch takes is one of the range that allocate_loopback_ip tries.         *)
THEOREM RegistryTypes == Spec => []TypeOK
  BY SpecLaunchInv, PTL DEF LaunchInv

(* Nobody but its own launch removes the state of a VM that is up or         *)
(* starting (InstalledStays): cleanup_stale_state, claim_name and the sweep  *)
(* of save_state delete only states whose owner is not live, and a launch    *)
(* under way has a live owner, whichever PIDs are used again and whatever    *)
(* fails to be read.                                                         *)
THEOREM StatesStay == Spec => []InstalledStays
  BY SpecLaunchInv, PTL DEF LaunchInv

(* Who holds a host-wide lock can go on (HoldersGoOn), whoever failed, was    *)
(* refused or was killed inside claim_name or allocate_loopback_ip before.   *)
THEOREM LocksAreLeft == Spec => []HoldersGoOn
  <1>1. LaunchInv => HoldersGoOn
    BY DEF LaunchInv, LiveInv, HeldInv, Claims, Allocates, InCall, HoldersGoOn
  <1> QED BY <1>1, SpecLaunchInv, PTL

(* While everything can be read, no two state files have one name            *)
(* (NamesUnique): the listing of claim_name owes it every state of the name, *)
(* and no other comes while names.lock is held.                              *)
THEOREM ClaimsAreUnique == Spec => []NamesUnique
  <1>1. (~ReadErrors => RegistryInv) => NamesUnique
    BY DEF RegistryInv, NamesUnique
  <1> QED BY <1>1, SpecRegistryInv, PTL

(* While everything can be read, no two state files have one loopback        *)
(* address (IpsUnique).                                                      *)
THEOREM AddressesAreUnique == Spec => []IpsUnique
  <1>1. (~ReadErrors => RegistryInv) => IpsUnique
    BY DEF RegistryInv, IpsUnique
  <1> QED BY <1>1, SpecRegistryInv, PTL

(* Both together: what claim_name and allocate_loopback_ip hand out has one  *)
(* VM.                                                                       *)
THEOREM ClaimsHaveOneVm == Spec => []ClaimsUnique
  BY ClaimsAreUnique, AddressesAreUnique, PTL DEF ClaimsUnique

(* While everything can be read, list_vms misses no VM whose state is there  *)
(* from its start to its end (ListsAll), however often the state file is     *)
(* renamed: its lock file stays, and leads list_vms to it.                   *)
THEOREM ListingsAreComplete == Spec => []ListsAll
  <1>1. LaunchInv /\ (~ReadErrors => RegistryInv) => ListsAll
    BY DEF LaunchInv, TypeOK, RegistryInv, ScanInv, ListsAll, Listed
  <1> QED BY <1>1, SpecLaunchInv, SpecRegistryInv, PTL

(* While everything can be read, no listing shows two VMs of one name        *)
(* (ListsNameOnce), so a name that load_state_by_name finds is not           *)
(* ambiguous, also when it changed hands while the files were read.          *)
THEOREM ListingsNameOnce == Spec => []ListsNameOnce
  <1>1. LaunchInv /\ (~ReadErrors => RegistryInv) => ListsNameOnce
    BY DEF LaunchInv, TypeOK, RegistryInv, OnceInv, ListsNameOnce, Listed
  <1> QED BY <1>1, SpecLaunchInv, SpecRegistryInv, PTL

(* Both together: a listing is complete and shows no name twice.             *)
THEOREM ListingsAreRight == Spec => []ListingsRight
  BY ListingsAreComplete, ListingsNameOnce, PTL DEF ListingsRight
=============================================================================
