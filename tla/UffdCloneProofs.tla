-------------------------- MODULE UffdCloneProofs --------------------------
(***************************************************************************)
(* Proofs about UffdClone for any number of vCPUs, pages and workers, any  *)
(* job size and queue capacity, and any number of REMOVEs.                 *)
(***************************************************************************)
EXTENDS UffdClone, SequenceTheorems, TLAPS

-----------------------------------------------------------------------------
(* Queues. *)

LEMMA SeqOfTail ==
    ASSUME NEW S, NEW s \in Seq(S), s # <<>>
    PROVE  /\ Head(s) \in S /\ Head(s) = s[1] /\ 1 \in 1..Len(s)
           /\ Tail(s) \in Seq(S) /\ Len(Tail(s)) = Len(s) - 1
           /\ \A i \in 1..Len(Tail(s)) : Tail(s)[i] = s[i + 1] /\ i + 1 \in 1..Len(s)
  BY HeadTailProperties, EmptySeq, LenProperties

LEMMA SeqOfAppend ==
    ASSUME NEW S, NEW s \in Seq(S), NEW e \in S
    PROVE  /\ Append(s, e) \in Seq(S) /\ Len(Append(s, e)) = Len(s) + 1
           /\ \A i \in 1..Len(Append(s, e)) : \/ i \in 1..Len(s) /\ Append(s, e)[i] = s[i]
                                              \/ Append(s, e)[i] = e
  BY AppendProperties, LenProperties

-----------------------------------------------------------------------------

(* Types, in parts that few actions disturb.  A fault that is queued has a *)
(* page; the generation counts the REMOVEs that were recorded, so it lags  *)
(* behind the calls of the balloon.                                        *)

KernelType ==
    /\ alive \in BOOLEAN
    /\ mem \in [Pages -> {"absent", "data", "zero"}]
    /\ vcpu \in [Vcpus -> [at : {"run", "seen", "pending", "read"}, page : 0..LastPage]]
    /\ \A v \in Vcpus : vcpu[v].at \in {"seen", "pending"} => vcpu[v].page \in Pages
    /\ balloon \in [at : {"idle", "queued", "woken", "zapping"}, pages : SUBSET Pages, calls : 0..MaxRemoves]
    /\ given \subseteq Pages

Unrecorded == (IF got = {} THEN 0 ELSE 1) + (IF balloon.at = "queued" THEN 1 ELSE 0)

DrainType ==
    /\ gone \in BOOLEAN /\ reading \in BOOLEAN
    /\ pc \in {"idle", "room", "gate", "record", "answer", "retry", "push", "flush", "fail", "join",
               "done"}
    /\ mode \in {"plan", "finish", "serve"}
    /\ batch \subseteq [v : Vcpus, page : Pages]
    /\ got \subseteq Pages /\ todo \subseteq Pages /\ parked \subseteq Pages /\ removed \subseteq Pages

CountType == generation \in 0..MaxRemoves /\ generation + Unrecorded <= balloon.calls

Worker == [pc : {"idle", "job", "counted", "spin", "copying", "exited"},
           pages : SUBSET Pages, gen : 0..generation]

Return == [kind : {"stale", "retry", "gone", "failed"}, page : Pages]

WorkType ==
    /\ work \in [Workers -> Worker]
    /\ jobs \in Seq(Job) /\ back \in Seq(Return)
    /\ fstop \in BOOLEAN

ReplayType ==
    /\ next \in 1..(LastPage + 1) /\ planned \in 0..generation
    /\ stretch \subseteq Pages /\ stale \subseteq Pages
    /\ pending \in Job /\ held \in Job
    /\ queue \in Seq(Job) /\ Len(queue) <= QueueCap
    /\ room \in BOOLEAN /\ closed \in BOOLEAN /\ rstop \in BOOLEAN /\ news \subseteq {"done", "gone"}

TypeInv == KernelType /\ DrainType /\ CountType /\ WorkType /\ ReplayType

LEMMA TypeInvOK == TypeInv => TypeOK
  BY DEF TypeInv, TypeOK, KernelType, DrainType, CountType, WorkType, Worker, Return, ReplayType

LEMMA TypeInit == Init => TypeInv
  <1> SUFFICES ASSUME Init PROVE TypeInv
    OBVIOUS
  <1>1. KernelType /\ CountType
    BY UffdCloneAssumption DEF Init, KernelType, CountType, Unrecorded, Running
  <1>2. DrainType
    BY DEF Init, DrainType
  <1>3. WorkType
    <2>1. Idle \in Worker /\ Exited \in Worker
      BY DEF Init, Idle, Exited, Worker
    <2>2. work \in [Workers -> Worker]
      BY <2>1 DEF Init
    <2>3. jobs \in Seq(Job) /\ back \in Seq(Return)
      BY EmptySeq DEF Init
    <2> QED BY <2>2, <2>3 DEF Init, WorkType
  <1>4. ReplayType
    <2>1. NoJob \in Job /\ queue \in Seq(Job) /\ Len(queue) <= QueueCap
      BY EmptySeq, UffdCloneAssumption DEF Init, NoJob, Job
    <2>2. next \in 1..(LastPage + 1) /\ closed \in BOOLEAN
      BY UffdCloneAssumption DEF Init
    <2>3. /\ planned \in 0..generation /\ pending = NoJob /\ held = NoJob /\ stretch = {} /\ stale = {}
          /\ room = FALSE /\ rstop = FALSE /\ news = {}
      BY DEF Init
    <2> QED BY <2>1, <2>2, <2>3 DEF ReplayType
  <1> QED BY <1>1, <1>2, <1>3, <1>4 DEF TypeInv

(* A fill maps at most its page, with the content it was given, and wakes  *)
(* sleepers.                                                               *)
LEMMA FillEffect ==
    ASSUME KernelType, NEW p \in Pages, NEW c, CopyPage(p, c) \/ (c = "data" /\ Populate(p))
    PROVE  /\ mem' = mem \/ (alive /\ ~Changing /\ mem[p] = "absent" /\ mem' = [mem EXCEPT ![p] = c])
           /\ \A v \in Vcpus : vcpu'[v] = vcpu[v] \/ vcpu'[v] = Running
           /\ vcpu' \in [Vcpus -> [at : {"run", "seen", "pending", "read"}, page : 0..LastPage]]
  <1>1. \/ vcpu' = vcpu
        \/ vcpu' = [v \in Vcpus |-> IF vcpu[v].page = p /\ vcpu[v].at \in Asleep THEN Running ELSE vcpu[v]]
    BY DEF CopyPage, Populate, Install, Wake
  <1>2. Running \in [at : {"run", "seen", "pending", "read"}, page : 0..LastPage]
    BY UffdCloneAssumption DEF Running
  <1>3. /\ \A v \in Vcpus : vcpu'[v] = vcpu[v] \/ vcpu'[v] = Running
        /\ vcpu' \in [Vcpus -> [at : {"run", "seen", "pending", "read"}, page : 0..LastPage]]
    BY <1>1, <1>2 DEF KernelType
  <1>4. mem' = mem \/ (Outcome(p) = "resolved" /\ mem' = [mem EXCEPT ![p] = c])
    BY DEF CopyPage, Populate, Install
  <1> QED BY <1>3, <1>4 DEF Outcome, KernelType

LEMMA FillKernelType ==
    ASSUME KernelType, NEW p \in Pages, NEW c \in {"data", "zero"}, CopyPage(p, c) \/ (c = "data" /\ Populate(p)),
           UNCHANGED <<alive, balloon, given>>
    PROVE  KernelType'
  <1>1. mem' \in [Pages -> {"absent", "data", "zero"}]
    BY FillEffect DEF KernelType
  <1>2. \A v \in Vcpus : vcpu'[v].at \in {"seen", "pending"} => vcpu'[v].page \in Pages
    BY FillEffect DEF KernelType, Running
  <1> QED BY <1>1, <1>2, FillEffect DEF KernelType

(* Who fills what: the handler, between two reads, with the content of the *)
(* page; or a worker inside the gate, with the snapshot's bytes.           *)
Fill(p, c) ==
    /\ CopyPage(p, c) \/ (c = "data" /\ Populate(p))
    /\ \/ pc \notin {"gate", "record"} /\ c = Content(p)
       \/ c = "data" /\ \E w \in Workers : work[w].pc = "copying" /\ p \in work[w].pages
    /\ UNCHANGED <<alive, balloon, given>>

LEMMA FillSteps ==
    ASSUME TypeInv,
           \/ \E e \in batch : AnswerFault(e)
           \/ \E p \in todo : RetryParked(p)
           \/ WorkerReturns \/ CopyAlone
           \/ \E w \in Workers : FillFault(w) \/ CopyRun(w)
    PROVE  UNCHANGED kernelVars \/ \E p \in Pages, c \in {"data", "zero"} : Fill(p, c)
  <1>0. \A p : Content(p) \in {"data", "zero"}
    BY DEF Content
  <1>1. ASSUME NEW e \in batch, AnswerFault(e)
        PROVE  UNCHANGED kernelVars \/ Fill(e.page, Content(e.page))
    BY <1>1 DEF AnswerFault, ResolveFault, Fill, kernelVars
  <1>2. ASSUME NEW p \in todo, RetryParked(p) PROVE Fill(p, Content(p))
    BY <1>2 DEF RetryParked, Fill
  <1>3. CASE WorkerReturns
    <2>1. Head(back).page \in Pages
      <3>1. Head(back) \in Return
        BY <1>3, SeqOfTail DEF WorkerReturns, Returned, TypeInv, WorkType
      <3> QED BY <3>1 DEF Return
    <2>2. UNCHANGED kernelVars \/ Fill(Head(back).page, Content(Head(back).page))
      BY <1>3 DEF WorkerReturns, Returned, Rests, ResolveFault, Fill, kernelVars
    <2> QED BY <1>0, <2>1, <2>2
  <1>4. CASE CopyAlone
    <2>1. next \in Pages /\ Fill(next, "data")
      BY <1>4 DEF CopyAlone, Planning, Fill, Content
    <2> QED BY <2>1
  <1>5. ASSUME NEW w \in Workers, FillFault(w) \/ CopyRun(w)
        PROVE  \E p \in Pages : Fill(p, "data")
    <2>1. work[w].pages \subseteq Pages
      BY DEF TypeInv, WorkType, Worker
    <2> QED BY <1>5, <2>1 DEF FillFault, CopyRun, Fill
  <1>6. \A e \in batch : e.page \in Pages
    BY DEF TypeInv, DrainType
  <1>7. todo \subseteq Pages
    BY DEF TypeInv, DrainType
  <1> QED BY <1>0, <1>1, <1>2, <1>3, <1>4, <1>5, <1>6, <1>7

(* The handler and worker steps that leave the clone's memory alone. *)
LEMMA OtherSteps ==
    ASSUME Handler \/ ServiceFails \/ (\E w \in Workers : Work(w)) \/ Finished,
           ~ (\E e \in batch : AnswerFault(e)), ~ (\E p \in todo : RetryParked(p)),
           ~ WorkerReturns, ~ CopyAlone, ~ PoolGone, ~ ReadEvents, ~ FailClosed,
           ~ (\E w \in Workers : FillFault(w) \/ CopyRun(w))
    PROVE  UNCHANGED kernelVars
  <1>1. CASE Handler
    BY <1>1 DEF Handler, DrainEvents, RecordRemove, Drained, Retried, RetryDue, ReplanStale, StepOver,
             PlanRun, PushRun, Flush, RoomNotified, OutcomeReported, PlanDone, ReplayExited,
             JoinReplayWorkers, ServiceEnds, WorkerFailed, Fails, Done
  <1>2. ASSUME NEW w \in Workers, Work(w) PROVE UNCHANGED kernelVars
    BY <1>2 DEF Work, CountIn, Enter, TakeFault, ReturnStaleFault, FillFails, FaultWorkerExits, TakeRun,
             ReturnStaleRun, GiveUpRun, ReplayWorkerExits
  <1> QED BY <1>1, <1>2 DEF ServiceFails, Fails, Finished, vars

LEMMA KernelTypeStep ==
    ASSUME TypeInv, [Next]_vars PROVE KernelType'
  <1>0. KernelType
    BY DEF TypeInv
  <1>1. CASE UNCHANGED kernelVars
    BY <1>0, <1>1 DEF kernelVars, KernelType
  <1>2. ASSUME NEW p \in Pages, NEW c \in {"data", "zero"}, Fill(p, c) PROVE KernelType'
    BY <1>0, <1>2, FillKernelType DEF Fill
  <1>3. ASSUME NEW v \in Vcpus, NEW p \in Pages, Touch(v, p) PROVE KernelType'
    <2>1. vcpu'[v] = [at |-> "seen", page |-> p] /\ \A u \in Vcpus \ {v} : vcpu'[u] = vcpu[u]
      BY <1>0, <1>3 DEF Touch, KernelType
    <2>2. vcpu' \in [Vcpus -> [at : {"run", "seen", "pending", "read"}, page : 0..LastPage]]
      BY <1>0, <1>3 DEF Touch, KernelType, Pages
    <2> QED BY <1>0, <1>3, <2>1, <2>2 DEF Touch, KernelType
  <1>4. ASSUME NEW v \in Vcpus, Enqueue(v) PROVE KernelType'
    <2>1. /\ vcpu'[v].page = vcpu[v].page /\ vcpu[v].at = "seen" /\ \A u \in Vcpus \ {v} : vcpu'[u] = vcpu[u]
          /\ vcpu' \in [Vcpus -> [at : {"run", "seen", "pending", "read"}, page : 0..LastPage]]
      BY <1>0, <1>4 DEF Enqueue, KernelType
    <2> QED BY <1>0, <1>4, <2>1 DEF Enqueue, KernelType
  <1>5. ASSUME NEW S \in SUBSET Pages, GiveBack(S) PROVE KernelType'
    <2>1. balloon' \in [at : {"idle", "queued", "woken", "zapping"}, pages : SUBSET Pages, calls : 0..MaxRemoves]
      BY <1>0, <1>5, UffdCloneAssumption DEF GiveBack, KernelType
    <2> QED BY <1>0, <1>5, <2>1 DEF GiveBack, KernelType
  <1>6. CASE Zap \/ Dies
    <2>1. balloon' \in [at : {"idle", "queued", "woken", "zapping"}, pages : SUBSET Pages, calls : 0..MaxRemoves]
      <3>1. balloon' = [at |-> "idle", pages |-> {}, calls |-> balloon.calls]
        BY <1>6 DEF Zap, Dies
      <3> QED BY <1>0, <3>1 DEF KernelType
    <2>2. given' \subseteq Pages
      BY <1>0, <1>6 DEF Zap, Dies, KernelType
    <2>3. mem' \in [Pages -> {"absent", "data", "zero"}]
      BY <1>0, <1>6 DEF Zap, Dies, KernelType
    <2>4. CASE Zap
      BY <1>0, <2>1, <2>2, <2>3, <2>4 DEF Zap, KernelType
    <2>5. CASE Dies
      <3>1. vcpu' = [v \in Vcpus |-> [at |-> "run", page |-> 0]] /\ alive' = FALSE
        BY <2>5 DEF Dies, Running
      <3>2. vcpu' \in [Vcpus -> [at : {"run", "seen", "pending", "read"}, page : 0..LastPage]]
        BY <3>1, UffdCloneAssumption
      <3> QED BY <2>1, <2>2, <2>3, <3>1, <3>2 DEF KernelType
    <2> QED BY <1>6, <2>4, <2>5
  <1>7. CASE ReadEvents
    <2>1. PICK F \in SUBSET Vcpus :
              vcpu' = [v \in Vcpus |-> IF v \in F THEN [vcpu[v] EXCEPT !.at = "read"] ELSE vcpu[v]]
      BY <1>7 DEF ReadEvents
    <2>2. vcpu' \in [Vcpus -> [at : {"run", "seen", "pending", "read"}, page : 0..LastPage]]
      BY <1>0, <2>1 DEF KernelType
    <2>3. \A v \in Vcpus : vcpu'[v].at \in {"seen", "pending"} => vcpu'[v].page \in Pages
      BY <1>0, <2>1 DEF KernelType
    <2>4. balloon' \in [at : {"idle", "queued", "woken", "zapping"}, pages : SUBSET Pages, calls : 0..MaxRemoves]
      BY <1>0, <1>7 DEF ReadEvents, KernelType
    <2> QED BY <1>0, <1>7, <2>2, <2>3, <2>4 DEF ReadEvents, KernelType
  <1>10. CASE LowerFlag
    <2>1. balloon' \in [at : {"idle", "queued", "woken", "zapping"}, pages : SUBSET Pages, calls : 0..MaxRemoves]
      BY <1>0, <1>10 DEF LowerFlag, KernelType
    <2> QED BY <1>0, <1>10, <2>1 DEF LowerFlag, KernelType
  <1>11. CASE PoolGone
    <2>1. held.pages \subseteq Pages
      BY DEF TypeInv, ReplayType, Job
    <2> QED BY <1>0, <1>1, <1>11, <2>1, FillKernelType DEF PoolGone, kernelVars
  <1>8. ASSUME Handler \/ ServiceFails \/ (\E w \in Workers : Work(w)) \/ Finished PROVE KernelType'
    BY <1>1, <1>2, <1>6, <1>7, <1>8, <1>11, FillSteps, OtherSteps DEF FailClosed
  <1>9. \A first \in Pages : \A last \in first..LastPage : first..last \in SUBSET Pages
    BY UffdCloneAssumption DEF Pages
  <1> QED BY <1>1, <1>3, <1>4, <1>5, <1>6, <1>8, <1>9, <1>10 DEF Next, VmmExits, vars

LEMMA DrainTypeStep ==
    ASSUME TypeInv, [Next]_vars PROVE DrainType'
  <1>0. DrainType
    BY DEF TypeInv
  <1>1. CASE UNCHANGED <<pc, mode, gone, drainVars>>
    BY <1>0, <1>1 DEF drainVars, DrainType
  <1>2. CASE \/ DrainEvents \/ RecordRemove \/ Drained \/ Retried \/ RetryDue
    <2>1. RecordRemove => got \subseteq Pages /\ removed \subseteq Pages
      BY <1>0 DEF DrainType
    <2> QED BY <1>0, <1>2, <2>1
        DEF DrainEvents, RecordRemove, Drained, Retried, RetryDue, RetryRound, Resume, DrainType
  <1>3. CASE ReadEvents
    <2>1. batch' \subseteq [v : Vcpus, page : Pages]
      <3>1. PICK F \in SUBSET {v \in Vcpus : vcpu[v].at = "pending"} :
                batch' = {[v |-> v, page |-> vcpu[v].page] : v \in F}
        BY <1>3 DEF ReadEvents
      <3>2. \A v \in F : v \in Vcpus /\ vcpu[v].page \in Pages
        BY DEF TypeInv, KernelType
      <3> QED BY <3>1, <3>2
    <2>2. got' \subseteq Pages
      BY <1>3 DEF ReadEvents, TypeInv, KernelType
    <2> QED BY <1>0, <1>3, <2>1, <2>2 DEF ReadEvents, DrainType
  <1>4. ASSUME NEW e \in batch, AnswerFault(e) PROVE DrainType'
    BY <1>0, <1>4 DEF AnswerFault, ResolveFault, DrainType
  <1>5. ASSUME NEW p \in todo, RetryParked(p) PROVE DrainType'
    BY <1>0, <1>5 DEF RetryParked, DrainType
  <1>6. CASE WorkerReturns
    <2>1. Head(back).page \in Pages
      <3>1. Head(back) \in Return
        BY <1>6, SeqOfTail DEF WorkerReturns, Returned, TypeInv, WorkType
      <3> QED BY <3>1 DEF Return
    <2>2. parked' \subseteq Pages /\ gone' \in BOOLEAN
      BY <1>0, <1>6, <2>1 DEF WorkerReturns, ResolveFault, DrainType
    <2> QED BY <1>0, <1>6, <2>2 DEF WorkerReturns, RetryRound, Resume, DrainType
  <1>7. CASE ReplanStale \/ StepOver \/ PlanRun \/ PushRun
    BY <1>0, <1>7 DEF ReplanStale, StepOver, PlanRun, PushRun, DispatchRun, drainVars, DrainType
  <1>8. CASE Flush \/ PoolGone \/ PlanDone \/ ReplayExited \/ JoinReplayWorkers \/ CopyAlone
    BY <1>0, <1>8 DEF Flush, Flushed, PoolGone, PlanDone, ReplayExited, JoinReplayWorkers, CopyAlone, drainVars, DrainType
  <1>9. CASE RoomNotified \/ OutcomeReported
    BY <1>0, <1>9 DEF RoomNotified, OutcomeReported, RetryRound, Resume, TypeInv, ReplayType, KernelType, DrainType
  <1>10. CASE ServiceEnds \/ ServiceFails \/ WorkerFailed \/ FailClosed \/ Done
    BY <1>0, <1>10 DEF ServiceEnds, WorkerFailed, ServiceFails, Fails, FailClosed, Done, drainVars, DrainType
  <1>11. ASSUME NEW w \in Workers, Work(w) PROVE DrainType'
    BY <1>1, <1>11 DEF Work, CountIn, Enter, TakeFault, ReturnStaleFault, FillFault, FillFails, FaultWorkerExits, TakeRun,
             ReturnStaleRun, CopyRun, GiveUpRun, ReplayWorkerExits
  <1>12. CASE Handler
    BY <1>2, <1>3, <1>4, <1>5, <1>6, <1>7, <1>8, <1>9, <1>10, <1>12 DEF Handler
  <1> QED BY <1>1, <1>10, <1>11, <1>12 DEF Next, Touch, Enqueue, GiveBack, LowerFlag, Zap, VmmExits, Finished, vars

(* Only a recorded REMOVE moves the generation, by one. *)
LEMMA GenerationGrows ==
    ASSUME TypeInv, [Next]_vars
    PROVE  generation' = generation \/ (RecordRemove /\ got # {} /\ generation' = generation + 1)
  <1>1. CASE Handler
    BY <1>1 DEF Handler, DrainEvents, ReadEvents, RecordRemove, Drained, Retried, RetryDue, WorkerReturns,
             AnswerFault, RetryParked, ReplanStale, StepOver, PlanRun, PushRun, Flush, PoolGone, RoomNotified,
             OutcomeReported, CopyAlone, PlanDone, ReplayExited, JoinReplayWorkers, ServiceEnds, WorkerFailed, Fails, FailClosed,
             Done, drainVars
  <1>2. ASSUME NEW w \in Workers, Work(w) PROVE generation' = generation
    BY <1>2 DEF Work, CountIn, Enter, TakeFault, ReturnStaleFault, FillFault, FillFails, FaultWorkerExits, TakeRun,
             ReturnStaleRun, CopyRun, GiveUpRun, ReplayWorkerExits, drainVars
  <1> QED BY <1>1, <1>2 DEF Next, ServiceFails, Fails, Touch, Enqueue, GiveBack, LowerFlag, Zap, VmmExits, Finished, vars, drainVars

LEMMA CountTypeStep ==
    ASSUME TypeInv, [Next]_vars PROVE CountType'
  <1>0. CountType /\ KernelType'
    BY KernelTypeStep DEF TypeInv
  <1>1. balloon.calls \in 0..MaxRemoves /\ generation \in Nat
    BY DEF TypeInv, KernelType, CountType
  <1>2. CASE UNCHANGED <<generation, got, balloon>>
    BY <1>0, <1>2 DEF CountType, Unrecorded
  <1>3. CASE RecordRemove
    <2>1. generation' + Unrecorded' <= balloon'.calls
      BY <1>0, <1>1, <1>3 DEF RecordRemove, CountType, Unrecorded, kernelVars
    <2>2. balloon' = balloon /\ Unrecorded' \in Nat /\ generation' \in Nat
      BY <1>1, <1>3 DEF RecordRemove, kernelVars, Unrecorded
    <2> QED BY <1>1, <2>1, <2>2, UffdCloneAssumption DEF CountType
  <1>4. CASE ReadEvents
    <2>1. generation' = generation /\ balloon'.calls = balloon.calls
      BY <1>4 DEF ReadEvents, TypeInv, KernelType
    <2>2. PICK R \in {{}, IF balloon.at = "queued" THEN balloon.pages ELSE {}} :
              got' = R /\ balloon' = IF R = {} THEN balloon ELSE [balloon EXCEPT !.at = "woken"]
      BY <1>4 DEF ReadEvents
    <2>3. CASE R = {}
      BY <1>0, <1>1, <2>1, <2>2, <2>3 DEF CountType, Unrecorded
    <2>4. CASE R # {}
      <3>1. balloon.at = "queued" /\ balloon'.at = "woken"
        BY <2>2, <2>4 DEF TypeInv, KernelType
      <3> QED BY <1>0, <1>1, <2>1, <2>2, <2>4, <3>1 DEF CountType, Unrecorded
    <2> QED BY <2>3, <2>4
  <1>5. ASSUME NEW S, GiveBack(S) PROVE CountType'
    BY <1>0, <1>1, <1>5 DEF GiveBack, drainVars, CountType, Unrecorded
  <1>6. CASE (Zap \/ Dies) /\ UNCHANGED <<generation, got>>
    <2>1. balloon'.at = "idle" /\ balloon'.calls = balloon.calls
      BY <1>6 DEF Zap, Dies
    <2> QED BY <1>0, <1>1, <1>6, <2>1 DEF CountType, Unrecorded
  <1>9. CASE LowerFlag
    <2>1. balloon.at = "woken" /\ balloon'.at = "zapping" /\ balloon'.calls = balloon.calls
      BY <1>9 DEF LowerFlag, TypeInv, KernelType
    <2> QED BY <1>0, <1>1, <1>9, <2>1 DEF LowerFlag, drainVars, CountType, Unrecorded
  <1>7. CASE Handler
    BY <1>2, <1>3, <1>4, <1>6, <1>7
    DEF Handler, DrainEvents, Drained, Retried, RetryDue, WorkerReturns,
             AnswerFault, RetryParked, ReplanStale, StepOver, PlanRun, PushRun, Flush, PoolGone, RoomNotified,
             OutcomeReported, CopyAlone, PlanDone, ReplayExited, JoinReplayWorkers, ServiceEnds, WorkerFailed, Fails, FailClosed,
             Done, drainVars, kernelVars
  <1>8. ASSUME NEW w \in Workers, Work(w) PROVE CountType'
    BY <1>2, <1>8 DEF Work, CountIn, Enter, TakeFault, ReturnStaleFault, FillFault, FillFails, FaultWorkerExits, TakeRun,
             ReturnStaleRun, CopyRun, GiveUpRun, ReplayWorkerExits, drainVars, kernelVars
  <1> QED BY <1>2, <1>5, <1>6, <1>7, <1>8, <1>9
      DEF Next, ServiceFails, Fails, Touch, Enqueue, Zap, VmmExits, Finished, vars, drainVars, kernelVars

(* What was well typed stays so when the generation moves. *)
LEMMA JobsGrow ==
    ASSUME TypeInv, [Next]_vars
    PROVE  /\ Job \subseteq Job' /\ Seq(Job) \subseteq Seq(Job') /\ Worker \subseteq Worker'
           /\ 0..generation \subseteq 0..generation'
  <1>1. 0..generation \subseteq 0..generation'
    BY GenerationGrows DEF TypeInv, CountType
  <1>2. Job \subseteq Job' /\ Worker \subseteq Worker'
    BY <1>1 DEF Job, Worker
  <1>3. Seq(Job) \subseteq Seq(Job')
    BY <1>2, SeqMonotonic
  <1> QED BY <1>1, <1>2, <1>3

LEMMA WorkTypeStep ==
    ASSUME TypeInv, [Next]_vars PROVE WorkType'
  <1>0. /\ work \in [Workers -> Worker] /\ jobs \in Seq(Job) /\ back \in Seq(Return)
        /\ fstop \in BOOLEAN
    BY DEF TypeInv, WorkType
  <1>1. ASSUME generation' = generation, work' \in [Workers -> Worker], jobs' \in Seq(Job),
               back' \in Seq(Return), fstop' \in BOOLEAN
        PROVE  WorkType'
    BY <1>1 DEF WorkType, Worker, Job, Return
  <1>2. CASE UNCHANGED <<work, faultVars>>
    <2>1. work' \in [Workers -> Worker'] /\ jobs' \in Seq(Job')
      BY <1>0, <1>2, JobsGrow DEF faultVars
    <2>2. back' \in Seq(Return') /\ fstop' \in BOOLEAN
      BY <1>0, <1>2 DEF faultVars, Return
    <2> QED BY <2>1, <2>2 DEF WorkType
  <1>4. Idle \in Worker /\ Exited \in Worker
    BY DEF Worker, Idle, Exited, TypeInv, CountType
  <1>5. ASSUME NEW e \in batch, AnswerFault(e) PROVE WorkType'
    <2>1. [pages |-> {e.page}, gen |-> generation] \in Job
      BY DEF Job, TypeInv, DrainType, CountType
    <2> DEFINE job == [pages |-> {e.page}, gen |-> generation]
    <2>a. jobs' = Append(jobs, job) \/ jobs' = jobs
      BY <1>5 DEF AnswerFault
    <2>b. Append(jobs, job) \in Seq(Job)
      BY <1>0, <2>1, SeqOfAppend
    <2>2. jobs' \in Seq(Job)
      BY <1>0, <2>a, <2>b
    <2> QED BY <1>0, <1>1, <1>5, <2>2 DEF AnswerFault
  <1>6. CASE WorkerReturns \/ WorkerFailed \/ ServiceFails
    <2>0. back' = back \/ (back # <<>> /\ back' = Tail(back))
      <3>1. CASE WorkerReturns \/ WorkerFailed
        BY <3>1 DEF WorkerReturns, WorkerFailed, Returned
      <3>2. CASE ServiceFails
        BY <3>2 DEF ServiceFails, Returned, Rests
      <3> QED BY <1>6, <3>1, <3>2
    <2>1. back' \in Seq(Return)
      BY <1>0, <2>0, SeqOfTail
    <2> QED BY <1>0, <1>1, <1>6, <2>1 DEF WorkerReturns, WorkerFailed, ServiceFails, Fails
  <1>7. CASE ServiceEnds \/ FailClosed
    BY <1>0, <1>1, <1>7 DEF ServiceEnds, WorkerFailed, Fails, FailClosed, drainVars
  <1>8. ASSUME NEW w \in Workers, Work(w) PROVE WorkType'
    <2>0. generation' = generation
      BY <1>8 DEF Work, CountIn, Enter, TakeFault, ReturnStaleFault, FillFault, FillFails, FaultWorkerExits, TakeRun,
             ReturnStaleRun, CopyRun, GiveUpRun, ReplayWorkerExits, drainVars
    <2>1. work[w] \in Worker /\ work[w].pages \subseteq Pages
      BY <1>0 DEF Worker
    <2>2. \A s \in {"counted", "spin", "copying", "job"} : [work[w] EXCEPT !.pc = s] \in Worker
      BY <2>1 DEF Worker
    <2>3. ASSUME NEW x \in Worker, work' = [work EXCEPT ![w] = x] PROVE work' \in [Workers -> Worker]
      BY <1>0, <2>3
    <2>4. ASSUME NEW j \in Job PROVE [pc |-> "counted", pages |-> j.pages, gen |-> j.gen] \in Worker
      BY <2>4 DEF Job, Worker
    <2>5. CASE CountIn(w) \/ Enter(w)
      <3>1. work' \in [Workers -> Worker]
        BY <2>2, <2>3, <2>5 DEF CountIn, Enter, Goto
      <3> QED BY <1>0, <1>1, <2>0, <2>5, <3>1 DEF CountIn, Enter, faultVars
    <2>6. CASE TakeFault(w)
      <3>1. Head(jobs) \in Job /\ jobs' \in Seq(Job)
        BY <1>0, <2>6, SeqOfTail DEF TakeFault
      <3>2. work' \in [Workers -> Worker]
        BY <2>3, <2>4, <2>6, <3>1 DEF TakeFault
      <3> QED BY <1>0, <1>1, <2>0, <2>6, <3>1, <3>2 DEF TakeFault
    <2>7. CASE ReturnStaleFault(w) \/ FillFault(w) \/ FillFails(w)
      <3>1. back' \in Seq(Return)
        <4>1. PICK p \in Pages : back' = back \/ \E k \in {"stale", "retry", "gone", "failed"} : SendBack(p, k)
          BY <2>1, <2>7 DEF ReturnStaleFault, FillFault, FillFails
        <4>2. ASSUME NEW k \in {"stale", "retry", "gone", "failed"}, SendBack(p, k) PROVE back' \in Seq(Return)
          <5>1. [kind |-> k, page |-> p] \in Return
            BY DEF Return
          <5> HIDE DEF Return
          <5> QED BY <1>0, <4>2, <5>1, SeqOfAppend DEF SendBack
        <4> QED BY <1>0, <4>1, <4>2
      <3>2. work' \in [Workers -> Worker]
        BY <1>4, <2>3, <2>7 DEF ReturnStaleFault, FillFault, FillFails
      <3>3. fstop' \in BOOLEAN /\ jobs' = jobs
        BY <1>0, <2>7 DEF ReturnStaleFault, FillFault, FillFails
      <3> QED BY <1>0, <1>1, <2>0, <3>1, <3>2, <3>3
    <2>8. CASE FaultWorkerExits(w)
      <3>1. jobs' \in Seq(Job)
        BY <1>0, <2>8, SeqOfTail DEF FaultWorkerExits
      <3>2. work' \in [Workers -> Worker]
        BY <1>4, <2>3, <2>8 DEF FaultWorkerExits
      <3> QED BY <1>0, <1>1, <2>0, <2>8, <3>1, <3>2 DEF FaultWorkerExits
    <2>9. CASE TakeRun(w)
      <3>1. Head(queue) \in Job
        BY <2>9, SeqOfTail DEF TakeRun, TypeInv, ReplayType
      <3>2. work' \in [Workers -> Worker]
        BY <2>3, <2>4, <2>9, <3>1 DEF TakeRun
      <3> QED BY <1>0, <1>1, <2>0, <2>9, <3>2 DEF TakeRun, faultVars
    <2>10. CASE ReturnStaleRun(w) \/ GiveUpRun(w) \/ ReplayWorkerExits(w)
      <3>1. work' \in [Workers -> Worker]
        BY <1>4, <2>3, <2>10 DEF ReturnStaleRun, GiveUpRun, ReplayWorkerExits, Report
      <3> QED BY <1>0, <1>1, <2>0, <2>10, <3>1 DEF ReturnStaleRun, GiveUpRun, ReplayWorkerExits, faultVars
    <2>11. CASE CopyRun(w)
      <3>1. \A p : [work[w] EXCEPT !.pc = "job", !.pages = @ \ {p}] \in Worker
        BY <2>1 DEF Worker
      <3>2. PICK x \in Worker : work' = [work EXCEPT ![w] = x]
        <4>1. PICK p : \/ work' = [work EXCEPT ![w] = Exited] \/ work' = [work EXCEPT ![w] = Idle]
                       \/ work' = [work EXCEPT ![w].pc = "job"]
                       \/ work' = [work EXCEPT ![w].pc = "job", ![w].pages = @ \ {p}]
          BY <2>11 DEF CopyRun, Report, Goto
        <4>2. [work EXCEPT ![w].pc = "job", ![w].pages = @ \ {p}] =
                  [work EXCEPT ![w] = [work[w] EXCEPT !.pc = "job", !.pages = @ \ {p}]]
          BY <1>0
        <4> QED BY <1>4, <2>2, <3>1, <4>1, <4>2
      <3>3. work' \in [Workers -> Worker]
        BY <2>3, <3>2
      <3> QED BY <1>0, <1>1, <2>0, <2>11, <3>3 DEF CopyRun, faultVars
    <2> QED BY <1>8, <2>5, <2>6, <2>7, <2>8, <2>9, <2>10, <2>11 DEF Work
  <1>9. CASE Handler
    BY <1>2, <1>5, <1>6, <1>7, <1>9
    DEF Handler, DrainEvents, ReadEvents, RecordRemove, Drained, Retried, RetryDue,
             RetryParked, ReplanStale, StepOver, PlanRun, PushRun, Flush, PoolGone, RoomNotified,
             OutcomeReported, CopyAlone, PlanDone, ReplayExited, JoinReplayWorkers, Done
  <1> QED BY <1>2, <1>6, <1>8, <1>9 DEF Next, Touch, Enqueue, GiveBack, LowerFlag, Zap, VmmExits, Finished, vars

LEMMA ReplayTypeStep ==
    ASSUME TypeInv, [Next]_vars PROVE ReplayType'
  <1>0. ReplayType /\ generation \in Nat /\ removed \subseteq Pages
    BY DEF TypeInv, CountType, DrainType
  <1>1. CASE UNCHANGED replayVars
    BY <1>0, <1>1, JobsGrow DEF replayVars, ReplayType
  <1>2. ASSUME generation' = generation PROVE Job' = Job
    BY <1>2 DEF Job
  <1>3. NoJob \in Job
    BY <1>0 DEF NoJob, Job
  <1>4. CASE ReplanStale \/ PlanRun
    <2>1. PICK s \in SUBSET Pages : DispatchRun(s)
      <3>1. CASE ReplanStale
        BY <1>0, <3>1 DEF ReplanStale, ReplayType
      <3>2. CASE PlanRun
        <4>1. \A last \in next..LastPage : next..last \in SUBSET Pages
          BY <1>0, UffdCloneAssumption DEF ReplayType, Pages
        <4> QED BY <3>2, <4>1 DEF PlanRun
      <3> QED BY <1>4, <3>1, <3>2
    <2>2. stretch' \subseteq Pages /\ planned' = generation /\ generation' = generation
      BY <1>4, <2>1 DEF ReplanStale, PlanRun, DispatchRun, drainVars
    <2>3. pending' \in Job
      BY <1>0, <2>1 DEF DispatchRun, ReplayType, Job
    <2>4. next' \in 1..(LastPage + 1) /\ stale' \subseteq Pages
      <3>1. CASE ReplanStale
        BY <1>0, <3>1 DEF ReplanStale, ReplayType
      <3>2. CASE PlanRun
        <4>1. PICK last \in next..LastPage : next' = last + 1
          BY <3>2 DEF PlanRun
        <4> QED BY <1>0, <3>2, <4>1, UffdCloneAssumption DEF PlanRun, ReplayType
      <3> QED BY <1>4, <3>1, <3>2
    <2>5. UNCHANGED <<held, queue, room, closed, rstop, news>>
      BY <1>4 DEF ReplanStale, PlanRun
    <2> QED BY <1>0, <1>2, <2>2, <2>3, <2>4, <2>5 DEF ReplayType
  <1>5. CASE StepOver \/ CopyAlone
    <2>1. next' \in 1..(LastPage + 1) /\ generation' = generation
      BY <1>0, <1>5, UffdCloneAssumption DEF StepOver, CopyAlone, ReplayType, Pages, drainVars
    <2> QED BY <1>0, <1>2, <1>5, <2>1 DEF StepOver, CopyAlone, ReplayType
  <1>6. CASE PushRun
    <2>1. generation' = generation /\ UNCHANGED <<next, planned, queue, room, closed, rstop, news, stale>>
      BY <1>6 DEF PushRun, drainVars
    <2>2. PICK p \in stretch :
              /\ stretch' = stretch \ {p}
              /\ LET job == [pending EXCEPT !.pages = @ \cup {p}] IN
                 \/ held' = job /\ pending' = [NoJob EXCEPT !.gen = planned]
                 \/ pending' = job /\ held' = held
      BY <1>6 DEF PushRun
    <2>3. [pending EXCEPT !.pages = @ \cup {p}] \in Job /\ [NoJob EXCEPT !.gen = planned] \in Job
      BY <1>0 DEF ReplayType, Job, NoJob
    <2>4. pending' \in Job /\ held' \in Job /\ stretch' \subseteq Pages
      BY <1>0, <2>2, <2>3 DEF ReplayType
    <2> QED BY <1>0, <1>2, <2>1, <2>4 DEF ReplayType
  <1>7. CASE Flush
    <2>1. generation' = generation /\ UNCHANGED <<next, stretch, planned, pending, room, rstop, news, stale>>
      BY <1>7 DEF Flush, drainVars
    <2>2. Replanned(held) \in Job
      BY <1>0 DEF Replanned, Kept, ReplayType, Job
    <2>3. held' \in Job /\ closed' \in BOOLEAN
      BY <1>0, <1>3, <1>7, <2>2 DEF Flush, Flushed, ReplayType
    <2>4. queue' \in Seq(Job) /\ Len(queue') <= QueueCap
      <3>1. \/ queue' = queue
            \/ Len(queue) < QueueCap /\ queue' = Append(queue, Replanned(held))
        BY <1>7 DEF Flush
      <3>2. queue \in Seq(Job) /\ Len(queue) \in Nat /\ Len(queue) <= QueueCap
        BY <1>0, LenProperties DEF ReplayType
      <3> QED BY <2>2, <3>1, <3>2, SeqOfAppend, UffdCloneAssumption
    <2> QED BY <1>0, <1>2, <2>1, <2>3, <2>4 DEF ReplayType
  <1>12. CASE PoolGone
    <2>1. /\ generation' = generation /\ UNCHANGED <<next, planned, queue, room, rstop, news, stale>>
          /\ held' = NoJob /\ stretch' \in {stretch, {}} /\ pending' \in {pending, NoJob}
          /\ closed' \in {closed, TRUE}
      BY <1>12 DEF PoolGone, drainVars
    <2> QED BY <1>0, <1>2, <1>3, <2>1 DEF ReplayType
  <1>8. CASE RoomNotified \/ OutcomeReported
    BY <1>0, <1>2, <1>8 DEF RoomNotified, OutcomeReported, ReplayType
  <1>9. CASE PlanDone \/ ReplayExited \/ JoinReplayWorkers \/ ServiceFails \/ WorkerFailed
    <2>1. generation' = generation
      BY <1>9 DEF PlanDone, ReplayExited, JoinReplayWorkers, ServiceFails, WorkerFailed, Fails, drainVars
    <2>2. pending' \in Job /\ held' \in Job /\ stretch' \subseteq Pages /\ stale' \subseteq Pages
      BY <1>0, <1>3, <1>9 DEF PlanDone, ReplayExited, JoinReplayWorkers, ServiceFails, WorkerFailed, Fails, ReplayType
    <2>3. planned' \in 0..generation /\ next' \in 1..(LastPage + 1)
      BY <1>0, <1>9, UffdCloneAssumption DEF PlanDone, ReplayExited, JoinReplayWorkers, ServiceFails, WorkerFailed, Fails, ReplayType
    <2>4. room' \in BOOLEAN /\ closed' \in BOOLEAN /\ rstop' \in BOOLEAN /\ news' \subseteq {"done", "gone"} /\ queue' = queue
      BY <1>0, <1>9 DEF PlanDone, ReplayExited, JoinReplayWorkers, ServiceFails, WorkerFailed, Fails, ReplayType
    <2> QED BY <1>0, <1>2, <2>1, <2>2, <2>3, <2>4 DEF ReplayType
  <1>10. ASSUME NEW w \in Workers, Work(w) PROVE ReplayType'
    <2>1. generation' = generation
      BY <1>10 DEF Work, CountIn, Enter, TakeFault, ReturnStaleFault, FillFault, FillFails, FaultWorkerExits, TakeRun,
             ReturnStaleRun, CopyRun, GiveUpRun, ReplayWorkerExits, drainVars
    <2>2. CASE TakeRun(w)
      <3>1. queue' \in Seq(Job) /\ Len(queue') <= QueueCap
        <4>1. queue \in Seq(Job) /\ Len(queue) \in Nat /\ Len(queue) <= QueueCap /\ queue # <<>> /\ queue' = Tail(queue)
          BY <1>0, <2>2, LenProperties DEF TakeRun, ReplayType
        <4> QED BY <4>1, SeqOfTail, UffdCloneAssumption
      <3> QED BY <1>0, <1>2, <2>1, <2>2, <3>1 DEF TakeRun, ReplayType
    <2>3. CASE ReturnStaleRun(w) \/ CopyRun(w) \/ GiveUpRun(w)
      <3>1. work[w].pages \subseteq Pages
        BY DEF TypeInv, WorkType, Worker
      <3>2. news' \subseteq {"done", "gone"} /\ stale' \subseteq Pages
        BY <1>0, <2>3, <3>1 DEF ReturnStaleRun, CopyRun, GiveUpRun, Report, Goto, ReplayType
      <3>3. UNCHANGED <<next, stretch, planned, pending, held, queue, room, closed, rstop>>
        BY <2>3 DEF ReturnStaleRun, CopyRun, GiveUpRun
      <3> QED BY <1>0, <1>2, <2>1, <3>2, <3>3 DEF ReplayType
    <2> QED BY <1>1, <1>10, <2>2, <2>3 DEF Work, CountIn, Enter, TakeFault, ReturnStaleFault, FillFault,
             FillFails, FaultWorkerExits, ReplayWorkerExits
  <1>11. CASE Handler
    BY <1>1, <1>4, <1>5, <1>6, <1>7, <1>8, <1>9, <1>11, <1>12
    DEF Handler, DrainEvents, ReadEvents, RecordRemove, Drained, Retried, RetryDue, WorkerReturns,
             AnswerFault, RetryParked, ServiceEnds, FailClosed, Done
  <1> QED BY <1>1, <1>9, <1>10, <1>11 DEF Next, Touch, Enqueue, GiveBack, LowerFlag, Zap, VmmExits, Finished, vars

LEMMA TypeStep == TypeInv /\ [Next]_vars => TypeInv'
  BY KernelTypeStep, DrainTypeStep, CountTypeStep, WorkTypeStep, ReplayTypeStep DEF TypeInv

(* Type correctness of the clone's memory service, with the bound of the   *)
(* replay queue and jobs that are never of a generation to come.           *)
THEOREM UffdCloneTypes == Spec => []TypeOK
  BY TypeInit, TypeStep, TypeInvOK, PTL DEF Spec

-----------------------------------------------------------------------------
(* The ReplayGate: while a REMOVE is being read nobody copies, and who     *)
(* copies has looked at the generation.                                    *)
GateInv ==
    /\ reading <=> pc \in {"gate", "record"}
    /\ got # {} => pc = "record"
    /\ pc = "record" => \A w \in Workers : work[w].pc # "copying"
    /\ \A w \in Workers : work[w].pc = "copying" => work[w].gen = generation

(* What the handler has recorded as given back and what the kernel zapped. *)
GivenInv ==
    alive =>
        /\ given \subseteq removed \cup got
        /\ removed \cup got \subseteq
               given \cup (IF balloon.at \in {"woken", "zapping"} THEN balloon.pages ELSE {})
        /\ balloon.at \in {"woken", "zapping"} => balloon.pages \subseteq removed \cup got

(* A job of the current generation names no page that was given back.      *)
Fresh(job) == job.gen = generation => job.pages \cap removed = {}

JobInv ==
    /\ Fresh(pending) /\ Fresh(held) /\ \A w \in Workers : Fresh(work[w])
    /\ \A i \in 1..Len(jobs) : Fresh(jobs[i])
    /\ \A i \in 1..Len(queue) : Fresh(queue[i])
    /\ planned = generation => stretch \cap removed = {}
    /\ pending.gen <= planned

PageInv == GateInv /\ GivenInv /\ JobInv /\ PagesRight

(* What a step of a worker leaves alone, and what it has in hand after it: *)
(* nothing, part of what it had, or the first job of its queue.            *)
LEMMA WorkEffect ==
    ASSUME TypeInv, NEW w \in Workers, Work(w)
    PROVE  /\ UNCHANGED <<alive, balloon, given, pc, mode, gone, drainVars>>
           /\ UNCHANGED <<next, stretch, planned, pending, held, closed, rstop>>
           /\ \A u \in Workers \ {w} : work'[u] = work[u]
           /\ work'[w].pc = "copying" => ~reading /\ work'[w].gen = generation
           /\ \/ work'[w].pages = {}
              \/ work'[w].pages \subseteq work[w].pages /\ work'[w].gen = work[w].gen
              \/ jobs # <<>> /\ work'[w].pages = Head(jobs).pages /\ work'[w].gen = Head(jobs).gen
              \/ queue # <<>> /\ work'[w].pages = Head(queue).pages /\ work'[w].gen = Head(queue).gen
           /\ jobs' = jobs \/ (jobs # <<>> /\ jobs' = Tail(jobs))
           /\ queue' = queue \/ (queue # <<>> /\ queue' = Tail(queue))
  <1>0. work \in [Workers -> Worker] /\ work[w] \in Worker
    BY DEF TypeInv, WorkType
  <1>1. UNCHANGED <<alive, balloon, given, pc, mode, gone, drainVars>>
    BY DEF Work, CountIn, Enter, TakeFault, ReturnStaleFault, FillFault, FillFails, FaultWorkerExits, TakeRun,
             ReturnStaleRun, CopyRun, GiveUpRun, ReplayWorkerExits, kernelVars
  <1>2. UNCHANGED <<next, stretch, planned, pending, held, closed, rstop>>
    BY DEF Work, CountIn, Enter, TakeFault, ReturnStaleFault, FillFault, FillFails, FaultWorkerExits, TakeRun,
             ReturnStaleRun, CopyRun, GiveUpRun, ReplayWorkerExits, replayVars
  <1>3. jobs' = jobs \/ (jobs # <<>> /\ jobs' = Tail(jobs))
    BY DEF Work, CountIn, Enter, TakeFault, ReturnStaleFault, FillFault, FillFails, FaultWorkerExits, TakeRun,
             ReturnStaleRun, CopyRun, GiveUpRun, ReplayWorkerExits, faultVars
  <1>4. queue' = queue \/ (queue # <<>> /\ queue' = Tail(queue))
    BY DEF Work, CountIn, Enter, TakeFault, ReturnStaleFault, FillFault, FillFails, FaultWorkerExits, TakeRun,
             ReturnStaleRun, CopyRun, GiveUpRun, ReplayWorkerExits, replayVars
  <1>5. CASE CountIn(w) \/ Enter(w)
    <2>1. PICK s \in {"counted", "spin", "copying"} :
              /\ work' = [work EXCEPT ![w].pc = s]
              /\ s = "copying" => ~reading /\ work[w].gen = generation
      BY <1>5 DEF CountIn, Enter, Goto
    <2>2. work'[w] = [work[w] EXCEPT !.pc = s] /\ \A u \in Workers \ {w} : work'[u] = work[u]
      BY <1>0, <2>1
    <2>3. work'[w].pc = s /\ work'[w].pages = work[w].pages /\ work'[w].gen = work[w].gen
      BY <1>0, <2>2 DEF Worker
    <2> QED BY <1>1, <1>2, <1>3, <1>4, <2>1, <2>2, <2>3
  <1>6. CASE TakeFault(w) \/ TakeRun(w)
    <2>1. PICK j : /\ work' = [work EXCEPT ![w] = [pc |-> "counted", pages |-> j.pages, gen |-> j.gen]]
                   /\ (jobs # <<>> /\ j = Head(jobs)) \/ (queue # <<>> /\ j = Head(queue))
      BY <1>6 DEF TakeFault, TakeRun
    <2>2. work'[w] = [pc |-> "counted", pages |-> j.pages, gen |-> j.gen]
      BY <1>0, <2>1
    <2>3. \A u \in Workers \ {w} : work'[u] = work[u]
      BY <1>0, <2>1
    <2> QED BY <1>1, <1>2, <1>3, <1>4, <2>1, <2>2, <2>3
  <1>7. CASE \/ ReturnStaleFault(w) \/ FillFault(w) \/ FillFails(w) \/ FaultWorkerExits(w)
             \/ ReturnStaleRun(w) \/ GiveUpRun(w) \/ ReplayWorkerExits(w)
    <2>1. PICK x \in {Idle, Exited} : work' = [work EXCEPT ![w] = x]
      BY <1>7 DEF ReturnStaleFault, FillFault, FillFails, FaultWorkerExits, ReturnStaleRun, GiveUpRun, ReplayWorkerExits,
               Report
    <2>2. x.pages = {} /\ x.pc # "copying"
      BY <2>1 DEF Idle, Exited
    <2>3. work'[w] = x /\ \A u \in Workers \ {w} : work'[u] = work[u]
      BY <1>0, <2>1
    <2> QED BY <1>1, <1>2, <1>3, <1>4, <2>2, <2>3
  <1>8. CASE CopyRun(w)
    <2>1. PICK p : \/ work' = [work EXCEPT ![w] = Exited] \/ work' = [work EXCEPT ![w] = Idle]
                   \/ work' = [work EXCEPT ![w].pc = "job"]
                   \/ work' = [work EXCEPT ![w].pc = "job", ![w].pages = @ \ {p}]
      BY <1>8 DEF CopyRun, Report, Goto
    <2>2. \A u \in Workers \ {w} : work'[u] = work[u]
      BY <1>0, <2>1
    <2>3. \/ work'[w] = Exited \/ work'[w] = Idle \/ work'[w] = [work[w] EXCEPT !.pc = "job"]
          \/ work'[w] = [work[w] EXCEPT !.pc = "job", !.pages = @ \ {p}]
      BY <1>0, <2>1
    <2>4. /\ work'[w].pc # "copying"
          /\ \/ work'[w].pages = {}
             \/ work'[w].pages \subseteq work[w].pages /\ work'[w].gen = work[w].gen
      <3>1. CASE work'[w] = Exited \/ work'[w] = Idle
        BY <3>1 DEF Idle, Exited
      <3>2. CASE work'[w] = [work[w] EXCEPT !.pc = "job"]
        BY <1>0, <3>2 DEF Worker
      <3>3. CASE work'[w] = [work[w] EXCEPT !.pc = "job", !.pages = @ \ {p}]
        <4>1. work'[w].pc = "job" /\ work'[w].pages = work[w].pages \ {p} /\ work'[w].gen = work[w].gen
          BY <1>0, <3>3 DEF Worker
        <4> QED BY <4>1
      <3> QED BY <2>3, <3>1, <3>2, <3>3
    <2> QED BY <1>1, <1>2, <1>3, <1>4, <2>2, <2>4
  <1> QED BY <1>5, <1>6, <1>7, <1>8 DEF Work

LEMMA GateInvStep ==
    ASSUME TypeInv, GateInv, [Next]_vars PROVE GateInv'
  <1>1. CASE UNCHANGED <<pc, reading, got, generation, work>>
    BY <1>1 DEF GateInv
  <1>2. ASSUME pc \notin {"gate", "record"}, pc' \notin {"gate", "record"}, UNCHANGED <<reading, got, generation, work>>
        PROVE  GateInv'
    BY <1>2 DEF GateInv
  <1>3. CASE DrainEvents
    BY <1>3 DEF DrainEvents, Rests, GateInv
  <1>4. CASE ReadEvents
    BY <1>4 DEF ReadEvents, Copiers, GateInv
  <1>5. CASE RecordRemove
    BY <1>5 DEF RecordRemove, GateInv
  <1>6. ASSUME NEW w \in Workers, Work(w) PROVE GateInv'
    <2>1. UNCHANGED <<pc, reading, got, generation>>
      BY <1>6, WorkEffect DEF drainVars
    <2>2. \A u \in Workers : work'[u].pc = "copying" => work'[u].gen = generation /\ pc # "record"
      BY <1>6, WorkEffect DEF GateInv
    <2> QED BY <2>1, <2>2 DEF GateInv
  <1>7. CASE \/ Drained \/ Retried \/ RetryDue \/ WorkerReturns
             \/ (\E e \in batch : AnswerFault(e)) \/ (\E p \in todo : RetryParked(p))
    BY <1>1, <1>2, <1>7 DEF Drained, Retried, RetryDue, WorkerReturns, Returned, AnswerFault, RetryParked, RetryRound, Resume,
             Rests
  <1>8. CASE \/ ReplanStale \/ StepOver \/ PlanRun \/ PushRun \/ Flush \/ PoolGone
    BY <1>1, <1>2, <1>8 DEF ReplanStale, StepOver, PlanRun, PushRun, Flush, Flushed, PoolGone, Planning, DispatchRun, drainVars
  <1>9. CASE RoomNotified \/ OutcomeReported \/ CopyAlone \/ PlanDone \/ ReplayExited \/ JoinReplayWorkers
    BY <1>1, <1>2, <1>9 DEF RoomNotified, OutcomeReported, CopyAlone, PlanDone, ReplayExited, JoinReplayWorkers,
             RetryRound, Resume, Planning, drainVars
  <1>10. CASE ServiceEnds \/ ServiceFails \/ WorkerFailed \/ FailClosed \/ Done
    BY <1>2, <1>10 DEF ServiceEnds, ServiceFails, WorkerFailed, Returned, Rests, Fails, FailClosed, Done, drainVars
  <1>11. CASE Handler
    BY <1>3, <1>4, <1>5, <1>7, <1>8, <1>9, <1>10, <1>11 DEF Handler
  <1> QED BY <1>1, <1>6, <1>10, <1>11 DEF Next, Touch, Enqueue, GiveBack, LowerFlag, Zap, VmmExits, Finished, vars, drainVars

LEMMA GivenInvStep ==
    ASSUME TypeInv, GateInv, GivenInv, [Next]_vars PROVE GivenInv'
  <1>1. CASE UNCHANGED <<alive, balloon, given, removed, got>>
    BY <1>1 DEF GivenInv
  <1>2. ASSUME NEW S, GiveBack(S) PROVE GivenInv'
    <2>1. balloon.at = "idle" /\ balloon'.at = "queued" /\ UNCHANGED <<alive, given, removed, got>>
      BY <1>2 DEF GiveBack, drainVars
    <2> QED BY <2>1 DEF GivenInv
  <1>9. CASE LowerFlag
    <2>1. /\ balloon.at = "woken" /\ balloon'.at = "zapping" /\ balloon'.pages = balloon.pages
          /\ UNCHANGED <<alive, given, removed, got>>
      BY <1>9 DEF LowerFlag, drainVars, TypeInv, KernelType
    <2> QED BY <2>1 DEF GivenInv
  <1>3. CASE Zap
    <2>1. balloon.at = "zapping" /\ balloon'.at = "idle" /\ UNCHANGED <<alive, removed, got>>
      BY <1>3 DEF Zap, drainVars
    <2>2. given' = given \cup balloon.pages
      BY <1>3 DEF Zap
    <2> QED BY <2>1, <2>2 DEF GivenInv
  <1>4. CASE Dies
    BY <1>4 DEF Dies, GivenInv
  <1>5. CASE ReadEvents
    <2>1. got = {} /\ UNCHANGED <<alive, given, removed>>
      BY <1>5 DEF ReadEvents, GateInv
    <2>2. CASE got' = {}
      <3>1. balloon' = balloon
        BY <1>5, <2>2 DEF ReadEvents
      <3> QED BY <2>1, <2>2, <3>1 DEF GivenInv
    <2>3. CASE got' # {}
      <3>1. balloon.at = "queued" /\ got' = balloon.pages /\ balloon' = [balloon EXCEPT !.at = "woken"]
        BY <1>5, <2>3 DEF ReadEvents
      <3>2. balloon'.at = "woken" /\ balloon'.pages = balloon.pages
        BY <3>1 DEF TypeInv, KernelType
      <3> QED BY <2>1, <3>1, <3>2 DEF GivenInv
    <2> QED BY <2>2, <2>3
  <1>6. CASE RecordRemove
    <2>1. removed' \cup got' = removed \cup got /\ UNCHANGED <<alive, balloon, given>>
      BY <1>6 DEF RecordRemove, kernelVars
    <2> QED BY <2>1 DEF GivenInv
  <1>7. ASSUME NEW w \in Workers, Work(w) PROVE GivenInv'
    BY <1>1, <1>7, WorkEffect DEF drainVars
  <1>8. CASE Handler
    BY <1>1, <1>4, <1>5, <1>6, <1>8
    DEF Handler, DrainEvents, Drained, Retried, RetryDue, WorkerReturns,
             AnswerFault, RetryParked, ReplanStale, StepOver, PlanRun, PushRun, Flush, PoolGone, RoomNotified, OutcomeReported,
             CopyAlone, PlanDone, ReplayExited, JoinReplayWorkers, ServiceEnds, WorkerFailed, Fails, FailClosed, Done, kernelVars, drainVars
  <1> QED BY <1>1, <1>2, <1>3, <1>4, <1>7, <1>8, <1>9
      DEF Next, ServiceFails, Fails, Touch, Enqueue, VmmExits, Finished, vars, kernelVars, drainVars

LEMMA JobInvStep ==
    ASSUME TypeInv, JobInv, [Next]_vars PROVE JobInv'
  <1>0. /\ work \in [Workers -> Worker] /\ jobs \in Seq(Job) /\ queue \in Seq(Job)
        /\ generation \in Nat /\ planned \in 0..generation /\ pending \in Job /\ held \in Job
    BY DEF TypeInv, WorkType, ReplayType, CountType
  <1>1. CASE UNCHANGED <<removed, generation, work, jobs, queue, pending, held, planned, stretch>>
    BY <1>1 DEF JobInv, Fresh
  <1>2. CASE RecordRemove
    <2>1. UNCHANGED <<work, jobs, queue, pending, held, planned, stretch>>
      BY <1>2 DEF RecordRemove, faultVars, replayVars
    <2>2. CASE got = {}
      <3>1. removed' = removed /\ generation' = generation
        BY <1>2, <2>2 DEF RecordRemove
      <3> QED BY <1>1, <2>1, <3>1
    <2>3. CASE got # {}
      <3>1. generation' = generation + 1
        BY <1>2, <2>3 DEF RecordRemove
      <3>2. \A j \in Job : j.gen # generation'
        BY <1>0, <3>1 DEF Job
      <3>3. \A w \in Workers : work[w].gen # generation'
        BY <1>0, <3>1 DEF Worker
      <3>4. /\ \A i \in 1..Len(jobs) : jobs[i] \in Job
            /\ \A i \in 1..Len(queue) : queue[i] \in Job
        BY <1>0, ElementOfSeq
      <3>5. planned # generation'
        BY <1>0, <3>1
      <3> QED BY <1>0, <2>1, <3>2, <3>3, <3>4, <3>5 DEF JobInv, Fresh
    <2> QED BY <2>2, <2>3
  <1>3. ASSUME NEW e \in batch, AnswerFault(e) PROVE JobInv'
    <2>0. UNCHANGED <<removed, generation, work, queue, pending, held, planned, stretch>>
      BY <1>3 DEF AnswerFault, replayVars
    <2>1. CASE jobs' = jobs
      BY <1>1, <2>0, <2>1
    <2>2. CASE jobs' # jobs
      <3> DEFINE j == [pages |-> {e.page}, gen |-> generation]
      <3>1. jobs' = Append(jobs, j) /\ e.page \notin removed
        BY <1>3, <2>2 DEF AnswerFault, Submitted
      <3>2. j \in Job /\ j.pages \cap removed = {}
        BY <3>1 DEF Job, TypeInv, DrainType, CountType
      <3> HIDE DEF j
      <3>3. \A i \in 1..Len(jobs') : (i \in 1..Len(jobs) /\ jobs'[i] = jobs[i]) \/ jobs'[i] = j
        BY <1>0, <3>1, <3>2, SeqOfAppend
      <3> QED BY <2>0, <3>2, <3>3 DEF JobInv, Fresh
    <2> QED BY <2>1, <2>2
  <1>4. CASE ReplanStale \/ PlanRun
    <2>0. UNCHANGED <<removed, generation, work, jobs, queue, held>>
      BY <1>4 DEF ReplanStale, PlanRun, drainVars, faultVars
    <2>1. PICK s : DispatchRun(s) /\ s \cap removed = {}
      <3>1. CASE ReplanStale
        <4>1. PICK p : DispatchRun({p} \ removed)
          BY <3>1 DEF ReplanStale
        <4> QED BY <4>1
      <3>2. CASE PlanRun
        <4>1. PICK last : DispatchRun(next..last) /\ \A p \in next..last : p \notin removed
          BY <3>2 DEF PlanRun
        <4> DEFINE s == next..last
        <4>2. DispatchRun(s) /\ \A p \in s : p \notin removed
          BY <4>1
        <4> HIDE DEF s
        <4> QED BY <4>2
      <3> QED BY <1>4, <3>1, <3>2
    <2>2. stretch' \cap removed = {} /\ planned' = generation
      BY <2>1 DEF DispatchRun
    <2>3. /\ pending'.gen <= generation
          /\ pending'.gen = generation => pending'.pages \cap removed = {}
      BY <1>0, <2>1 DEF DispatchRun, Job, JobInv, Fresh
    <2> QED BY <2>0, <2>2, <2>3 DEF JobInv, Fresh
  <1>5. CASE PushRun
    <2>0. UNCHANGED <<removed, generation, work, jobs, queue, planned>>
      BY <1>5 DEF PushRun, drainVars, faultVars
    <2>1. PICK p \in stretch :
              /\ stretch' = stretch \ {p}
              /\ LET job == [pending EXCEPT !.pages = @ \cup {p}] IN
                 \/ held' = job /\ pending' = [NoJob EXCEPT !.gen = planned]
                 \/ pending' = job /\ held' = held
      BY <1>5 DEF PushRun
    <2> DEFINE j == [pending EXCEPT !.pages = @ \cup {p}]
               n == [NoJob EXCEPT !.gen = planned]
    <2>2. /\ j.gen = pending.gen /\ j.pages = pending.pages \cup {p}
          /\ n.gen = planned /\ n.pages = {}
      BY <1>0 DEF Job, NoJob
    <2>3. (held' = j /\ pending' = n) \/ (pending' = j /\ held' = held)
      BY <2>1
    <2> HIDE DEF j, n
    <2>4. j.gen <= planned /\ n.gen <= planned
      BY <1>0, <2>2 DEF JobInv
    <2>5. Fresh(j) /\ Fresh(n)
      <3>1. pending.gen \in Nat /\ planned \in Nat /\ planned <= generation
        BY <1>0 DEF Job
      <3>2. pending.gen = generation => planned = generation
        BY <1>0, <3>1 DEF JobInv
      <3> QED BY <2>2, <3>2 DEF JobInv, Fresh
    <2>6. stretch' \subseteq stretch
      BY <2>1
    <2> QED BY <2>0, <2>3, <2>4, <2>5, <2>6 DEF JobInv, Fresh
  <1>6. CASE Flush
    <2>0. UNCHANGED <<removed, generation, work, jobs, pending, planned, stretch>>
      BY <1>6 DEF Flush, drainVars, faultVars
    <2> DEFINE j == Replanned(held)
    <2>1. j \in Job /\ Fresh(j)
      BY <1>0 DEF Replanned, Kept, Job, JobInv, Fresh
    <2>2. /\ held' = held \/ held' = NoJob \/ held' = j
          /\ queue' = queue \/ queue' = Append(queue, j)
      BY <1>6 DEF Flush, Flushed
    <2> HIDE DEF j
    <2>3. \A i \in 1..Len(queue') : (i \in 1..Len(queue) /\ queue'[i] = queue[i]) \/ queue'[i] = j
      BY <1>0, <2>1, <2>2, SeqOfAppend
    <2>4. Fresh(NoJob)
      BY DEF Fresh, NoJob
    <2> QED BY <2>0, <2>1, <2>2, <2>3, <2>4 DEF JobInv, Fresh
  <1>7. CASE PlanDone \/ PoolGone \/ ReplayExited \/ JoinReplayWorkers \/ ServiceFails \/ WorkerFailed
    <2>0. UNCHANGED <<removed, generation, work, jobs, queue>>
      BY <1>7 DEF PlanDone, PoolGone, ReplayExited, JoinReplayWorkers, ServiceFails, WorkerFailed, Fails, drainVars, faultVars
    <2>1. /\ held' \in {held, pending, NoJob} /\ pending' \in {pending, NoJob}
          /\ planned' = planned \/ (planned' = 0 /\ pending' = NoJob)
          /\ stretch' = stretch \/ stretch' = {}
      BY <1>7 DEF PlanDone, PoolGone, ReplayExited, JoinReplayWorkers, ServiceFails, WorkerFailed, Fails
    <2>2. Fresh(NoJob) /\ NoJob.gen = 0
      BY DEF Fresh, NoJob
    <2>3. pending'.gen <= planned'
      BY <1>0, <2>1, <2>2 DEF JobInv
    <2>4. planned' = generation => planned = generation
      BY <1>0, <2>1
    <2> QED BY <2>0, <2>1, <2>2, <2>3, <2>4 DEF JobInv, Fresh
  <1>8. ASSUME NEW w \in Workers, Work(w) PROVE JobInv'
    <2>0. UNCHANGED <<removed, generation, pending, held, planned, stretch>>
      BY <1>8, WorkEffect DEF drainVars
    <2>1. jobs # <<>> => Fresh(Head(jobs)) /\ \A i \in 1..Len(Tail(jobs)) : Fresh(Tail(jobs)[i])
      BY <1>0, SeqOfTail DEF JobInv
    <2>2. queue # <<>> => Fresh(Head(queue)) /\ \A i \in 1..Len(Tail(queue)) : Fresh(Tail(queue)[i])
      BY <1>0, SeqOfTail DEF JobInv
    <2>3. \A u \in Workers : Fresh(work'[u])
      BY <1>8, <2>1, <2>2, WorkEffect DEF JobInv, Fresh
    <2>4. /\ \A i \in 1..Len(jobs') : Fresh(jobs'[i])
          /\ \A i \in 1..Len(queue') : Fresh(queue'[i])
      BY <1>8, <2>1, <2>2, WorkEffect DEF JobInv
    <2> QED BY <2>0, <2>3, <2>4 DEF JobInv, Fresh
  <1>9. CASE Handler
    BY <1>1, <1>2, <1>3, <1>4, <1>5, <1>6, <1>7, <1>9
    DEF Handler, DrainEvents, ReadEvents, Drained, Retried, RetryDue, WorkerReturns, RetryParked, StepOver,
             RoomNotified, OutcomeReported, CopyAlone, ServiceEnds, FailClosed, Done, drainVars, faultVars, replayVars
  <1> QED BY <1>1, <1>7, <1>8, <1>9
      DEF Next, Touch, Enqueue, GiveBack, LowerFlag, Zap, VmmExits, Finished, vars, drainVars, faultVars, replayVars

-----------------------------------------------------------------------------
(* Replay: what is in hand, and that a pool which is gone although the VMM *)
(* lives never had work or was told to end.                                *)
ReplayInv ==
    /\ held = NoJob \/ held.pages # {}
    /\ pc \in {"flush", "room"} => held # NoJob
    /\ pc \in {"idle", "push"} => held = NoJob
    /\ held = NoJob /\ pc # "push" => stretch = {}
    /\ closed => held = NoJob /\ stretch = {}
    /\ mode # "plan" => stretch = {}
    /\ rstop => closed
    /\ mode = "serve" => closed /\ ~Pool
    /\ mode = "plan" /\ closed => pc \in {"fail", "join", "done"}
    /\ ~Pool /\ alive /\ ~closed => held.pages = {} /\ pending.pages = {} /\ stretch = {}

(* The handler says that the clone is gone only when it is; it joins its   *)
(* workers only then, and when the replay workers are joined.              *)
GoneInv ==
    /\ gone => ~alive
    /\ \A i \in 1..Len(back) : back[i].kind = "gone" => ~alive
    /\ "gone" \in news => ~alive
    /\ pc \in {"join", "done"} => ~alive /\ ~Pool
    /\ pc = "done" => \A w \in Workers : work[w].pc = "exited"

EndInv == ReplayInv /\ GoneInv

(* A worker that has exited stays so, and a replay worker exits when its   *)
(* fill finds no process or when the queue is closed.                      *)
LEMMA WorkExits ==
    ASSUME TypeInv, ReplayInv, NEW w \in Workers, Work(w)
    PROVE  /\ \A u \in Workers : work[u].pc = "exited" => work'[u].pc = "exited"
           /\ Pool' => Pool
           /\ ~Pool' /\ alive /\ ~closed => ~Pool
  <1>0. work \in [Workers -> Worker] /\ \A u \in Workers \ {w} : work'[u] = work[u]
    BY WorkEffect DEF TypeInv, WorkType
  <1>1. work[w].pc # "exited"
    BY DEF Work, CountIn, Enter, TakeFault, ReturnStaleFault, FillFault, FillFails, FaultWorkerExits, TakeRun,
             ReturnStaleRun, CopyRun, GiveUpRun, ReplayWorkerExits, Overtaken
  <1>2. ASSUME w \in ReplayWorkers, alive, ~closed PROVE work'[w].pc # "exited"
    <2>1. w \notin FaultWorkers /\ ~rstop
      BY <1>2, UffdCloneAssumption DEF ReplayInv
    <2>2. CASE CountIn(w) \/ Enter(w)
      <3>1. PICK s \in {"counted", "spin", "copying"} : work' = [work EXCEPT ![w].pc = s]
        BY <2>2 DEF CountIn, Enter, Goto
      <3> QED BY <1>0, <3>1 DEF Worker
    <2>3. CASE TakeRun(w)
      <3>1. work'[w] = [pc |-> "counted", pages |-> Head(queue).pages, gen |-> Head(queue).gen]
        BY <1>0, <2>3 DEF TakeRun
      <3> QED BY <3>1
    <2>4. CASE ReturnStaleRun(w) \/ GiveUpRun(w)
      BY <1>0, <2>4 DEF ReturnStaleRun, GiveUpRun, Report, Idle
    <2>5. CASE CopyRun(w)
      <3>1. PICK p : \/ work' = [work EXCEPT ![w] = Idle]
                     \/ work' = [work EXCEPT ![w].pc = "job"]
                     \/ work' = [work EXCEPT ![w].pc = "job", ![w].pages = @ \ {p}]
        BY <1>2, <2>5 DEF CopyRun, Report, Goto, Outcome
      <3>2. CASE work' = [work EXCEPT ![w] = Idle]
        BY <1>0, <3>2 DEF Idle
      <3>3. CASE work' = [work EXCEPT ![w].pc = "job"]
        BY <1>0, <3>3 DEF Worker
      <3>4. CASE work' = [work EXCEPT ![w].pc = "job", ![w].pages = @ \ {p}]
        BY <1>0, <3>4 DEF Worker
      <3> QED BY <3>1, <3>2, <3>3, <3>4
    <2>6. ~ ReplayWorkerExits(w)
      BY <1>2, <2>1 DEF ReplayWorkerExits
    <2> QED BY <2>1, <2>2, <2>3, <2>4, <2>5, <2>6 DEF Work
  <1>3. ReplayWorkers \subseteq Workers
    BY DEF Workers
  <1> QED BY <1>0, <1>1, <1>2, <1>3 DEF Pool

LEMMA ReplayInvStep ==
    ASSUME TypeInv, EndInv, [Next]_vars PROVE ReplayInv'
  <1>0. ReplayInv /\ NoJob.pages = {}
    BY DEF EndInv, NoJob
  <1>1. ASSUME UNCHANGED work PROVE Pool' <=> Pool
    BY <1>1 DEF Pool
  <1>2. CASE UNCHANGED <<pc, mode, work, stretch, pending, held, closed, rstop>> /\ (alive' => alive)
    BY <1>0, <1>1, <1>2 DEF ReplayInv
  <1>3. ASSUME pc' \notin {"flush", "room", "idle", "push"}, pc \notin {"push", "fail", "join", "done"},
               UNCHANGED <<alive, mode, work, stretch, pending, held, closed, rstop>>
        PROVE  ReplayInv'
    BY <1>0, <1>1, <1>3 DEF ReplayInv
  <1>4. CASE DrainEvents \/ ReadEvents \/ RecordRemove
    BY <1>3, <1>4 DEF DrainEvents, ReadEvents, RecordRemove, Rests, kernelVars, replayVars
  <1>5. ASSUME pc' \in {Resume, "retry"}, pc \in {"idle", "room", "answer", "retry"},
               UNCHANGED <<alive, mode, work, stretch, pending, held, closed, rstop>>
        PROVE  ReplayInv'
    BY <1>0, <1>1, <1>5 DEF ReplayInv, Resume
  <1>6. CASE Drained \/ Retried \/ RetryDue \/ WorkerReturns \/ RoomNotified \/ OutcomeReported
    BY <1>5, <1>6 DEF Drained, Retried, RetryDue, WorkerReturns, Returned, RoomNotified, OutcomeReported, RetryRound, Rests,
             kernelVars, replayVars
  <1>7. CASE (\E e \in batch : AnswerFault(e)) \/ (\E p \in todo : RetryParked(p)) \/ StepOver \/ CopyAlone
    BY <1>2, <1>7 DEF AnswerFault, RetryParked, StepOver, CopyAlone, kernelVars, replayVars
  <1>8. CASE ReplanStale \/ PlanRun
    <2>1. /\ pc = "idle" /\ mode = "plan" /\ Pool
          /\ UNCHANGED <<alive, mode, work, held, closed, rstop>>
      BY <1>8 DEF ReplanStale, PlanRun, Planning, kernelVars
    <2>2. pc' = IF stretch' = {} THEN "idle" ELSE "push"
      BY <1>8 DEF ReplanStale, PlanRun, DispatchRun
    <2> QED BY <1>0, <1>1, <2>1, <2>2 DEF ReplayInv
  <1>9. CASE PushRun
    <2>1. pc = "push" /\ UNCHANGED <<alive, mode, work, closed, rstop>>
      BY <1>9 DEF PushRun, kernelVars
    <2>2. PICK p \in stretch :
              /\ stretch' = stretch \ {p}
              /\ \/ held' = [pending EXCEPT !.pages = @ \cup {p}] /\ pc' = "flush"
                 \/ held' = held /\ pc' = IF stretch = {p} THEN "idle" ELSE "push"
      BY <1>9 DEF PushRun
    <2>3. [pending EXCEPT !.pages = @ \cup {p}].pages # {}
      BY DEF TypeInv, ReplayType, Job
    <2>4. mode = "plan" /\ ~closed /\ (alive => Pool) /\ held = NoJob /\ ~rstop
      BY <1>0, <2>1, <2>2 DEF ReplayInv, TypeInv, DrainType
    <2>5. \/ held'.pages # {} /\ pc' = "flush"
          \/ held' = NoJob /\ pc' \in {"idle", "push"} /\ (pc' # "push" => stretch' = {})
      BY <2>2, <2>3, <2>4
    <2> QED BY <1>0, <1>1, <2>1, <2>4, <2>5 DEF ReplayInv
  <1>10. CASE Flush
    <2>1. pc = "flush" /\ UNCHANGED <<alive, mode, work, stretch, pending, rstop>>
      BY <1>10 DEF Flush, kernelVars
    <2>2. held # NoJob /\ held.pages # {} /\ ~closed /\ (alive => Pool) /\ mode # "serve" /\ ~rstop
      BY <1>0, <2>1 DEF ReplayInv
    <2>3. CASE Flushed
      BY <1>0, <1>1, <2>1, <2>2, <2>3 DEF Flushed, ReplayInv
    <2>4. CASE Replanned(held).pages # {} /\ held' = Replanned(held) /\ pc' = "room" /\ UNCHANGED closed
      BY <1>0, <1>1, <2>1, <2>2, <2>4 DEF ReplayInv
    <2> QED BY <1>10, <2>3, <2>4 DEF Flush
  <1>17. CASE PoolGone
    <2>1. /\ pc = "flush" /\ pc' = "idle" /\ held' = NoJob /\ ~Pool
          /\ UNCHANGED <<alive, mode, work, rstop>>
          /\ IF mode = "plan" THEN stretch' = {} /\ pending' = NoJob /\ closed' = closed
             ELSE closed' = TRUE /\ UNCHANGED <<stretch, pending>>
      BY <1>17 DEF PoolGone
    <2> QED BY <1>0, <1>1, <2>1 DEF ReplayInv
  <1>11. CASE PlanDone
    <2>1. /\ pc = "idle" /\ mode = "plan" /\ mode' = "finish"
          /\ UNCHANGED <<alive, work, stretch, rstop>>
      BY <1>11 DEF PlanDone, Planning, kernelVars
    <2>2. held = NoJob /\ stretch = {} /\ ~closed
      BY <1>0, <2>1 DEF ReplayInv
    <2>3. \/ closed' = TRUE /\ UNCHANGED <<held, pending, pc>>
          \/ pending.pages # {} /\ Pool /\ held' = pending /\ pending' = NoJob /\ pc' = "flush" /\ UNCHANGED closed
      BY <1>11 DEF PlanDone
    <2> QED BY <1>0, <1>1, <2>1, <2>2, <2>3 DEF ReplayInv
  <1>12. CASE ReplayExited \/ ServiceFails \/ WorkerFailed
    <2>1. /\ closed' = TRUE /\ held' = NoJob /\ stretch' = {}
          /\ UNCHANGED <<alive, work>>
      BY <1>12 DEF ReplayExited, ServiceFails, WorkerFailed, Fails, kernelVars
    <2>2. pc' \in {"idle", "fail"} /\ (pc' = "fail" \/ mode' = "finish") /\ (mode' = "serve" => mode = "serve")
      BY <1>12 DEF ReplayExited, ServiceFails, WorkerFailed, Fails
    <2> QED BY <1>0, <1>1, <2>1, <2>2 DEF ReplayInv
  <1>13. CASE JoinReplayWorkers
    BY <1>0, <1>1, <1>13 DEF JoinReplayWorkers, ReplayInv, kernelVars
  <1>14. CASE ServiceEnds \/ FailClosed \/ Done
    <2>1. /\ pc \in {"idle", "fail", "join"} /\ pc' \in {"join", "done"}
          /\ alive' => alive
          /\ UNCHANGED <<mode, work, stretch, pending, held, closed, rstop>>
      BY <1>14 DEF ServiceEnds, WorkerFailed, Fails, FailClosed, Done, Dies, kernelVars, replayVars
    <2> QED BY <1>0, <1>1, <2>1 DEF ReplayInv
  <1>15. ASSUME NEW w \in Workers, Work(w) PROVE ReplayInv'
    <2>1. UNCHANGED <<alive, pc, mode, stretch, pending, held, closed, rstop>>
      BY <1>15, WorkEffect
    <2>2. (Pool' => Pool) /\ (~Pool' /\ alive /\ ~closed => ~Pool)
      BY <1>0, <1>15, WorkExits
    <2> QED BY <1>0, <2>1, <2>2 DEF ReplayInv
  <1>16. CASE Handler
    BY <1>4, <1>6, <1>7, <1>8, <1>9, <1>10, <1>11, <1>12, <1>13, <1>14, <1>16, <1>17 DEF Handler
  <1> QED BY <1>2, <1>12, <1>15, <1>16
      DEF Next, Touch, Enqueue, GiveBack, LowerFlag, Zap, VmmExits, Dies, Finished, vars, kernelVars, replayVars

LEMMA GoneInvStep ==
    ASSUME TypeInv, EndInv, [Next]_vars PROVE GoneInv'
  <1>0. GoneInv /\ ReplayInv
    BY DEF EndInv
  <1>1. ASSUME UNCHANGED work PROVE Pool' <=> Pool
    BY <1>1 DEF Pool
  <1>2. ASSUME UNCHANGED <<back, work>>, news' \subseteq news, alive' => alive, gone' => gone \/ ~alive,
               pc' \in {"join", "done"} => pc' = pc
        PROVE  GoneInv'
    BY <1>0, <1>1, <1>2 DEF GoneInv
  <1>3. CASE \/ DrainEvents \/ ReadEvents \/ RecordRemove \/ Drained \/ Retried \/ RetryDue
    BY <1>2, <1>3 DEF DrainEvents, ReadEvents, RecordRemove, Drained, Retried, RetryDue, RetryRound, Resume,
             kernelVars, faultVars, replayVars
  <1>4. CASE (\E e \in batch : AnswerFault(e)) \/ (\E p \in todo : RetryParked(p)) \/ CopyAlone \/ PoolGone
    BY <1>2, <1>4 DEF AnswerFault, RetryParked, ResolveFault, CopyAlone, PoolGone, Outcome, faultVars, replayVars
  <1>5. CASE \/ ReplanStale \/ StepOver \/ PlanRun \/ PushRun \/ Flush \/ RoomNotified \/ OutcomeReported
    BY <1>0, <1>2, <1>5 DEF GoneInv, Flush, Flushed, ReplanStale, StepOver, PlanRun, PushRun, DispatchRun, RoomNotified, OutcomeReported,
             RetryRound, Resume, kernelVars, faultVars
  <1>7. CASE PlanDone \/ ReplayExited \/ JoinReplayWorkers
    BY <1>2, <1>7 DEF PlanDone, ReplayExited, JoinReplayWorkers, kernelVars, faultVars
  <1>6. ASSUME back # <<>> /\ back' = Tail(back), UNCHANGED <<alive, work, news>>, gone' => gone \/ ~alive,
               pc' \notin {"join", "done"}
        PROVE  GoneInv'
    <2>1. back \in Seq(Return)
      BY DEF TypeInv, WorkType
    <2>2. \A i \in 1..Len(back') : back'[i] = back[i + 1] /\ i + 1 \in 1..Len(back)
      BY <1>6, <2>1, SeqOfTail
    <2> QED BY <1>0, <1>1, <1>6, <2>2 DEF GoneInv
  <1>13. CASE ServiceFails \/ WorkerFailed
    <2>1. UNCHANGED <<alive, work, news, gone>> /\ pc' = "fail"
      BY <1>13 DEF ServiceFails, WorkerFailed, Fails, kernelVars
    <2>2. back' = back \/ (back # <<>> /\ back' = Tail(back))
      BY <1>13 DEF ServiceFails, WorkerFailed, Returned, Rests
    <2> QED BY <1>2, <1>6, <2>1, <2>2
  <1>8. CASE WorkerReturns
    <2>1. back \in Seq(Return) /\ back # <<>> /\ back' = Tail(back)
      BY <1>8 DEF WorkerReturns, Returned, TypeInv, WorkType
    <2>2. /\ Head(back) \in Return /\ Head(back) = back[1] /\ 1 \in 1..Len(back)
      BY <2>1, SeqOfTail
    <2>3. Head(back).kind = "gone" => ~alive
      BY <1>0, <2>2 DEF GoneInv
    <2>4. gone' => gone \/ ~alive
      BY <1>8, <2>2, <2>3 DEF WorkerReturns, Returned, ResolveFault, Outcome, Return
    <2>5. UNCHANGED <<alive, work, news>> /\ pc' \notin {"join", "done"}
      BY <1>8 DEF WorkerReturns, RetryRound, Resume, replayVars
    <2> QED BY <1>6, <2>1, <2>4, <2>5
  <1>9. CASE ServiceEnds \/ FailClosed \/ Done
    <2>1. UNCHANGED <<back, work, gone, news>> /\ (alive' => alive)
      BY <1>9 DEF ServiceEnds, FailClosed, Done, Dies, faultVars, kernelVars, replayVars
    <2>2. pc' \in {"join", "done"} /\ ~alive' /\ ~Pool
      BY <1>0, <1>9 DEF ServiceEnds, WorkerFailed, Fails, FailClosed, Done, Dies, kernelVars, GoneInv, ReplayInv
    <2>3. pc' = "done" => \A w \in FaultWorkers : work[w].pc = "exited"
      BY <1>9 DEF ServiceEnds, WorkerFailed, Fails, FailClosed, Done
    <2>4. pc' = "done" => \A w \in Workers : work[w].pc = "exited"
      BY <2>2, <2>3 DEF Pool, Workers
    <2> QED BY <1>0, <1>1, <2>1, <2>2, <2>4 DEF GoneInv
  <1>10. ASSUME NEW w \in Workers, Work(w) PROVE GoneInv'
    <2>1. UNCHANGED <<alive, pc, gone>>
      BY <1>10, WorkEffect
    <2>2. (Pool' => Pool) /\ \A u \in Workers : work[u].pc = "exited" => work'[u].pc = "exited"
      BY <1>0, <1>10, WorkExits
    <2>3. \A i \in 1..Len(back') : back'[i].kind = "gone" => ~alive
      <3>1. CASE back' = back
        BY <1>0, <3>1 DEF GoneInv
      <3>2. CASE back' # back
        <4>1. /\ work[w].pages \subseteq Pages
              /\ ReturnStaleFault(w) \/ FillFault(w) \/ FillFails(w)
          BY <1>10, <3>2 DEF Work, CountIn, Enter, TakeFault, FaultWorkerExits, TakeRun,
             ReturnStaleRun, CopyRun, GiveUpRun, ReplayWorkerExits, faultVars, TypeInv, WorkType, Worker
        <4>2. PICK p \in Pages : \E k \in {"stale", "retry", "gone", "failed"} : (k = "gone" => ~alive) /\ SendBack(p, k)
          BY <3>2, <4>1 DEF ReturnStaleFault, FillFault, FillFails, Outcome
        <4>3. PICK k \in {"stale", "retry", "gone", "failed"} : (k = "gone" => ~alive) /\ SendBack(p, k)
          BY <4>2
        <4> DEFINE e == [kind |-> k, page |-> p]
        <4>4. e \in Return /\ e.kind = k
          BY DEF Return
        <4>5. back' = Append(back, e)
          BY <4>3 DEF SendBack
        <4> HIDE DEF e
        <4>6. \A i \in 1..Len(back') : (i \in 1..Len(back) /\ back'[i] = back[i]) \/ back'[i] = e
          BY <4>4, <4>5, SeqOfAppend DEF TypeInv, WorkType
        <4> QED BY <1>0, <4>3, <4>4, <4>6 DEF GoneInv
      <3> QED BY <3>1, <3>2
    <2>4. "gone" \in news' => "gone" \in news \/ ~alive
      BY <1>10 DEF Work, CountIn, Enter, TakeFault, ReturnStaleFault, FillFault, FillFails, FaultWorkerExits, TakeRun,
             ReturnStaleRun, CopyRun, GiveUpRun, ReplayWorkerExits, Report, Outcome, replayVars
    <2> QED BY <1>0, <2>1, <2>2, <2>3, <2>4 DEF GoneInv
  <1>11. CASE Handler
    BY <1>3, <1>4, <1>5, <1>7, <1>8, <1>9, <1>11, <1>13 DEF Handler
  <1>12. CASE \/ \E v \in Vcpus : Enqueue(v) \/ \E p \in Pages : Touch(v, p)
              \/ \E S : GiveBack(S)
              \/ LowerFlag \/ Zap \/ VmmExits \/ Finished \/ UNCHANGED vars
    BY <1>2, <1>12 DEF Touch, Enqueue, GiveBack, LowerFlag, Zap, VmmExits, Dies, Finished, vars, kernelVars, faultVars, replayVars
  <1> QED BY <1>10, <1>11, <1>12, <1>13 DEF Next

LEMMA EndInvInit == Init => EndInv
  <1> SUFFICES ASSUME Init PROVE EndInv
    OBVIOUS
  <1>1. mode = "serve" => ~Pool
    BY UffdCloneAssumption DEF Init, Pool, Workers, Exited
  <1>2. ReplayInv
    BY <1>1 DEF Init, ReplayInv, NoJob
  <1>3. back = <<>> /\ Len(<<>>) = 0
    BY DEF Init
  <1>4. GoneInv
    BY <1>3 DEF Init, GoneInv
  <1> QED BY <1>2, <1>4 DEF EndInv

LEMMA EndInvStep == TypeInv /\ EndInv /\ [Next]_vars => EndInv'
  BY ReplayInvStep, GoneInvStep DEF EndInv

(* When the service of a clone ends, by the VMM's exit, a fill that found  *)
(* no process, or a failure (serve_clone_fail_closed), no VMM is left that *)
(* could fault for nothing and no worker that could touch the snapshot's   *)
(* mapping; and replay is over only when its workers are.                  *)
THEOREM ServiceEndsClean == Spec => []EndsClean
  <1>1. TypeInv /\ EndInv => EndsClean
    BY DEF EndInv, ReplayInv, GoneInv, EndsClean
  <1> QED BY <1>1, TypeInit, TypeStep, EndInvInit, EndInvStep, PTL DEF Spec
-----------------------------------------------------------------------------
(* What the pages map. *)

LEMMA PagesRightStep ==
    ASSUME TypeInv, EndInv, PageInv, [Next]_vars PROVE PagesRight'
  <1>0. mem \in [Pages -> {"absent", "data", "zero"}]
    BY DEF TypeInv, KernelType
  <1>1. CASE UNCHANGED kernelVars
    BY <1>1 DEF kernelVars, PageInv, PagesRight, Dropping
  <1>2. ASSUME NEW p \in Pages, NEW c \in {"data", "zero"}, Fill(p, c) PROVE PagesRight'
    <2>1. /\ mem' = mem \/ (alive /\ ~Changing /\ mem[p] = "absent" /\ mem' = [mem EXCEPT ![p] = c])
          /\ given' = given /\ Dropping' = Dropping
      BY <1>2, FillEffect DEF TypeInv, Fill, Dropping
    <2>2. ASSUME alive, ~Changing
          PROVE  (c = "data" => p \notin given) /\ (c = "zero" => p \in given \cup Dropping)
      <3>1. got = {}
        BY <1>2 DEF Fill, PageInv, GateInv
      <3>2. given \subseteq removed /\ removed \subseteq given \cup Dropping
        BY <2>2, <3>1 DEF Changing, Dropping, PageInv, GivenInv
      <3>3. c = Content(p) \/ (c = "data" /\ p \notin removed)
        BY <1>2 DEF Fill, PageInv, GateInv, JobInv, Fresh
      <3> QED BY <3>2, <3>3 DEF Content
    <2>3. \A q \in Pages : mem'[q] = mem[q] \/ (q = p /\ mem'[q] = c /\ alive /\ ~Changing)
      BY <1>0, <2>1
    <2> QED BY <2>1, <2>2, <2>3 DEF PageInv, PagesRight
  <1>3. CASE Zap
    <2>1. /\ Dropping = balloon.pages /\ Dropping' = {} /\ given' = given \cup balloon.pages
          /\ \A p \in Pages : mem'[p] = IF p \in balloon.pages THEN "absent" ELSE mem[p]
      BY <1>3 DEF Zap, Dropping
    <2> QED BY <2>1 DEF PageInv, PagesRight
  <1>8. CASE LowerFlag
    BY <1>8 DEF LowerFlag, Dropping, PageInv, PagesRight
  <1>9. CASE PoolGone
    <2>1. ~alive
      BY <1>9 DEF PoolGone, EndInv, ReplayInv
    <2>2. held.pages \subseteq Pages /\ KernelType
      BY DEF TypeInv, ReplayType, Job
    <2>3. mem' = mem /\ UNCHANGED <<given, balloon>>
      BY <1>9, <2>1, <2>2, FillEffect DEF PoolGone
    <2> QED BY <2>3 DEF Dropping, PageInv, PagesRight
  <1>4. CASE Dies
    BY <1>4 DEF Dies, PagesRight
  <1>5. CASE ReadEvents
    <2>1. mem' = mem /\ given' = given /\ (balloon' = balloon \/ balloon.at = "queued")
      BY <1>5 DEF ReadEvents
    <2> QED BY <2>1 DEF Dropping, PageInv, PagesRight
  <1>6. ASSUME Handler \/ ServiceFails \/ (\E w \in Workers : Work(w)) \/ Finished PROVE PagesRight'
    BY <1>1, <1>2, <1>4, <1>5, <1>6, <1>9, FillSteps, OtherSteps DEF FailClosed
  <1>7. CASE \/ \E v \in Vcpus : Enqueue(v) \/ \E p \in Pages : Touch(v, p)
             \/ \E S : GiveBack(S)
    BY <1>7 DEF Enqueue, Touch, GiveBack, Dropping, PageInv, PagesRight
  <1> QED BY <1>1, <1>3, <1>4, <1>6, <1>7, <1>8 DEF Next, VmmExits, vars

LEMMA PageInvInit == Init => PageInv
  <1> SUFFICES ASSUME Init PROVE PageInv
    OBVIOUS
  <1>1. \A w \in Workers : work[w].pc \in {"idle", "exited"} /\ work[w].pages = {}
    BY DEF Init, Idle, Exited
  <1>2. GateInv /\ GivenInv /\ PagesRight
    BY <1>1 DEF Init, GateInv, GivenInv, PagesRight
  <1>3. jobs = <<>> /\ queue = <<>> /\ Len(<<>>) = 0
    BY DEF Init
  <1>4. JobInv
    BY <1>1, <1>3 DEF Init, JobInv, Fresh, NoJob
  <1> QED BY <1>2, <1>4 DEF PageInv

LEMMA PageInvStep == TypeInv /\ EndInv /\ PageInv /\ [Next]_vars => PageInv'
  BY GateInvStep, GivenInvStep, JobInvStep, PagesRightStep DEF PageInv

(* A page that the kernel dropped for the balloon never maps the           *)
(* snapshot's bytes again, and no page maps zeros that the balloon has not *)
(* given back, however the lowering of mmap_changing, the zap and the      *)
(* fills interleave: the handler reads the REMOVE with no copy in flight   *)
(* (drain_events, ReplayGate), a job planned before it is of an older      *)
(* generation, and a page never leaves RemovedPages, so zeros that the zap *)
(* drops are filled again as zeros.                                        *)
THEOREM PagesStayRight == Spec => []PagesRight
  <1>1. TypeInv /\ PageInv => PagesRight
    BY DEF PageInv
  <1> QED BY <1>1, TypeInit, TypeStep, EndInvInit, EndInvStep, PageInvInit, PageInvStep, PTL DEF Spec
=============================================================================
