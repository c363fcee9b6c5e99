----------------------------- MODULE UffdClone -----------------------------
(***************************************************************************)
(* The memory service of one copy-mode clone (src/uffd/server.rs): the     *)
(* handler task that reads the userfaultfd, replays the recorded working   *)
(* set and parks refused faults; the fault workers and the replay workers  *)
(* that fill pages beside it; the ReplayGate that keeps their fills and    *)
(* the reading of a balloon's REMOVE apart.  The kernel and the VMM are    *)
(* external: vCPUs that fault, a balloon thread inside madvise, an exit.   *)
(*                                                                         *)
(* A page holds the snapshot's bytes or zeros.  Holes of the memory file   *)
(* read as zeros whichever way they are filled and are left out, and so    *)
(* are minor mode, fault-around, the recording and the trace.  A job is    *)
(* the set of its pages: a worker may copy them in any order.              *)
(***************************************************************************)
EXTENDS Naturals, Sequences, FiniteSets

CONSTANTS
    Vcpus,           \* threads of the VMM that touch guest memory
    LastPage,        \* the pages are 1..LastPage, all of them recorded; a run is one page
    FaultWorkers,    \* threads of FaultWorkers
    ReplayWorkers,   \* threads of ReplayWorkers
    RunsPerJob,      \* ReplayWorkers::RUNS_PER_JOB
    QueueCap,        \* the capacity of the job queue
    MaxRemoves       \* bound: how often the balloon gives pages back

ASSUME UffdCloneAssumption ==
    /\ LastPage \in Nat \ {0} /\ RunsPerJob \in Nat \ {0}
    /\ QueueCap \in Nat \ {0} /\ MaxRemoves \in Nat
    /\ FaultWorkers \cap ReplayWorkers = {}

Pages == 1..LastPage
Workers == FaultWorkers \cup ReplayWorkers

VARIABLES
    alive,       \* the VMM's process runs
    mem,         \* what each page of the clone maps
    vcpu,        \* what each vCPU does: runs, saw no page, has a fault queued or read
    balloon,     \* the thread inside madvise, and the pages it gives back
    given,       \* pages whose madvise has zapped them
    pc,          \* where the handler is
    mode,        \* replaying, finishing the replay workers, or serving
    gone,        \* the handler knows that the clone is gone
    batch,       \* faults of the last read that are still to be answered
    got,         \* pages of the REMOVE of the last read
    todo,        \* parked faults still to be retried in this round
    parked,      \* ParkedFaults, by page
    removed,     \* RemovedPages
    generation,  \* ReplayGate::generation
    reading,     \* ReplayGate::reading
    work,        \* the workers: where each is, the pages it still has to fill
    jobs,        \* queue of the fault workers
    back,        \* what they sent back
    fstop,       \* their stop flag
    next,        \* the first recorded page not planned yet
    stretch,     \* PlainRuns: what is left of the run being dispatched
    planned,     \* the generation it was planned under
    pending,     \* the replay job being filled
    held,        \* the replay job that waits to be queued
    queue,       \* the bounded queue of the replay workers
    room,        \* the permit of its Notify
    closed,      \* its sender is dropped
    rstop,       \* the replay workers' stop flag
    news,        \* what outcomes are in their channel
    stale        \* pages of jobs that came back stale

kernelVars == <<alive, mem, vcpu, balloon, given>>
drainVars == <<batch, got, todo, parked, removed, generation, reading>>
faultVars == <<jobs, back, fstop>>
replayVars == <<next, stretch, planned, pending, held, queue, room, closed, rstop, news, stale>>
vars == <<kernelVars, pc, mode, gone, drainVars, work, faultVars, replayVars>>

-----------------------------------------------------------------------------
Running == [at |-> "run", page |-> 0]
NoJob == [pages |-> {}, gen |-> 0]
Idle == [pc |-> "idle", pages |-> {}, gen |-> 0]
Exited == [Idle EXCEPT !.pc = "exited"]
Asleep == {"pending", "read"}

Pool == \E w \in ReplayWorkers : work[w].pc # "exited"
Copiers == {w \in Workers : work[w].pc \in {"counted", "copying"}}

(* A pool that is switched off or cannot be spawned leaves its work to the *)
(* handler; without a recorded set there is nothing to replay.             *)
Init ==
    /\ alive = TRUE
    /\ mem = [p \in Pages |-> "absent"]
    /\ vcpu = [v \in Vcpus |-> Running]
    /\ balloon = [at |-> "idle", pages |-> {}, calls |-> 0]
    /\ given = {}
    /\ pc = "idle" /\ gone = FALSE
    /\ batch = {} /\ got = {} /\ todo = {} /\ parked = {} /\ removed = {}
    /\ generation = 0 /\ reading = FALSE
    /\ jobs = <<>> /\ back = <<>> /\ fstop = FALSE
    /\ \E faultPool, replayPool, recorded \in BOOLEAN :
          /\ mode = IF recorded THEN "plan" ELSE "serve"
          /\ next = IF recorded THEN 1 ELSE LastPage + 1
          /\ closed = ~recorded
          /\ work = [w \in Workers |->
                        IF (w \in FaultWorkers /\ faultPool)
                              \/ (w \in ReplayWorkers /\ replayPool /\ recorded)
                        THEN Idle ELSE Exited]
    /\ stretch = {} /\ planned = 0
    /\ pending = NoJob /\ held = NoJob /\ queue = <<>>
    /\ room = FALSE /\ rstop = FALSE /\ news = {} /\ stale = {}

-----------------------------------------------------------------------------
(* The kernel and the VMM. *)

Changing == balloon.at \in {"queued", "woken"}      \* mmap_changing

\* what a fill of page p returns: ESRCH, EAGAIN, EEXIST or success
Outcome(p) ==
    IF ~alive THEN "gone"
    ELSE IF Changing THEN "retry"
    ELSE IF mem[p] # "absent" THEN "present" ELSE "resolved"

\* everyone asleep on p runs on, and a fault of theirs that is still queued goes
Wake(p) ==
    vcpu' = [v \in Vcpus |->
                IF vcpu[v].page = p /\ vcpu[v].at \in Asleep THEN Running ELSE vcpu[v]]

Touch(v, p) ==
    /\ alive
    /\ vcpu[v].at = "run"
    /\ mem[p] = "absent"
    /\ vcpu' = [vcpu EXCEPT ![v] = [at |-> "seen", page |-> p]]
    /\ UNCHANGED <<alive, mem, balloon, given, pc, mode, gone, drainVars, work, faultVars, replayVars>>

\* it goes to sleep on what it saw: the page may have been filled and its sleepers woken meanwhile
Enqueue(v) ==
    /\ alive
    /\ vcpu[v].at = "seen"
    /\ vcpu' = [vcpu EXCEPT ![v].at = "pending"]
    /\ UNCHANGED <<alive, mem, balloon, given, pc, mode, gone, drainVars, work, faultVars, replayVars>>

GiveBack(S) ==
    /\ alive
    /\ balloon.at = "idle"
    /\ balloon.calls < MaxRemoves
    /\ balloon' = [at |-> "queued", pages |-> S, calls |-> balloon.calls + 1]
    /\ UNCHANGED <<alive, mem, vcpu, given, pc, mode, gone, drainVars, work, faultVars, replayVars>>

\* the event has been read: the thread runs on and lowers the flag
LowerFlag ==
    /\ alive
    /\ balloon.at = "woken"
    /\ balloon' = [balloon EXCEPT !.at = "zapping"]
    /\ UNCHANGED <<alive, mem, vcpu, given, pc, mode, gone, drainVars, work, faultVars, replayVars>>

\* it drops what the range maps, a page that was filled since the flag went down as well
Zap ==
    /\ alive
    /\ balloon.at = "zapping"
    /\ balloon' = [at |-> "idle", pages |-> {}, calls |-> balloon.calls]
    /\ mem' = [p \in Pages |-> IF p \in balloon.pages THEN "absent" ELSE mem[p]]
    /\ given' = given \cup balloon.pages
    /\ UNCHANGED <<alive, vcpu, pc, mode, gone, drainVars, work, faultVars, replayVars>>

\* a process takes its memory and its threads with it
Dies ==
    /\ alive' = FALSE
    /\ mem' = [p \in Pages |-> "absent"]
    /\ vcpu' = [v \in Vcpus |-> Running]
    /\ balloon' = [at |-> "idle", pages |-> {}, calls |-> balloon.calls]
    /\ given' = {}

VmmExits ==
    /\ alive
    /\ Dies
    /\ UNCHANGED <<pc, mode, gone, drainVars, work, faultVars, replayVars>>

-----------------------------------------------------------------------------
(* Fills.  A demand fill wakes the faulters of a page it finds present; a  *)
(* populate steps over it.                                                 *)

Content(p) == IF p \in removed THEN "zero" ELSE "data"       \* zero_answer

Install(p, c) == mem' = [mem EXCEPT ![p] = c] /\ Wake(p)

CopyPage_NoWake(p, c) ==
    IF Outcome(p) = "resolved" THEN Install(p, c) ELSE UNCHANGED <<mem, vcpu>>

CopyPage(p, c) ==
    CASE Outcome(p) = "resolved" -> Install(p, c)
      [] Outcome(p) = "present" -> Wake(p) /\ UNCHANGED mem
      [] OTHER -> UNCHANGED <<mem, vcpu>>

Populate(p) ==
    IF Outcome(p) = "resolved" THEN Install(p, "data") ELSE UNCHANGED <<mem, vcpu>>

\* the handler answers a fault itself; a refusal parks it
ResolveFault(p) ==
    /\ CopyPage(p, Content(p))
    /\ parked' = IF Outcome(p) = "retry" THEN parked \cup {p} ELSE parked
    /\ gone' = (gone \/ Outcome(p) = "gone")

-----------------------------------------------------------------------------
(* The handler: reading events. *)

Rests == pc \in {"idle", "room"} /\ ~gone

Readable == balloon.at = "queued" \/ \E v \in Vcpus : vcpu[v].at = "pending"

\* where the handler goes on after a round: a flush that waits for room tries again
Resume == IF held = NoJob THEN "idle" ELSE "flush"

RetryRound(pages) ==
    /\ todo' = pages
    /\ pc' = IF pages = {} THEN Resume ELSE "retry"

\* drain_events: ReplayGate::reading
DrainEvents ==
    /\ Rests
    /\ Readable
    /\ reading' = TRUE
    /\ pc' = "gate"
    /\ UNCHANGED <<kernelVars, mode, gone, batch, got, todo, parked, removed, generation, work,
                   faultVars, replayVars>>

ReadEvents_NotWaiting ==
    /\ pc = "gate"
    /\ \E F \in SUBSET {v \in Vcpus : vcpu[v].at = "pending"},
          R \in {{}, IF balloon.at = "queued" THEN balloon.pages ELSE {}} :
          /\ batch' = {[v |-> v, page |-> vcpu[v].page] : v \in F}
          /\ got' = R
          /\ F = {} /\ R = {} => ~Readable
          /\ vcpu' = [v \in Vcpus |-> IF v \in F THEN [vcpu[v] EXCEPT !.at = "read"] ELSE vcpu[v]]
          /\ balloon' = IF R = {} THEN balloon ELSE [balloon EXCEPT !.at = "woken"]
    /\ pc' = "record"
    /\ UNCHANGED <<alive, mem, given, mode, gone, todo, parked, removed, generation, reading, work,
                   faultVars, replayVars>>

\* the copies in flight are over: one read returns some of the events
ReadEvents ==
    /\ pc = "gate"
    /\ Copiers = {}
    /\ \E F \in SUBSET {v \in Vcpus : vcpu[v].at = "pending"},
          R \in {{}, IF balloon.at = "queued" THEN balloon.pages ELSE {}} :
          /\ batch' = {[v |-> v, page |-> vcpu[v].page] : v \in F}
          /\ got' = R
          /\ F = {} /\ R = {} => ~Readable
          /\ vcpu' = [v \in Vcpus |-> IF v \in F THEN [vcpu[v] EXCEPT !.at = "read"] ELSE vcpu[v]]
          /\ balloon' = IF R = {} THEN balloon ELSE [balloon EXCEPT !.at = "woken"]
    /\ pc' = "record"
    /\ UNCHANGED <<alive, mem, given, mode, gone, todo, parked, removed, generation, reading, work,
                   faultVars, replayVars>>

\* every REMOVE of the read is recorded before any fault of it is answered
RecordRemove ==
    /\ pc = "record"
    /\ removed' = removed \cup got
    /\ generation' = IF got = {} THEN generation ELSE generation + 1
    /\ got' = {}
    /\ reading' = FALSE
    /\ pc' = "answer"
    /\ UNCHANGED <<kernelVars, mode, gone, batch, todo, parked, work, faultVars, replayVars>>

\* a fault worker takes it, unless the page was given back
Submitted(p) == p \notin removed /\ \E w \in FaultWorkers : work[w].pc # "exited"

AnswerFault_Forgets(e) ==
    /\ pc = "answer"
    /\ ~gone
    /\ batch' = batch \ {e}
    /\ IF Submitted(e.page)
       THEN /\ jobs' = Append(jobs, [pages |-> {e.page}, gen |-> generation])
            /\ UNCHANGED <<mem, vcpu, parked, gone, removed>>
       ELSE /\ ResolveFault(e.page) /\ UNCHANGED jobs
            /\ removed' = IF Outcome(e.page) = "resolved" THEN removed \ {e.page} ELSE removed
    /\ UNCHANGED <<alive, balloon, given, pc, mode, got, todo, generation, reading, work,
                   back, fstop, replayVars>>

\* a page that gets its zeros stays in removed: the zap may still drop them
AnswerFault(e) ==
    /\ pc = "answer"
    /\ ~gone
    /\ batch' = batch \ {e}
    /\ IF Submitted(e.page)
       THEN /\ jobs' = Append(jobs, [pages |-> {e.page}, gen |-> generation])
            /\ UNCHANGED <<mem, vcpu, parked, gone>>
       ELSE ResolveFault(e.page) /\ UNCHANGED jobs
    /\ UNCHANGED <<alive, balloon, given, pc, mode, got, todo, removed, generation, reading, work,
                   back, fstop, replayVars>>

\* the queue is empty or the batch is full: the caller retries what is parked
Drained ==
    /\ pc = "answer"
    /\ batch = {} \/ gone
    /\ batch' = {}
    /\ RetryRound(parked)
    /\ UNCHANGED <<kernelVars, mode, gone, got, parked, removed, generation, reading, work, faultVars,
                   replayVars>>

\* retry_parked_faults
RetryParked(p) ==
    /\ pc = "retry"
    /\ ~gone
    /\ todo' = todo \ {p}
    /\ CopyPage(p, Content(p))
    /\ parked' = IF Outcome(p) \in {"resolved", "present"} THEN parked \ {p} ELSE parked
    /\ gone' = (Outcome(p) = "gone")
    /\ UNCHANGED <<alive, balloon, given, pc, mode, batch, got, removed, generation, reading, work,
                   faultVars, replayVars>>

Retried ==
    /\ pc = "retry"
    /\ todo = {} \/ gone
    /\ todo' = {}
    /\ pc' = Resume
    /\ UNCHANGED <<kernelVars, mode, gone, batch, got, parked, removed, generation, reading, work,
                   faultVars, replayVars>>

\* the pause between two rounds is over; a select looks at the userfaultfd first
RetryDue ==
    /\ Rests /\ ~Readable
    /\ parked # {}
    /\ RetryRound(parked)
    /\ UNCHANGED <<kernelVars, mode, gone, batch, got, parked, removed, generation, reading, work,
                   faultVars, replayVars>>

Returned(kind) == Rests /\ back # <<>> /\ Head(back).kind = kind

\* handle_worker_returns: a stale fault is decided again here, a refused one is parked
WorkerReturns ==
    /\ \E kind \in {"stale", "retry", "gone"} : Returned(kind)
    /\ back' = Tail(back)
    /\ CASE Head(back).kind = "stale" -> ResolveFault(Head(back).page)
         [] Head(back).kind = "retry" -> /\ parked' = parked \cup {Head(back).page}
                                         /\ UNCHANGED <<mem, vcpu, gone>>
         [] OTHER -> gone' = TRUE /\ UNCHANGED <<mem, vcpu, parked>>
    /\ RetryRound(parked')
    /\ UNCHANGED <<alive, balloon, given, mode, batch, got, removed, generation, reading, work, jobs,
                   fstop, replayVars>>

-----------------------------------------------------------------------------
(* The handler: replaying the recorded set. *)

\* drain_if_readable comes before every step, and so does a round for what is parked
Planning == pc = "idle" /\ mode = "plan" /\ ~gone /\ parked = {} /\ ~Readable

\* dispatch_run: the run is split against the given-back pages and remembers its generation
DispatchRun(s) ==
    /\ stretch' = s
    /\ planned' = generation
    /\ pending' = IF pending.pages = {} THEN [pending EXCEPT !.gen = generation] ELSE pending
    /\ pc' = IF s = {} THEN "idle" ELSE "push"

ReplanStale ==
    /\ Planning
    /\ Pool
    /\ next \in Pages \ removed
    /\ \E p \in stale :
          /\ \A q \in stale : p <= q
          /\ stale' = stale \ {p}
          /\ DispatchRun({p} \ removed)
    /\ UNCHANGED <<kernelVars, mode, gone, drainVars, work, faultVars, next, held, queue, room, closed,
                   rstop, news>>

\* a page the balloon has given back is the guest's own to touch
StepOver ==
    /\ Planning
    /\ next \in removed
    /\ next' = next + 1
    /\ UNCHANGED <<kernelVars, pc, mode, gone, drainVars, work, faultVars, stretch, planned, pending,
                   held, queue, room, closed, rstop, news, stale>>

\* a chunk of the plan: a recorded segment, or what is plain of it, may end after any page
PlanRun ==
    /\ Planning
    /\ Pool /\ stale = {}
    /\ next \in Pages \ removed
    /\ \E last \in next..LastPage :
          /\ \A p \in next..last : p \notin removed
          /\ DispatchRun(next..last)
          /\ next' = last + 1
    /\ UNCHANGED <<kernelVars, mode, gone, drainVars, work, faultVars, held, queue, room, closed, rstop,
                   news, stale>>

\* what is still to come was split before any REMOVE that the flush reads: it keeps its generation
PushRun ==
    /\ pc = "push"
    /\ \E p \in stretch :
          LET job == [pending EXCEPT !.pages = @ \cup {p}] IN
          /\ \A q \in stretch : p <= q
          /\ stretch' = stretch \ {p}
          /\ IF Cardinality(job.pages) >= RunsPerJob
             THEN held' = job /\ pending' = [NoJob EXCEPT !.gen = planned] /\ pc' = "flush"
             ELSE /\ pending' = job /\ UNCHANGED held
                  /\ pc' = IF stretch = {p} THEN "idle" ELSE "push"
    /\ UNCHANGED <<kernelVars, mode, gone, drainVars, work, faultVars, next, planned, queue, room, closed,
                   rstop, news, stale>>

Kept(pages) == pages \ removed

Replanned_Restamped(job) == [job EXCEPT !.gen = generation]

\* split_job_against_removed: a job that a REMOVE has overtaken is planned again
Replanned(job) ==
    IF job.gen = generation THEN job ELSE [pages |-> Kept(job.pages), gen |-> generation]

\* the flush is over: on with the run, the plan, or the closing of the queue
Flushed ==
    /\ held' = NoJob
    /\ pc' = IF stretch = {} THEN "idle" ELSE "push"
    /\ closed' = (mode = "finish")

Flush ==
    /\ pc = "flush"
    /\ ~gone
    /\ LET job == Replanned(held) IN
          \/ job.pages = {} /\ Flushed /\ UNCHANGED queue
          \/ job.pages # {} /\ Pool /\ Len(queue) < QueueCap
             /\ Flushed /\ queue' = Append(queue, job)
          \/ job.pages # {} /\ Pool /\ Len(queue) >= QueueCap
             /\ held' = job /\ pc' = "room" /\ UNCHANGED <<closed, queue>>
    /\ UNCHANGED <<kernelVars, mode, gone, drainVars, work, faultVars, next, stretch, planned, pending,
                   room, rstop, news, stale>>

\* every worker has left: replay drops the pool and fills the chunk itself, finish lets it be
PoolGone ==
    /\ pc = "flush"
    /\ ~gone
    /\ Replanned(held).pages # {} /\ ~Pool
    /\ held' = NoJob /\ pc' = "idle"
    /\ IF mode = "plan"
       THEN /\ \E p \in held.pages : Populate(p) /\ gone' = (Outcome(p) = "gone")
            /\ stretch' = {} /\ pending' = NoJob
            /\ UNCHANGED closed
       ELSE closed' = TRUE /\ UNCHANGED <<mem, vcpu, gone, stretch, pending>>
    /\ UNCHANGED <<alive, balloon, given, mode, drainVars, work, faultVars, next, planned, queue, room,
                   rstop, news, stale>>

\* wait_for_room: a worker took a job, or one of them reported
RoomNotified ==
    /\ pc = "room" /\ ~Readable
    /\ room
    /\ room' = FALSE
    /\ RetryRound(parked)
    /\ UNCHANGED <<kernelVars, mode, gone, batch, got, parked, removed, generation, reading, work,
                   faultVars, next, stretch, planned, pending, held, queue, closed, rstop, news, stale>>

OutcomeReported ==
    /\ pc = "room" /\ ~Readable
    /\ news # {} \/ ~Pool
    /\ news' = {}
    /\ gone' = (gone \/ "gone" \in news)
    /\ RetryRound(parked)
    /\ UNCHANGED <<kernelVars, mode, batch, got, parked, removed, generation, reading, work,
                   faultVars, next, stretch, planned, pending, held, queue, room, closed, rstop, stale>>

\* without a pool the handler copies alone; what is left of a refused segment faults on demand
CopyAlone ==
    /\ Planning
    /\ ~Pool
    /\ next \in Pages \ removed
    /\ Populate(next)
    /\ next' \in IF Outcome(next) = "retry" THEN next + 1 .. LastPage + 1 ELSE {next + 1}
    /\ gone' = (Outcome(next) = "gone")
    /\ UNCHANGED <<alive, balloon, given, pc, mode, drainVars, work, faultVars, stretch, planned,
                   pending, held, queue, room, closed, rstop, news, stale>>

\* every segment is planned: the rest is flushed and the queue closed
PlanDone ==
    /\ Planning
    /\ next > LastPage
    /\ mode' = "finish"
    /\ IF pending.pages = {} \/ ~Pool
       THEN closed' = TRUE /\ UNCHANGED <<held, pending, pc>>
       ELSE held' = pending /\ pending' = NoJob /\ pc' = "flush" /\ UNCHANGED closed
    /\ UNCHANGED <<kernelVars, gone, drainVars, work, faultVars, next, stretch, planned, queue, room,
                   rstop, news, stale>>

ReplayExited_QueueOpen ==
    /\ gone
    /\ pc \in {"idle", "flush"} /\ mode \in {"plan", "finish"} /\ ~closed
    /\ mode' = "finish"
    /\ held' = NoJob /\ stretch' = {} /\ pending' = NoJob
    /\ pc' = "idle"
    /\ UNCHANGED <<kernelVars, gone, drainVars, work, faultVars, next, planned, queue, room, closed, rstop,
                   news, stale>>

\* replay finds the clone gone: nothing more is planned
ReplayExited ==
    /\ gone
    /\ pc \in {"idle", "flush"} /\ mode \in {"plan", "finish"} /\ ~closed
    /\ mode' = "finish"
    /\ closed' = TRUE
    /\ held' = NoJob /\ stretch' = {} /\ pending' = NoJob
    /\ pc' = "idle"
    /\ UNCHANGED <<kernelVars, gone, drainVars, work, faultVars, next, planned, queue, room, rstop, news,
                   stale>>

\* finish has taken every outcome: jobs that came back stale are left to demand paging
JoinReplayWorkers ==
    /\ pc = "idle" /\ mode = "finish" /\ closed
    /\ ~Pool
    /\ mode' = "serve"
    /\ room' = FALSE /\ news' = {} /\ stale' = {} /\ planned' = 0 /\ pending' = NoJob
    /\ UNCHANGED <<kernelVars, pc, gone, drainVars, work, faultVars, next, stretch, held, queue, closed,
                   rstop>>

-----------------------------------------------------------------------------
(* The handler: the end of the service. *)

\* the pidfd is readable, or a fill said so: FaultWorkers is dropped
ServiceEnds ==
    /\ pc = "idle" /\ mode = "serve"
    /\ ~alive \/ gone
    /\ fstop' = TRUE
    /\ pc' = "join"
    /\ UNCHANGED <<kernelVars, mode, gone, drainVars, work, jobs, back, replayVars>>

\* an error leaves the handler's loop: ReplayWorkers is dropped
Fails ==
    /\ pc' = "fail"
    /\ rstop' = TRUE /\ closed' = TRUE
    /\ batch' = {} /\ todo' = {} /\ parked' = {}
    /\ next' = LastPage + 1 /\ stretch' = {} /\ planned' = 0 /\ pending' = NoJob /\ held' = NoJob
    /\ UNCHANGED <<kernelVars, mode, gone, got, removed, generation, reading, work, jobs, fstop, queue,
                   room, news, stale>>

\* a read or a fill fails, or a parked fault is past its deadline
ServiceFails ==
    /\ ~gone
    /\ pc = "answer" \/ (pc = "retry" /\ todo # {}) \/ Returned("stale")
    /\ back' = IF Rests THEN Tail(back) ELSE back
    /\ Fails

\* WorkerReturn::Failed: a fault worker could not answer its fault
WorkerFailed ==
    /\ Returned("failed")
    /\ back' = Tail(back)
    /\ Fails

FailClosed_NoKill ==
    /\ pc = "fail"
    /\ ~Pool
    /\ fstop' = TRUE
    /\ pc' = "join"
    /\ UNCHANGED <<kernelVars, mode, gone, drainVars, work, jobs, back, replayVars>>

\* kill_now once the replay workers are joined; the fault workers are dropped after that
FailClosed ==
    /\ pc = "fail"
    /\ ~Pool
    /\ Dies
    /\ fstop' = TRUE
    /\ pc' = "join"
    /\ UNCHANGED <<mode, gone, drainVars, work, jobs, back, replayVars>>

Done ==
    /\ pc = "join"
    /\ \A w \in FaultWorkers : work[w].pc = "exited"
    /\ pc' = "done"
    /\ UNCHANGED <<kernelVars, mode, gone, drainVars, work, faultVars, replayVars>>

Handler ==
    \/ DrainEvents \/ ReadEvents \/ RecordRemove \/ Drained \/ Retried \/ RetryDue \/ WorkerReturns
    \/ \E e \in batch : AnswerFault(e)
    \/ \E p \in todo : RetryParked(p)
    \/ ReplanStale \/ StepOver \/ PlanRun \/ PushRun \/ Flush \/ PoolGone \/ RoomNotified
    \/ OutcomeReported
    \/ CopyAlone \/ PlanDone \/ ReplayExited \/ JoinReplayWorkers
    \/ ServiceEnds \/ WorkerFailed \/ FailClosed \/ Done

-----------------------------------------------------------------------------
(* The workers. *)

Goto(w, label) == work' = [work EXCEPT ![w].pc = label]

\* ReplayGate::copying: a worker counts itself in before it looks whether the handler reads
CountIn(w) ==
    /\ \/ work[w].pc = "job" /\ ~rstop
       \/ work[w].pc = "spin" /\ ~reading
    /\ Goto(w, "counted")
    /\ UNCHANGED <<kernelVars, pc, mode, gone, drainVars, faultVars, replayVars>>

\* while the handler reads it counts itself out and waits; the generation is looked at inside
Enter(w) ==
    /\ work[w].pc = "counted"
    /\ reading \/ work[w].gen = generation
    /\ Goto(w, IF reading THEN "spin" ELSE "copying")
    /\ UNCHANGED <<kernelVars, pc, mode, gone, drainVars, faultVars, replayVars>>

Overtaken(w) == work[w].pc = "counted" /\ ~reading /\ work[w].gen # generation

TakeFault(w) ==
    /\ work[w].pc = "idle"
    /\ jobs # <<>>
    /\ ~fstop
    /\ jobs' = Tail(jobs)
    /\ work' = [work EXCEPT ![w] = [pc |-> "counted", pages |-> Head(jobs).pages, gen |-> Head(jobs).gen]]
    /\ UNCHANGED <<kernelVars, pc, mode, gone, drainVars, back, fstop, replayVars>>

SendBack(p, kind) == back' = Append(back, [kind |-> kind, page |-> p])

ReturnStaleFault(w) ==
    /\ Overtaken(w)
    /\ \E p \in work[w].pages : SendBack(p, "stale")
    /\ work' = [work EXCEPT ![w] = Idle]
    /\ UNCHANGED <<kernelVars, pc, mode, gone, drainVars, jobs, fstop, replayVars>>

\* nothing else is looked at between that check and the fill
FillFault(w) ==
    /\ work[w].pc = "copying"
    /\ \E p \in work[w].pages :
          /\ CopyPage(p, "data")
          /\ IF Outcome(p) \in {"retry", "gone"} THEN SendBack(p, Outcome(p)) ELSE UNCHANGED back
          /\ fstop' = (fstop \/ Outcome(p) = "gone")
    /\ work' = [work EXCEPT ![w] = Idle]
    /\ UNCHANGED <<alive, balloon, given, pc, mode, gone, drainVars, jobs, replayVars>>

\* the fill's ioctl failed: its fault is still unanswered
FillFails(w) ==
    /\ work[w].pc = "copying"
    /\ \E p \in work[w].pages : SendBack(p, "failed")
    /\ work' = [work EXCEPT ![w] = Idle]
    /\ UNCHANGED <<kernelVars, pc, mode, gone, drainVars, jobs, fstop, replayVars>>

\* a worker without a fault in hand returns once it is told to stop
FaultWorkerExits(w) ==
    /\ work[w].pc = "idle"
    /\ fstop /\ (jobs # <<>> \/ pc = "join")
    /\ jobs' = IF jobs = <<>> THEN jobs ELSE Tail(jobs)
    /\ work' = [work EXCEPT ![w] = Exited]
    /\ UNCHANGED <<kernelVars, pc, mode, gone, drainVars, back, fstop, replayVars>>

TakeRun(w) ==
    /\ work[w].pc = "idle"
    /\ queue # <<>>
    /\ ~rstop
    /\ queue' = Tail(queue)
    /\ room' = TRUE
    /\ work' = [work EXCEPT ![w] = [pc |-> "counted", pages |-> Head(queue).pages, gen |-> Head(queue).gen]]
    /\ UNCHANGED <<kernelVars, pc, mode, gone, drainVars, faultVars, next, stretch, planned, pending, held,
                   closed, rstop, news, stale>>

Report(w) == news' = news \cup {"done"} /\ work' = [work EXCEPT ![w] = Idle]

\* stale_from: the rest of the job goes back to the handler
ReturnStaleRun(w) ==
    /\ Overtaken(w)
    /\ stale' = stale \cup work[w].pages
    /\ Report(w)
    /\ UNCHANGED <<kernelVars, pc, mode, gone, drainVars, faultVars, next, stretch, planned, pending, held,
                   queue, room, closed, rstop>>

CopyRun(w) ==
    /\ work[w].pc = "copying"
    /\ \E p \in work[w].pages :
          /\ Populate(p)
          /\ CASE Outcome(p) = "gone" -> /\ news' = news \cup {"gone"}
                                      /\ work' = [work EXCEPT ![w] = Exited]
               [] Outcome(p) = "retry" -> Goto(w, "job") /\ UNCHANGED news
               [] OTHER -> IF work[w].pages = {p} THEN Report(w)
                           ELSE /\ work' = [work EXCEPT ![w].pc = "job", ![w].pages = @ \ {p}]
                                /\ UNCHANGED news
    /\ UNCHANGED <<alive, balloon, given, pc, mode, gone, drainVars, faultVars, next, stretch, planned,
                   pending, held, queue, room, closed, rstop, stale>>

\* refused for too long, or told to stop: the rest of the job faults on demand
GiveUpRun(w) ==
    /\ work[w].pc = "job"
    /\ rstop \/ Changing
    /\ Report(w)
    /\ UNCHANGED <<kernelVars, pc, mode, gone, drainVars, faultVars, next, stretch, planned, pending, held,
                   queue, room, closed, rstop, stale>>

ReplayWorkerExits(w) ==
    /\ work[w].pc = "idle"
    /\ rstop \/ (closed /\ queue = <<>>)
    /\ work' = [work EXCEPT ![w] = Exited]
    /\ UNCHANGED <<kernelVars, pc, mode, gone, drainVars, faultVars, replayVars>>

Work(w) ==
    \/ CountIn(w) \/ Enter(w)
    \/ w \in FaultWorkers
       /\ (TakeFault(w) \/ ReturnStaleFault(w) \/ FillFault(w) \/ FillFails(w) \/ FaultWorkerExits(w))
    \/ w \in ReplayWorkers
       /\ (TakeRun(w) \/ ReturnStaleRun(w) \/ CopyRun(w) \/ GiveUpRun(w) \/ ReplayWorkerExits(w))

Finished == pc = "done" /\ UNCHANGED vars

Next ==
    \/ Handler \/ ServiceFails
    \/ \E w \in Workers : Work(w)
    \/ \E v \in Vcpus : Enqueue(v) \/ \E p \in Pages : Touch(v, p)
    \/ \E first \in Pages : \E last \in first..LastPage : GiveBack(first..last)
    \/ LowerFlag \/ Zap \/ VmmExits
    \/ Finished

Spec == Init /\ [][Next]_vars

(* The runtime polls the handler, the host schedules the workers and the   *)
(* thread inside madvise.  Nothing makes a vCPU touch a page, a balloon    *)
(* inflate, a service fail or a VMM exit.                                  *)
FairSpec ==
    /\ Spec
    /\ WF_vars(Handler)
    /\ \A w \in Workers : WF_vars(Work(w))
    /\ WF_vars(LowerFlag) /\ WF_vars(Zap)
    /\ \A v \in Vcpus : WF_vars(Enqueue(v))

-----------------------------------------------------------------------------
(* Properties. *)

Job == [pages : SUBSET Pages, gen : 0..generation]

(* Type correctness, and the bounds of the queues: a fault worker's job    *)
(* per vCPU and REMOVE at most, a replay queue within its capacity.        *)
TypeOK ==
    /\ alive \in BOOLEAN /\ gone \in BOOLEAN /\ reading \in BOOLEAN
    /\ mem \in [Pages -> {"absent", "data", "zero"}]
    /\ vcpu \in [Vcpus -> [at : {"run", "seen", "pending", "read"}, page : 0..LastPage]]
    /\ balloon \in [at : {"idle", "queued", "woken", "zapping"}, pages : SUBSET Pages, calls : 0..MaxRemoves]
    /\ pc \in {"idle", "room", "gate", "record", "answer", "retry", "push", "flush", "fail", "join",
               "done"}
    /\ mode \in {"plan", "finish", "serve"}
    /\ batch \subseteq [v : Vcpus, page : Pages]
    /\ given \subseteq Pages /\ got \subseteq Pages /\ todo \subseteq Pages
    /\ parked \subseteq Pages /\ removed \subseteq Pages /\ stale \subseteq Pages
    /\ stretch \subseteq Pages
    /\ generation \in 0..MaxRemoves /\ planned \in 0..generation
    /\ next \in 1..(LastPage + 1)
    /\ work \in [Workers -> [pc : {"idle", "job", "counted", "spin", "copying", "exited"},
                             pages : SUBSET Pages, gen : 0..generation]]
    /\ pending \in Job /\ held \in Job /\ jobs \in Seq(Job) /\ queue \in Seq(Job)
    /\ Len(queue) <= QueueCap
    /\ back \in Seq([kind : {"stale", "retry", "gone", "failed"}, page : Pages])
    /\ fstop \in BOOLEAN /\ room \in BOOLEAN /\ closed \in BOOLEAN /\ rstop \in BOOLEAN
    /\ news \subseteq {"done", "gone"}

\* pages that the thread inside madvise is about to drop, with the flag down already
Dropping == IF balloon.at = "zapping" THEN balloon.pages ELSE {}

(* What a page maps is what the guest may find there, whoever filled it: a *)
(* demand fault, a retry, a stale job or replay.  A page that the kernel   *)
(* has dropped never gets the snapshot's bytes again, although zeros that  *)
(* were filled between the lowering of mmap_changing and the zap went with *)
(* it and no second REMOVE says so; and no page reads as zeros that the    *)
(* balloon has not given back.                                             *)
PagesRight ==
    \A p \in Pages :
        /\ mem[p] = "data" => p \notin given
        /\ mem[p] = "zero" => p \in given \cup Dropping

(* A service that has ended, however it ended, leaves nobody behind: no    *)
(* VMM whose next fault would sleep for good (serve_clone_fail_closed), no *)
(* replay worker when replay is over, and no worker at all when the        *)
(* handler returns and the snapshot mapping may go (SnapshotSlice).        *)
EndsClean ==
    /\ mode = "serve" => ~Pool
    /\ pc = "done" => ~alive /\ \A w \in Workers : work[w].pc = "exited"

(* A vCPU asleep on a fault runs again, or its VMM is gone: over refused   *)
(* fills, stale jobs, parked retries, pages found present and faults that  *)
(* another fill withdrew.                                                  *)
FaultsAnswered ==
    \A v \in Vcpus : vcpu[v].at \in Asleep ~> vcpu[v].at \notin Asleep \/ ~alive

(* When the VMM is gone the handler and its workers end, wherever each was *)
(* waiting: for room in the queue, at the gate, for the last outcomes.     *)
ServiceStops == ~alive ~> pc = "done"
=============================================================================
