------------------------------ MODULE RunLoop ------------------------------
(***************************************************************************)
(* One `fcvm podman run` from the end of prepare_vm to the return of the   *)
(* process: the lifecycle gate and the signal handler (commands/common.rs),*)
(* the run loop with its power-off watchdog and reboot-in-place            *)
(* (commands/podman/mod.rs), the status listener                           *)
(* (commands/podman/listeners.rs), the health monitor (health.rs), and the *)
(* guest's side of the status channel (fc-agent).  A run that converges on *)
(* the restore of its pre-start snapshot goes on as the restored clone     *)
(* (commands/snapshot.rs), whose loop has the same arms.                   *)
(*                                                                         *)
(* The tasks share atomics, channels and files, and run in parallel.  The  *)
(* guest is what the agent says on the status channel; it may reboot, stop *)
(* without a word, or never power off.  Boots number the VMM children, and *)
(* a flag or a file holds the boot of the message that set it, where the   *)
(* code holds only that it is set.                                         *)
(***************************************************************************)
EXTENDS Naturals, Sequences, FiniteSets

CONSTANTS
    Commands,   \* the command lines to run, records of Command
    MaxReboots, \* bound: reboots of the guest
    MaxSevers   \* bound: snapshots that other processes take while an ask waits

Command == [snapshots : BOOLEAN,   \* no --no-snapshot, so there is a snapshot key
            nv2 : BOOLEAN,         \* a kernel profile with nested virtualisation
            gpu : BOOLEAN,         \* --gpu
            startup : BOOLEAN,     \* --startup-snapshot or --health-check
            balloon : BOOLEAN,     \* --free-page-reporting
            tty : BOOLEAN]         \* --tty

ASSUME RunLoopAssumption ==
    /\ Commands \subseteq {c \in Command : /\ c.startup => c.snapshots
                                           /\ c.gpu => c.snapshots}
    /\ MaxReboots \in Nat
    /\ MaxSevers \in Nat

VARIABLES
    args,        \* the command line
    clone,       \* the process has gone on to the restore
    main,        \* what the main task does next
    outcome,     \* what the process ends with
    code,        \* the exit code it reports
    requested,   \* ShutdownState.requested
    phase,       \* the phase of the lifecycle gate
    token,       \* its cancellation token
    lifecycle,   \* lifecycle_ready in the state file
    verdict,     \* the CacheVerdict cell
    cacheRx,     \* whether ctx.cache_rx is there
    cacheReq,    \* the ask whose CacheRequest is not resolved yet, or 0
    balloonDue,  \* ctx.balloon_check_due
    startup,     \* the startup snapshot's channel and its ack
    listener,    \* what the status listener does
    asker,       \* the ask it is blocked on, or 0
    backlog,     \* connections it has not taken yet
    drained,     \* whether it has acked the drain probe
    rebootReq,   \* reboot_requested
    exitSeen,    \* container_exit_seen
    exitFile,    \* the container-exit file
    readyFile,   \* the container-ready file
    watchdog,    \* PoweroffWatchdog and DeadlineState
    monitor,     \* what the health monitor does
    health,      \* health_status in the state file
    guest,       \* what the guest does; "off" when its VMM is gone
    boot,        \* which VMM child this is
    ask,         \* the number of the guest's last ask, or 0
    reply,       \* what the guest was answered
    out,         \* the messages the guest is still to send, without those it gives up
    severs,      \* snapshots other processes took while an ask waited
    hist         \* what happened, for the properties

hostVars == <<args, clone, code, requested, phase, token, lifecycle>>
askVars == <<verdict, cacheRx, cacheReq, balloonDue>>
chanVars == <<listener, asker, backlog, drained, rebootReq, exitSeen, exitFile, readyFile>>
healthVars == <<monitor, health>>
guestVars == <<guest, boot, ask, reply, out, severs>>
vars == <<hostVars, main, outcome, askVars, startup, chanVars, watchdog, healthVars,
          guestVars, hist>>

MaxBoots == MaxReboots + 1      \* and the restore of a convergence
Boots == 0..MaxBoots
NoBoot == MaxBoots + 1        \* not set, no such file
Verdicts == {"Pending", "Continue", "Restored", "Doomed"}
AsksPerBoot == MaxSevers + 2     \* a first ask, and one after each snapshot
MaxAsks == (MaxBoots + 1) * AsksPerBoot
Statuses == {"Unknown", "Healthy", "Stopped"}
Messages == [m : {"ready", "exit", "reboot", "ask", "drain"}, from : Boots, ask : 0..MaxAsks]

\* main tasks that hold the VM's vCPUs stopped
Paused == main \in {"cachePaused", "startupPaused"}

NewWatchdog == [gen |-> 0, at |-> FALSE, fired |-> FALSE, waiting |-> TRUE, stampers |-> {}]
NoWatchdog == [NewWatchdog EXCEPT !.waiting = FALSE]

Init ==
    /\ args \in Commands
    /\ clone = FALSE
    /\ main = "setup"
    /\ outcome = "none" /\ code = NoBoot
    /\ requested = FALSE
    /\ phase = "setting_up"
    /\ token = FALSE
    /\ lifecycle = FALSE
    /\ cacheRx = (args.snapshots \/ args.balloon)
    /\ verdict = IF cacheRx THEN "Pending" ELSE "Continue"
    /\ cacheReq = 0
    /\ balloonDue = args.balloon
    /\ startup = IF args.startup THEN "armed" ELSE "none"
    /\ listener = "accept" /\ asker = 0
    /\ backlog = <<>>
    /\ drained = FALSE
    /\ rebootReq = FALSE
    /\ exitSeen = NoBoot /\ exitFile = NoBoot /\ readyFile = NoBoot
    /\ watchdog = NoWatchdog
    /\ monitor = "poll" /\ health = "Unknown"
    /\ guest = "boot" /\ boot = 0
    /\ ask = 0 /\ reply = "Pending" /\ out = {}
    /\ severs = 0
    /\ hist = [early |-> FALSE, gaveUp |-> FALSE, ran |-> FALSE, stuck |-> FALSE,
               late |-> FALSE, cleared |-> FALSE, exitSent |-> FALSE,
               rebootSent |-> FALSE]

-----------------------------------------------------------------------------
(* Signals and the lifecycle gate. *)

(* A signal reaches the handler, which cancels every live gate: the phase  *)
(* goes to cancelled only from setting up, the token is always cancelled.  *)
Signal ==
    /\ ~requested
    /\ main # "done"
    /\ requested' = TRUE
    /\ token' = TRUE
    /\ phase' = IF phase = "setting_up" THEN "cancelled" ELSE phase
    /\ hist' = [hist EXCEPT !.early = phase = "setting_up"]
    /\ UNCHANGED <<args, clone, code, lifecycle, main, outcome, askVars, startup, chanVars, watchdog,
                   healthVars, guestVars>>

\* setup is over: a look at the token, then the claim
Precheck ==
    /\ main = "setup"
    /\ IF token THEN main' = "cleanup" /\ outcome' = "interrupted"
                ELSE main' = "claim" /\ UNCHANGED outcome
    /\ UNCHANGED <<hostVars, askVars, startup, chanVars, watchdog, healthVars, guestVars, hist>>

ClaimPublication_Unguarded ==
    /\ main = "claim"
    /\ phase' = "publishing" /\ main' = "publish"
    /\ UNCHANGED <<args, clone, code, requested, token, lifecycle, outcome, askVars, startup, chanVars,
                   watchdog, healthVars, guestVars, hist>>

\* LifecycleReadyGate::publish up to the state write
ClaimPublication ==
    /\ main = "claim"
    /\ IF phase = "setting_up"
       THEN phase' = "publishing" /\ main' = "publish" /\ UNCHANGED outcome
       ELSE main' = "cleanup" /\ outcome' = "interrupted" /\ UNCHANGED phase
    /\ UNCHANGED <<args, clone, code, requested, token, lifecycle, askVars, startup, chanVars, watchdog,
                   healthVars, guestVars, hist>>

Publish ==
    /\ main = "publish"
    /\ \/ /\ lifecycle' = TRUE /\ phase' = "ready" /\ main' = "loop"
          /\ watchdog' = IF clone THEN watchdog ELSE NewWatchdog
          /\ UNCHANGED <<token, outcome>>
       \/ /\ phase' = "cancelled" /\ token' = TRUE
          /\ main' = "cleanup" /\ outcome' = "error"
          /\ UNCHANGED <<lifecycle, watchdog>>
    /\ UNCHANGED <<args, clone, code, requested, askVars, startup, chanVars, healthVars,
                   guestVars, hist>>

-----------------------------------------------------------------------------
(* The run loop: its select takes any arm that is ready. *)

\* the loop returns and drops its watchdog
Return(o) ==
    /\ main' = "cleanup"
    /\ outcome' = o
    /\ watchdog' = NoWatchdog

LoopCancelled ==
    /\ main = "loop"
    /\ token
    /\ Return("cancelled")
    /\ UNCHANGED <<hostVars, askVars, startup, chanVars, healthVars, guestVars, hist>>

\* watchdog.expired(), then fire; a kill that fails ends the run
LoopExpired ==
    /\ main = "loop"
    /\ watchdog.at
    /\ ~watchdog.fired
    /\ \/ /\ watchdog' = [watchdog EXCEPT !.fired = TRUE]
          /\ guest' = "off" /\ ask' = 0 /\ reply' = "Pending" /\ out' = {}
          /\ UNCHANGED <<main, outcome>>
       \/ Return("error") /\ UNCHANGED <<guest, ask, reply, out>>
    /\ UNCHANGED <<hostVars, askVars, startup, chanVars, healthVars, boot, severs, hist>>

\* wait_for_reboot_decision reads the flag; a TTY run is never relaunched
Decided == IF rebootReq /\ ~args.tty THEN "clear" ELSE "read"

LoopExited_NoDrain ==
    /\ main = "loop"
    /\ guest = "off"
    /\ main' = Decided
    /\ UNCHANGED <<hostVars, outcome, askVars, startup, chanVars, watchdog, healthVars,
                   guestVars, hist>>

\* vm_manager.wait() returns: a reboot known already decides, otherwise the listener is probed
LoopExited ==
    /\ main = "loop"
    /\ guest = "off"
    /\ IF rebootReq
       THEN main' = Decided /\ UNCHANGED backlog
       ELSE /\ main' = "drain"
            /\ backlog' = Append(backlog, [m |-> "drain", from |-> boot, ask |-> 0])
    /\ UNCHANGED <<hostVars, outcome, askVars, startup, listener, asker, drained, rebootReq,
                   exitSeen, exitFile, readyFile, watchdog, healthVars, guestVars, hist>>

\* The probe is acked, or the listener is stuck and two seconds pass.
DrainEnds ==
    /\ main = "drain"
    /\ drained \/ listener = "ask"
    /\ main' = Decided
    /\ drained' = FALSE
    /\ hist' = [hist EXCEPT !.stuck = @ \/ ~drained]
    /\ UNCHANGED <<hostVars, outcome, askVars, startup, listener, asker, backlog, rebootReq,
                   exitSeen, exitFile, readyFile, watchdog, healthVars, guestVars>>

\* read_container_exit_code (a TTY run has its code from the TTY session)
ReadExitCode ==
    /\ main = "read"
    /\ Return(IF args.tty THEN "tty" ELSE IF exitFile = NoBoot THEN "unreported" ELSE "exited")
    /\ code' = exitFile
    /\ UNCHANGED <<args, clone, requested, phase, token, lifecycle, askVars, startup, chanVars, healthVars, guestVars, hist>>

(* The relaunch forgets what the old guest said.  The listener and the     *)
(* tracker go on meanwhile.                                                *)
ClearSignals ==
    /\ main = "clear"
    /\ rebootReq' = FALSE
    /\ exitSeen' = NoBoot
    /\ main' = "files"
    /\ UNCHANGED <<hostVars, outcome, askVars, startup, listener, asker, backlog, drained,
                   exitFile, readyFile, watchdog, healthVars, guestVars, hist>>

Rearm_NoTracker(w) ==
    [gen |-> w.gen + 1, at |-> FALSE, fired |-> FALSE, waiting |-> w.waiting,
     stampers |-> w.stampers]

\* PoweroffWatchdog::rearm: a tracker in the middle of its stamp outlives its abort
Rearm(w) ==
    [gen |-> w.gen + 1, at |-> FALSE, fired |-> FALSE, waiting |-> TRUE,
     stampers |-> w.stampers]

RemoveFiles_KeepsExit ==
    /\ main = "files"
    /\ readyFile' = NoBoot
    /\ watchdog' = Rearm(watchdog)
    /\ main' = "channels"
    /\ UNCHANGED <<hostVars, outcome, askVars, startup, listener, asker, backlog, drained,
                   rebootReq, exitSeen, exitFile, healthVars, guestVars, hist>>

RemoveFiles ==
    /\ main = "files"
    /\ exitFile' = NoBoot
    /\ readyFile' = NoBoot
    /\ watchdog' = Rearm(watchdog)
    /\ main' = "channels"
    /\ UNCHANGED <<hostVars, outcome, askVars, startup, listener, asker, backlog, drained,
                   rebootReq, exitSeen, healthVars, guestVars, hist>>

\* what becomes of the startup channel when its receiver or its ack goes
Dropped == CASE startup = "armed" -> "orphan"
             [] startup \in {"sent", "taken"} -> "dropped"
             [] OTHER -> startup

DropChannels ==
    /\ main = "channels"
    /\ cacheRx' = FALSE
    /\ cacheReq' = 0
    /\ startup' = Dropped
    /\ main' = "verdict"
    /\ UNCHANGED <<hostVars, outcome, verdict, balloonDue, chanVars, watchdog, healthVars,
                   guestVars, hist>>

ResetVerdict_Kept ==
    /\ main = "verdict"
    /\ main' = "spawn"
    /\ UNCHANGED <<hostVars, outcome, askVars, startup, chanVars, watchdog, healthVars, guestVars,
                   hist>>

ResetVerdict ==
    /\ main = "verdict"
    /\ verdict' = "Continue"
    /\ main' = "spawn"
    /\ UNCHANGED <<hostVars, outcome, cacheRx, cacheReq, balloonDue, startup, chanVars, watchdog,
                   healthVars, guestVars, hist>>

Spawn ==
    /\ main = "spawn"
    /\ ~(clone /\ args.gpu)
    /\ main' = "loop"
    /\ guest' = "boot" /\ boot' = boot + 1
    /\ hist' = [hist EXCEPT !.exitSent = FALSE, !.rebootSent = FALSE]
    /\ UNCHANGED <<hostVars, outcome, askVars, startup, chanVars, watchdog, healthVars, ask,
                   reply, out, severs>>

(* The relaunch fails.  A clone then reads the exit code, though the flag  *)
(* and the file it would be in are cleared; a --gpu clone never relaunches.*)
SpawnFails ==
    /\ main = "spawn"
    /\ IF clone THEN main' = "read" /\ UNCHANGED <<outcome, watchdog>> ELSE Return("error")
    /\ hist' = [hist EXCEPT !.cleared = TRUE]
    /\ UNCHANGED <<hostVars, askVars, startup, chanVars, healthVars, guestVars>>

-----------------------------------------------------------------------------
(* The run loop's answer to the guest's first ask. *)

LoopCache ==
    /\ main = "loop"
    /\ cacheReq # 0
    /\ main' = "cache"
    /\ UNCHANGED <<hostVars, outcome, askVars, startup, chanVars, watchdog, healthVars, guestVars,
                   hist>>

\* Doomed is recorded before the request is dropped.
Doom(o) ==
    /\ verdict' = "Doomed"
    /\ cacheReq' = 0
    /\ Return(o)
    /\ UNCHANGED cacheRx

\* the balloon check, or the wait for the snapshot's locks, is cancelled
CacheCancelled ==
    /\ main = "cache"
    /\ token
    /\ Doom("cancelled")
    /\ UNCHANGED <<hostVars, balloonDue, startup, chanVars, healthVars, guestVars, hist>>

CacheBalloon ==
    /\ main = "cache"
    /\ balloonDue
    /\ \/ balloonDue' = FALSE /\ UNCHANGED <<main, outcome, watchdog, verdict, cacheRx, cacheReq>>
       \/ Doom("error") /\ UNCHANGED balloonDue
    /\ UNCHANGED <<hostVars, startup, chanVars, healthVars, guestVars, hist>>

\* create_snapshot_interruptible reaches the pause
CachePause ==
    /\ main = "cache"
    /\ ~balloonDue
    /\ args.snapshots
    /\ guest # "off"
    /\ ~token
    /\ main' = "cachePaused"
    /\ UNCHANGED <<hostVars, outcome, askVars, startup, chanVars, watchdog, healthVars, guestVars,
                   hist>>

\* A snapshot boundary resets the guest's vsock: an ask that waits is cut.
Sever == guest' = IF guest = "asking" THEN "severed" ELSE guest

Continue ==
    /\ verdict' = "Continue"
    /\ main' = "ack"
    /\ UNCHANGED <<outcome, watchdog, cacheRx, cacheReq>>

\* no snapshot key, or a snapshot that failed before its pause
CacheNotTaken ==
    /\ main = "cache"
    /\ ~balloonDue
    /\ ~(args.snapshots /\ token)
    /\ IF args.gpu THEN Doom("error") ELSE Continue
    /\ UNCHANGED <<hostVars, balloonDue, startup, chanVars, healthVars, guestVars, hist>>

\* another process installed the snapshot first: a run that converges restores
\* that one, and this VM is not paused
CacheExisting ==
    /\ main = "cache"
    /\ ~balloonDue
    /\ args.snapshots /\ (args.nv2 \/ args.gpu)
    /\ ~token
    /\ Doom("restore")
    /\ UNCHANGED <<hostVars, balloonDue, startup, chanVars, healthVars, guestVars, hist>>

CacheResumed_ContinueFirst ==
    /\ main = "cachePaused"
    /\ \E installed \in BOOLEAN :
          IF token THEN Doom("cancelled")
          ELSE IF installed /\ (args.nv2 \/ args.gpu)
               THEN /\ verdict' = "Continue" /\ cacheReq' = 0 /\ Return("restore")
                    /\ UNCHANGED cacheRx
          ELSE IF args.gpu THEN Doom("error")
          ELSE Continue
    /\ Sever
    /\ UNCHANGED <<hostVars, balloonDue, startup, chanVars, healthVars, boot, ask, reply,
                   out, severs, hist>>

(* The snapshot is over and the VM resumed.  A run that shuts down dooms   *)
(* the guest; one that converges dooms it and leaves to restore the        *)
(* snapshot; others go on in this VM.                                      *)
CacheResumed ==
    /\ main = "cachePaused"
    /\ \E installed \in BOOLEAN :
          IF token THEN Doom("cancelled")
          ELSE IF installed /\ (args.nv2 \/ args.gpu) THEN Doom("restore")
          ELSE IF args.gpu THEN Doom("error")
          ELSE Continue
    /\ Sever
    /\ UNCHANGED <<hostVars, balloonDue, startup, chanVars, healthVars, boot, ask, reply,
                   out, severs, hist>>

\* cache_request.ack_tx.send
CacheAck ==
    /\ main = "ack"
    /\ cacheReq' = 0
    /\ main' = "loop"
    /\ UNCHANGED <<hostVars, outcome, verdict, cacheRx, balloonDue, startup, chanVars, watchdog,
                   healthVars, guestVars, hist>>

-----------------------------------------------------------------------------
(* The run loop's startup snapshot. *)

LoopStartup ==
    /\ main = "loop"
    /\ startup = "sent"
    /\ startup' = "taken"
    /\ main' = "startup"
    /\ UNCHANGED <<hostVars, outcome, askVars, chanVars, watchdog, healthVars, guestVars, hist>>

StartupCancelled ==
    /\ main \in {"startup", "startupPaused"}
    /\ token
    /\ Return("cancelled")
    /\ startup' = Dropped
    /\ UNCHANGED <<hostVars, askVars, chanVars, healthVars, guestVars, hist>>

\* the balloon check of a guest whose ask never came
StartupBalloon ==
    /\ main = "startup"
    /\ balloonDue
    /\ \/ balloonDue' = FALSE /\ UNCHANGED <<main, outcome, watchdog, startup>>
       \/ Return("error") /\ startup' = Dropped /\ UNCHANGED balloonDue
    /\ UNCHANGED <<hostVars, verdict, cacheRx, cacheReq, chanVars, healthVars, guestVars,
                   hist>>

StartupPause ==
    /\ main = "startup"
    /\ ~balloonDue
    /\ guest # "off"
    /\ ~token
    /\ main' = "startupPaused"
    /\ UNCHANGED <<hostVars, outcome, askVars, startup, chanVars, watchdog, healthVars, guestVars,
                   hist>>

\* the attempt is over: created, already there, declined or failed
StartupAck ==
    /\ \/ main = "startupPaused" /\ ~token
       \/ main = "startup" /\ ~balloonDue
    /\ startup' = "acked"
    /\ main' = "loop"
    /\ Sever
    /\ UNCHANGED <<hostVars, outcome, askVars, chanVars, watchdog, healthVars, boot, ask, reply,
                   out, severs, hist>>

-----------------------------------------------------------------------------
(* Teardown and the restore that follows a convergence. *)

\* cleanup_vm_context: the listener is aborted first
StopListener ==
    /\ main = "cleanup"
    /\ listener' = "off" /\ asker' = 0
    /\ backlog' = <<>>
    /\ cacheReq' = 0
    /\ main' = "kill"
    /\ guest' = IF guest = "asking" THEN "severed" ELSE guest
    /\ UNCHANGED <<hostVars, outcome, verdict, cacheRx, balloonDue, startup, drained, rebootReq,
                   exitSeen, exitFile, readyFile, watchdog, healthVars, boot, ask, reply, out,
                   severs, hist>>

\* cleanup_vm_inner kills the VMM, stops the monitor, and removes the state file and data directory
Teardown ==
    /\ main = "kill"
    /\ guest' = "off" /\ out' = {} /\ ask' = 0 /\ reply' = "Pending"
    /\ monitor' = "off" /\ health' = "Unknown"
    /\ lifecycle' = FALSE
    /\ watchdog' = NoWatchdog
    /\ rebootReq' = FALSE /\ drained' = FALSE
    /\ exitSeen' = NoBoot /\ exitFile' = NoBoot /\ readyFile' = NoBoot
    /\ cacheRx' = FALSE /\ startup' = "none"
    /\ main' = IF outcome = "restore" THEN "restore" ELSE "done"
    /\ UNCHANGED <<args, clone, code, requested, phase, token, outcome, verdict, cacheReq,
                   balloonDue, listener, asker, backlog, boot, severs, hist>>

NewGate_Deaf ==
    /\ token' = FALSE
    /\ phase' = "setting_up"

(* cmd_snapshot_run: a new gate, cancelled at once when shutdown was       *)
(* requested.  The clone's guest is the source's, in its ask; its listener *)
(* is bound with Restored before it is resumed.                            *)
NewGate ==
    /\ token' = requested
    /\ phase' = IF requested THEN "cancelled" ELSE "setting_up"

Restore ==
    /\ main = "restore"
    /\ NewGate
    /\ IF token'
       THEN /\ main' = "done" /\ outcome' = "interrupted"
            /\ UNCHANGED <<args, clone, code, askVars, startup, chanVars, watchdog, healthVars,
                           guestVars, hist>>
       ELSE /\ main' = "setup" /\ outcome' = "none" /\ clone' = TRUE
            /\ verdict' = "Restored" /\ cacheRx' = FALSE /\ balloonDue' = FALSE
            /\ startup' = IF args.startup THEN "armed" ELSE "none"
            /\ listener' = "accept"
            /\ watchdog' = NewWatchdog
            /\ monitor' = "poll"
            /\ guest' = "severed" /\ boot' = boot + 1
            /\ hist' = [hist EXCEPT !.exitSent = FALSE, !.rebootSent = FALSE]
            /\ UNCHANGED <<args, code, cacheReq, asker, backlog, drained, rebootReq, exitSeen,
                           exitFile, readyFile, health, ask, reply, out, severs>>
    /\ UNCHANGED <<requested, lifecycle>>

MainStep ==
    \/ Precheck \/ ClaimPublication \/ Publish
    \/ LoopCancelled \/ LoopExpired \/ LoopExited \/ DrainEnds \/ ReadExitCode
    \/ ClearSignals \/ RemoveFiles \/ DropChannels \/ ResetVerdict \/ Spawn \/ SpawnFails
    \/ LoopCache \/ CacheCancelled \/ CacheBalloon \/ CachePause \/ CacheNotTaken \/ CacheExisting
    \/ CacheResumed \/ CacheAck
    \/ LoopStartup \/ StartupCancelled \/ StartupBalloon \/ StartupPause \/ StartupAck
    \/ StopListener \/ Teardown \/ Restore

-----------------------------------------------------------------------------
(* The status listener: one connection at a time, in the order of accept. *)

Accepts(m) == listener = "accept" /\ backlog # <<>> /\ Head(backlog).m = m

ListenReady ==
    /\ Accepts("ready")
    /\ backlog' = Tail(backlog)
    /\ readyFile' = Head(backlog).from
    /\ UNCHANGED <<hostVars, main, outcome, askVars, startup, listener, asker, drained, rebootReq,
                   exitSeen, exitFile, watchdog, healthVars, guestVars, hist>>

\* Late: the guest that said it has been given up already.
ListenExit ==
    /\ Accepts("exit")
    /\ backlog' = Tail(backlog)
    /\ exitFile' = Head(backlog).from
    /\ exitSeen' = Head(backlog).from
    /\ hist' = [hist EXCEPT !.late = @ \/ Head(backlog).from < boot
                                       \/ main \in {"files", "channels", "verdict", "spawn"}]
    /\ UNCHANGED <<hostVars, main, outcome, askVars, startup, listener, asker, drained, rebootReq,
                   readyFile, watchdog, healthVars, guestVars>>

ListenReboot ==
    /\ Accepts("reboot")
    /\ backlog' = Tail(backlog)
    /\ rebootReq' = TRUE
    /\ UNCHANGED <<hostVars, main, outcome, askVars, startup, listener, asker, drained, exitSeen,
                   exitFile, readyFile, watchdog, healthVars, guestVars, hist>>

ListenDrain ==
    /\ Accepts("drain")
    /\ backlog' = Tail(backlog)
    /\ drained' = (drained \/ (main = "drain" /\ Head(backlog).from = boot))
    /\ UNCHANGED <<hostVars, main, outcome, askVars, startup, listener, asker, rebootReq, exitSeen,
                   exitFile, readyFile, watchdog, healthVars, guestVars, hist>>

(* The answer of ask n is the verdict.  With none, the connection is       *)
(* closed after a while and the guest asks again.                          *)
Answer(n) ==
    IF guest # "asking" \/ ask # n THEN UNCHANGED <<guest, reply>>
    ELSE IF verdict = "Pending" THEN guest' = "severed" /\ UNCHANGED reply
    ELSE reply' = verdict /\ UNCHANGED guest

ListenAsk ==
    /\ Accepts("ask")
    /\ backlog' = Tail(backlog)
    /\ IF verdict = "Pending" /\ cacheRx
       THEN /\ cacheReq' = Head(backlog).ask
            /\ asker' = Head(backlog).ask
            /\ listener' = "ask"
            /\ UNCHANGED <<guest, reply>>
       ELSE Answer(Head(backlog).ask) /\ UNCHANGED <<cacheReq, asker, listener>>
    /\ UNCHANGED <<hostVars, main, outcome, verdict, cacheRx, balloonDue, startup, drained,
                   rebootReq, exitSeen, exitFile, readyFile, watchdog, healthVars, boot, ask, out,
                   severs, hist>>

\* the request was resolved or dropped: the verdict cell has the answer
ListenResolved ==
    /\ listener = "ask"
    /\ cacheReq = 0
    /\ Answer(asker)
    /\ listener' = "accept"
    /\ asker' = 0
    /\ UNCHANGED <<hostVars, main, outcome, askVars, startup, backlog, drained, rebootReq,
                   exitSeen, exitFile, readyFile, watchdog, healthVars, boot, ask, out, severs,
                   hist>>

ListenerStep ==
    \/ ListenReady \/ ListenExit \/ ListenReboot \/ ListenDrain \/ ListenAsk \/ ListenResolved

-----------------------------------------------------------------------------
(* The deadline tracker, and the health monitor. *)

TrackerSees ==
    /\ watchdog.waiting
    /\ exitSeen # NoBoot
    /\ watchdog' = [watchdog EXCEPT !.waiting = FALSE, !.stampers = @ \cup {watchdog.gen}]
    /\ UNCHANGED <<hostVars, main, outcome, askVars, startup, chanVars, healthVars, guestVars,
                   hist>>

Stamp_AnyGeneration(w, g) == [w EXCEPT !.at = TRUE, !.stampers = @ \ {g}]

\* DeadlineState::stamp_if_current
Stamp(w, g) == [w EXCEPT !.at = @ \/ g = w.gen, !.stampers = @ \ {g}]

TrackerStamps ==
    /\ \E g \in watchdog.stampers : watchdog' = Stamp(watchdog, g)
    /\ UNCHANGED <<hostVars, main, outcome, askVars, startup, chanVars, healthVars, guestVars,
                   hist>>

(* check_health_once: Stopped once there is an exit file, Healthy once     *)
(* there is a ready file and, while the startup trigger is unspent, the    *)
(* container answers over exec.                                            *)
CheckHealth ==
    IF exitFile # NoBoot THEN "Stopped"
    ELSE IF readyFile # NoBoot
            /\ (startup \in {"armed", "orphan"} => guest = "running" /\ ~Paused)
         THEN "Healthy"
    ELSE "Unknown"

MonitorChecks_NoWait ==
    /\ monitor = "poll"
    /\ IF CheckHealth = "Healthy"
       THEN /\ monitor' = "persist"
            /\ startup' = IF startup = "armed" THEN "sent" ELSE startup
            /\ UNCHANGED health
       ELSE /\ health' = CheckHealth
            /\ monitor' = IF CheckHealth = "Stopped" THEN "off" ELSE "poll"
            /\ UNCHANGED startup
    /\ UNCHANGED <<hostVars, main, outcome, askVars, chanVars, watchdog, guestVars, hist>>

(* A check.  The first Healthy sends the startup trigger, if there is      *)
(* still a receiver, and waits for its ack; another Healthy is persisted   *)
(* later.  The rest is persisted at once here, and Stopped ends the        *)
(* monitor.                                                                *)
MonitorChecks ==
    /\ monitor = "poll"
    /\ IF CheckHealth = "Healthy"
       THEN /\ monitor' = IF startup = "armed" THEN "wait" ELSE "persist"
            /\ startup' = CASE startup = "armed" -> "sent"
                            [] startup = "orphan" -> "none"
                            [] OTHER -> startup
            /\ UNCHANGED health
       ELSE /\ health' = CheckHealth
            /\ monitor' = IF CheckHealth = "Stopped" THEN "off" ELSE "poll"
            /\ UNCHANGED startup
    /\ UNCHANGED <<hostVars, main, outcome, askVars, chanVars, watchdog, guestVars, hist>>

\* An ack lets Healthy be persisted; a dropped one discards the observation.
MonitorAcked ==
    /\ monitor = "wait"
    /\ startup \in {"acked", "dropped"}
    /\ monitor' = IF startup = "acked" THEN "persist" ELSE "poll"
    /\ startup' = "none"
    /\ UNCHANGED <<hostVars, main, outcome, askVars, chanVars, watchdog, health, guestVars, hist>>

MonitorPersists ==
    /\ monitor = "persist"
    /\ health' = "Healthy"
    /\ monitor' = "poll"
    /\ UNCHANGED <<hostVars, main, outcome, askVars, startup, chanVars, watchdog, guestVars, hist>>

-----------------------------------------------------------------------------
(* The guest. *)

CanRun == guest # "off" /\ ~Paused

guestOnly == <<hostVars, main, outcome, askVars, startup, listener, asker, drained, rebootReq,
               exitSeen, exitFile, readyFile, watchdog, healthVars>>

Connect(m, n) == backlog' = Append(backlog, [m |-> m, from |-> boot, ask |-> n])

\* run_cache_handshake connects and sends cache-ready, for the first time or again.  The cap
\* on the asks of a boot is never the reason to wait: AsksEnd would fail.
GuestAsks ==
    /\ CanRun
    /\ guest \in {"boot", "severed"}
    /\ listener # "off"
    /\ ask < (boot + 1) * AsksPerBoot
    /\ ask' = IF ask = 0 THEN boot * AsksPerBoot + 1 ELSE ask + 1
    /\ reply' = "Pending"
    /\ guest' = "asking"
    /\ Connect("ask", ask')
    /\ UNCHANGED <<guestOnly, boot, out, severs, hist>>

Launch ==
    /\ guest' = "running" /\ ask' = 0
    /\ out' \in SUBSET {"ready"}
    /\ hist' = [hist EXCEPT !.ran = TRUE, !.gaveUp = @ \/ reply = "Pending"]

\* The handshake fails before a verdict: it cannot ask, or ten minutes are over.
GuestGivesUp ==
    /\ CanRun
    /\ guest \in {"boot", "asking", "severed"}
    /\ reply = "Pending"
    /\ Launch
    /\ UNCHANGED <<guestOnly, backlog, boot, reply, severs>>

GuestHears ==
    /\ CanRun
    /\ guest = "asking"
    /\ reply # "Pending"
    /\ IF reply = "Doomed" THEN guest' = "parked" /\ UNCHANGED <<ask, out, hist>> ELSE Launch
    /\ reply' = "Pending"
    /\ UNCHANGED <<guestOnly, backlog, boot, severs>>

\* send_status: one connection for each message
GuestSends ==
    /\ CanRun
    /\ \E m \in out :
          /\ out' = out \ {m}
          /\ IF listener = "off" THEN UNCHANGED <<backlog, hist>>
             ELSE /\ Connect(m, 0)
                  /\ hist' = CASE m = "exit" -> [hist EXCEPT !.exitSent = TRUE]
                               [] m = "reboot" -> [hist EXCEPT !.rebootSent = TRUE]
                               [] OTHER -> hist
    /\ UNCHANGED <<guestOnly, guest, boot, ask, reply, severs>>

ContainerExits ==
    /\ CanRun
    /\ guest = "running"
    /\ out = {}
    /\ out' \in SUBSET {"exit"}
    /\ guest' = "stopping"
    /\ UNCHANGED <<guestOnly, backlog, boot, ask, reply, severs, hist>>

(* systemd stops the agent and starts the reboot-notify unit, in no order. *)
GuestReboots ==
    /\ CanRun
    /\ guest # "stopping"
    /\ boot < IF clone THEN MaxBoots ELSE MaxReboots
    /\ out' \in SUBSET IF guest = "running" THEN {"exit", "reboot"} ELSE {"reboot"}
    /\ guest' = "stopping"
    /\ ask' = 0 /\ reply' = "Pending"
    /\ UNCHANGED <<guestOnly, backlog, boot, severs, hist>>

\* the power-off or reset after the messages, or a VMM that dies
GuestStops ==
    /\ guest # "off"
    /\ guest' = "off"
    /\ out' = {}
    /\ ask' = 0 /\ reply' = "Pending"
    /\ UNCHANGED <<guestOnly, backlog, boot, severs, hist>>

\* Another process takes a snapshot of the VM while the guest waits.
OtherSnapshot ==
    /\ CanRun
    /\ guest = "asking"
    /\ lifecycle
    /\ severs < MaxSevers
    /\ severs' = severs + 1
    /\ Sever
    /\ UNCHANGED <<guestOnly, backlog, boot, ask, reply, out, hist>>

GuestStep == GuestAsks \/ GuestHears \/ GuestSends

Finished == main = "done" /\ UNCHANGED vars

Next ==
    \/ Signal
    \/ MainStep
    \/ ListenerStep
    \/ TrackerSees \/ TrackerStamps
    \/ MonitorChecks \/ MonitorAcked \/ MonitorPersists
    \/ GuestStep
    \/ GuestGivesUp \/ ContainerExits \/ GuestReboots \/ GuestStops
    \/ OtherSnapshot
    \/ Finished

Spec == Init /\ [][Next]_vars

(* The runtime polls every task that can go on, and the guest's agent runs *)
(* while its vCPUs do.  Nothing makes a guest power off, a container end   *)
(* or a signal arrive.                                                     *)
FairSpec ==
    /\ Spec
    /\ WF_vars(MainStep)
    /\ WF_vars(ListenerStep)
    /\ WF_vars(TrackerSees) /\ WF_vars(TrackerStamps)
    /\ WF_vars(MonitorChecks) /\ WF_vars(MonitorAcked) /\ WF_vars(MonitorPersists)
    /\ WF_vars(GuestStep)

-----------------------------------------------------------------------------
(* Properties. *)

(* Type correctness of the tasks' state, and that an unresolved request    *)
(* is one the listener is blocked on.                                      *)
TypeOK ==
    /\ args \in Commands /\ clone \in BOOLEAN
    /\ main \in {"setup", "claim", "publish", "loop", "drain", "read", "clear", "files",
                 "channels", "verdict", "spawn", "cache", "cachePaused", "ack", "startup",
                 "startupPaused", "cleanup", "kill", "restore", "done"}
    /\ outcome \in {"none", "interrupted", "cancelled", "error", "tty", "unreported", "exited",
                    "restore"}
    /\ requested \in BOOLEAN /\ token \in BOOLEAN /\ lifecycle \in BOOLEAN
    /\ phase \in {"setting_up", "publishing", "ready", "cancelled"}
    /\ verdict \in Verdicts /\ reply \in Verdicts
    /\ cacheRx \in BOOLEAN /\ balloonDue \in BOOLEAN
    /\ cacheReq \in 0..MaxAsks /\ asker \in 0..MaxAsks
    /\ cacheReq # 0 => listener = "ask" /\ asker = cacheReq
    /\ startup \in {"none", "armed", "orphan", "sent", "taken", "acked", "dropped"}
    /\ listener \in {"accept", "ask", "off"}
    /\ backlog \in Seq(Messages)
    /\ drained \in BOOLEAN /\ rebootReq \in BOOLEAN
    /\ {code, exitSeen, exitFile, readyFile} \subseteq Boots \cup {NoBoot}
    /\ watchdog \in [gen : Boots, at : BOOLEAN, fired : BOOLEAN, waiting : BOOLEAN,
                     stampers : SUBSET Boots]
    /\ monitor \in {"poll", "wait", "persist", "off"}
    /\ health \in Statuses
    /\ guest \in {"off", "boot", "asking", "severed", "parked", "running", "stopping"}
    /\ boot \in Boots /\ ask \in 0..MaxAsks /\ out \subseteq {"ready", "exit", "reboot"}
    /\ severs \in 0..MaxSevers

(* A signal that arrives while setup still owns the gate keeps readiness   *)
(* from ever being published, whatever the main task had already checked   *)
(* (LifecycleReadyGate::publish, cmd_podman_run).                          *)
CancelledNeverReady == hist.early => ~lifecycle

(* A guest whose VM is doomed has not started its container, so the        *)
(* container does not run twice beside the clone that replaces the VM: the *)
(* exception is a guest that gave up its handshake (run_vm_loop,           *)
(* run_status_listener, run_cache_handshake).                              *)
NoDoubleRun == verdict = "Doomed" \/ outcome = "restore" => ~hist.ran \/ hist.gaveUp

(* No client reads Healthy while the run loop holds the vCPUs stopped for  *)
(* a snapshot (spawn_health_monitor_full, run_vm_loop); the exception is a *)
(* guest that started its container without an answer.                     *)
HealthyNotPaused == Paused /\ health = "Healthy" => hist.gaveUp

(* A run ends on the reboot its guest announced only if it could not       *)
(* relaunch: a TTY, a signal, a failed relaunch, or a listener stuck on an *)
(* ask when it was probed (wait_for_reboot_decision).                      *)
RebootHonoured ==
    main = "done" /\ hist.rebootSent =>
        \/ args.tty \/ token \/ hist.stuck \/ hist.cleared
        \/ outcome = "error"

(* The exit code a run reports is the one the last VMM's guest sent, and   *)
(* one it sent is not lost: the exceptions are a message of the old guest  *)
(* handled after the relaunch forgot it, a stuck listener, and a relaunch  *)
(* that failed after it cleared the code (read_container_exit_code).       *)
ExitCodeIsCurrent ==
    main = "done" =>
        /\ outcome = "exited" => code = boot \/ hist.late
        /\ outcome = "unreported" /\ hist.exitSent => hist.stuck \/ hist.cleared

(* The watchdog kills only a guest whose own container exited, unless the  *)
(* old guest's exit was handled after the relaunch (PoweroffWatchdog).     *)
WatchdogSparesRelaunched ==
    main = "loop" /\ watchdog.at => exitSeen = boot \/ hist.late

(* A process told to stop stops, in whatever phase the signal finds it,    *)
(* the restore that follows a convergence included (ShutdownRegistry).     *)
ShutdownStops == requested ~> main = "done"

(* A container's exit that the host has seen ends the run or is forgotten  *)
(* by a relaunch, though the guest may never power off.                    *)
ExitEnds == exitSeen # NoBoot ~> main = "done" \/ exitSeen = NoBoot

(* A guest that asks what it is hears an answer, or its VMM is gone: over  *)
(* snapshots that cut its sessions, relaunches and the restore.            *)
AsksEnd == guest \in {"asking", "severed"} ~> guest \notin {"asking", "severed"}
=============================================================================
