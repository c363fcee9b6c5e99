--------------------------- MODULE RunLoopProofs ---------------------------
(***************************************************************************)
(* Proofs about RunLoop, for any command lines and bounds: type            *)
(* correctness and the six safety invariants that the run checks.          *)
(*                                                                         *)
(* The inductive invariant LoopInv says what the tasks know of each other: *)
(* which boots a reboot may still ask for, where the drain probe stands    *)
(* among the messages of its guest, what the verdict cell says while a     *)
(* request waits, what the health monitor has seen, and what the main task *)
(* has made of the guest's last words when it leaves its loop.             *)
(***************************************************************************)
EXTENDS RunLoop, TLAPS

(* The types, by the task that owns the state. *)
HostType ==
    /\ args \in Commands /\ clone \in BOOLEAN
    /\ main \in {"setup", "claim", "publish", "loop", "drain", "read", "clear", "files",
                 "channels", "verdict", "spawn", "cache", "cachePaused", "ack", "startup",
                 "startupPaused", "cleanup", "kill", "restore", "done"}
    /\ outcome \in {"none", "interrupted", "cancelled", "error", "tty", "unreported", "exited",
                    "restore"}
    /\ requested \in BOOLEAN /\ token \in BOOLEAN /\ lifecycle \in BOOLEAN
    /\ phase \in {"setting_up", "publishing", "ready", "cancelled"}
    /\ code \in Boots \cup {NoBoot}

AskType ==
    /\ verdict \in Verdicts
    /\ cacheRx \in BOOLEAN /\ balloonDue \in BOOLEAN
    /\ cacheReq \in 0..MaxAsks /\ asker \in 0..MaxAsks
    /\ cacheReq # 0 => listener = "ask" /\ asker = cacheReq
    /\ listener \in {"accept", "ask", "off"}

ChanType ==
    /\ backlog \in Seq(Messages)
    /\ drained \in BOOLEAN /\ rebootReq \in BOOLEAN
    /\ exitSeen \in Boots \cup {NoBoot} /\ exitFile \in Boots \cup {NoBoot}
    /\ readyFile \in Boots \cup {NoBoot}

Watchdogs == [gen : Boots, at : BOOLEAN, fired : BOOLEAN, waiting : BOOLEAN,
              stampers : SUBSET Boots]

TaskType ==
    /\ startup \in {"none", "armed", "orphan", "sent", "taken", "acked", "dropped"}
    /\ watchdog \in Watchdogs
    /\ monitor \in {"poll", "wait", "persist", "off"}
    /\ health \in Statuses

GuestType ==
    /\ guest \in {"off", "boot", "asking", "severed", "parked", "running", "stopping"}
    /\ boot \in Boots /\ ask \in 0..MaxAsks /\ out \subseteq {"ready", "exit", "reboot"}
    /\ reply \in Verdicts /\ severs \in 0..MaxSevers

HistType ==
    hist \in [early : BOOLEAN, gaveUp : BOOLEAN, ran : BOOLEAN, stuck : BOOLEAN, late : BOOLEAN,
              cleared : BOOLEAN, exitSent : BOOLEAN, rebootSent : BOOLEAN]

TypeInv == HostType /\ AskType /\ ChanType /\ TaskType /\ GuestType /\ HistType

-----------------------------------------------------------------------------
(* The inductive invariant. *)

Relaunching == main \in {"files", "channels", "verdict", "spawn"}

\* the main task has left its loop, or never entered it
Over == {"cleanup", "kill", "restore", "done"}

\* the boots of this process: a clone has one more, its restore
Limit == IF clone THEN MaxBoots ELSE MaxReboots

\* a message of this kind waits for the listener
Sent(m) == \E i \in DOMAIN backlog : backlog[i].m = m

OneReboot ==
    \A i, j \in DOMAIN backlog : backlog[i].m = "reboot" /\ backlog[j].m = "reboot" => i = j

(* There is one reboot to answer at a time, and it is of a guest that had  *)
(* a boot left.                                                            *)
RebootInv ==
    /\ boot <= Limit
    /\ OneReboot
    /\ Sent("reboot") => "reboot" \notin out /\ ~rebootReq
    /\ rebootReq => "reboot" \notin out /\ ~Relaunching
    /\ "reboot" \in out => guest = "stopping"
    /\ Sent("reboot") \/ rebootReq => guest \in {"stopping", "off"} /\ ~Relaunching
    /\ Sent("reboot") \/ rebootReq \/ "reboot" \in out \/ Relaunching => boot < Limit
    /\ main = "clear" => rebootReq
    /\ main \in {"drain", "read", "clear"} \/ Relaunching => guest = "off"
    /\ guest = "off" => out = {}

\* rearmed already, for a boot that is still to come
Rearmed == main \in {"channels", "verdict", "spawn", "read"}

(* The watchdog's generation is at most the boot, but for a rearmed one.   *)
WatchInv ==
    /\ watchdog.gen <= boot \/ (Rearmed /\ watchdog.gen <= boot + 1)
    /\ \A g \in watchdog.stampers : g <= watchdog.gen

(* A restored clone has no cache channel and converges no more, and a run  *)
(* that converges does nothing but clean up.                               *)
CloneInv ==
    /\ clone => /\ ~cacheRx /\ cacheReq = 0 /\ outcome # "restore"
                /\ main \notin {"cache", "cachePaused", "ack"}
    /\ outcome = "restore" => main \in {"cleanup", "kill", "restore"}
    /\ main = "restore" => outcome = "restore"

(* What the teardown leaves. *)
DownInv ==
    /\ main \in {"kill", "restore", "done"} => listener = "off" /\ backlog = <<>> /\ cacheReq = 0
    /\ listener = "off" => main \in {"kill", "restore", "done"}
    /\ main \in {"restore", "done"} => guest = "off" /\ ~rebootReq /\ ~lifecycle
    /\ main = "restore" => /\ monitor = "off" /\ health = "Unknown" /\ startup = "none"
                           /\ readyFile = NoBoot /\ exitFile = NoBoot /\ exitSeen = NoBoot

(* The phase of the gate, its token and the task that owns it. *)
GateInv ==
    /\ lifecycle => phase = "ready"
    /\ main = "publish" => phase = "publishing"
    /\ phase = "setting_up" => ~token
    /\ phase = "cancelled" => token
    /\ main \in {"setup", "claim"} => phase \in {"setting_up", "cancelled"}
    /\ hist.early => requested /\ phase = "cancelled"

(* The verdict is pending while the main task works on the request, and    *)
(* until it is something else no guest was answered.                       *)
VerdictInv ==
    /\ main \in {"cache", "cachePaused"} => verdict = "Pending" /\ cacheReq # 0
    /\ main = "ack" => verdict = "Continue"
    /\ main \in {"verdict", "spawn"} => ~cacheRx /\ cacheReq = 0
    /\ cacheReq # 0 => verdict = "Pending" \/ main = "ack"
    /\ outcome = "restore" => verdict = "Doomed"
    /\ verdict = "Pending" => reply = "Pending"
    /\ verdict = "Doomed" => reply \in {"Pending", "Doomed"}
    /\ verdict \in {"Pending", "Doomed"} /\ hist.ran => hist.gaveUp

(* Nothing of a container is seen before one ran, and Healthy is not       *)
(* persisted while the startup trigger is out.                             *)
HealthInv ==
    /\ ~hist.ran => /\ readyFile = NoBoot /\ ~Sent("ready") /\ "ready" \notin out
                    /\ health # "Healthy" /\ monitor \notin {"wait", "persist"}
                    /\ guest # "running"
    /\ startup # "none" => health # "Healthy" /\ monitor # "persist"
    /\ monitor = "wait" <=> startup \in {"sent", "taken", "acked", "dropped"}
    /\ main \in {"startup", "startupPaused"} => startup = "taken"

\* the i-th message is the drain probe of this boot
Probe(i) == backlog[i].m = "drain" /\ backlog[i].from = boot

\* a message of this kind is behind the i-th
Later(i, m) == \E k \in DOMAIN backlog : k > i /\ backlog[k].m = m

\* the VMM's exit has been seen, and this boot is not gone on with
Ending == main \in {"drain", "read", "clear", "cleanup"} \/ Relaunching

(* No message is of a boot to come, and there is one probe of a boot.      *)
MessageInv ==
    /\ \A i \in DOMAIN backlog : backlog[i].from <= boot
    /\ \A i \in DOMAIN backlog : Probe(i) => Ending
    /\ \A i, j \in DOMAIN backlog : Probe(i) /\ Probe(j) => i = j

\* the probe is on its way, behind all that its guest sent
Probing == \E i \in DOMAIN backlog : Probe(i) /\ ~Later(i, "exit") /\ ~Later(i, "reboot")

(* Once the probe is acked, nothing that its guest sent is unread.         *)
DrainInv ==
    /\ drained => main = "drain" /\ ~Sent("exit") /\ ~Sent("reboot")
    /\ main = "drain" /\ ~drained => Probing

(* A reboot the guest announced is not forgotten, but for the exceptions   *)
(* of RebootHonoured; and why the main task left its loop.                 *)
RebootSeen ==
    /\ hist.rebootSent => \/ rebootReq \/ Sent("reboot") \/ Relaunching \/ main \in Over
                          \/ hist.stuck \/ hist.cleared
    /\ main = "read" => args.tty \/ hist.stuck \/ hist.cleared \/ ~hist.rebootSent
    /\ main \in Over /\ outcome \in {"exited", "unreported"} =>
           ~args.tty /\ (hist.stuck \/ hist.cleared \/ ~hist.rebootSent)
    /\ main \in Over /\ outcome \in {"exited", "unreported", "tty"} => guest = "off"
    /\ main \in Over => outcome # "none"
    /\ main \in Over /\ outcome = "tty" => args.tty
    /\ main \in Over /\ outcome \in {"interrupted", "cancelled"} => token

(* What the exit file and the exit flag hold is of this boot, unless it    *)
(* came late; and an exit the guest sent is not forgotten.                 *)
ExitInv ==
    /\ ~hist.late => exitFile \in {NoBoot, boot} /\ exitSeen \in {NoBoot, boot}
    /\ ~hist.late /\ main \in {"channels", "verdict", "spawn"} => exitFile = NoBoot
    /\ ~hist.late /\ Relaunching => exitSeen = NoBoot
    /\ main \in Over /\ outcome = "exited" => code = boot \/ hist.late
    /\ hist.exitSent => \/ exitFile # NoBoot \/ Sent("exit") \/ Relaunching \/ main \in Over
                        \/ hist.stuck \/ hist.cleared
    /\ main = "read" => args.tty \/ hist.stuck \/ hist.cleared \/ ~Sent("exit")
    /\ main \in Over /\ outcome = "unreported" /\ hist.exitSent => hist.stuck \/ hist.cleared

\* the deadline is stamped, or the tracker of this generation will stamp it
Stamping == watchdog.at \/ watchdog.gen \in watchdog.stampers

(* The deadline runs only once an exit was seen.                           *)
StampInv ==
    ~hist.late /\ main # "files" /\ main \notin Over /\ Stamping => exitSeen # NoBoot

LoopInv ==
    /\ TypeInv /\ RebootInv /\ WatchInv /\ CloneInv /\ DownInv /\ GateInv /\ VerdictInv
    /\ HealthInv /\ MessageInv /\ DrainInv /\ RebootSeen /\ ExitInv /\ StampInv

-----------------------------------------------------------------------------
(* Constants. *)
LEMMA Values ==
    /\ MaxReboots \in Nat /\ MaxBoots \in Nat /\ MaxBoots = MaxReboots + 1
    /\ NoBoot \in Nat /\ NoBoot \notin Boots /\ 0 \in Boots
    /\ MaxAsks \in Nat /\ AsksPerBoot \in Nat /\ 0 \in 0..MaxAsks /\ 0 \in 0..MaxSevers
    /\ \A n \in Nat : n \in Boots <=> n <= MaxBoots
  <1>1. MaxReboots \in Nat /\ MaxSevers \in Nat /\ MaxBoots = MaxReboots + 1 /\ AsksPerBoot = MaxSevers + 2
    BY RunLoopAssumption DEF MaxBoots, AsksPerBoot
  <1>2. MaxAsks = (MaxBoots + 1) * AsksPerBoot
    BY DEF MaxAsks
  <1>3. MaxAsks \in Nat
    BY <1>1, <1>2
  <1> QED BY <1>1, <1>3 DEF NoBoot, Boots

(* The asks of a boot are below those of the last one. *)
LEMMA AsksFit ==
    ASSUME NEW b \in Boots
    PROVE  b * AsksPerBoot + 1 <= MaxAsks /\ (b + 1) * AsksPerBoot <= MaxAsks /\ b * AsksPerBoot \in Nat
           /\ (b + 1) * AsksPerBoot \in Nat
  <1> DEFINE A == AsksPerBoot
             B == MaxBoots
  <1>1. A \in Nat /\ B \in Nat /\ A >= 2 /\ b \in Nat /\ b <= B /\ MaxAsks = (B + 1) * A
    BY Values, RunLoopAssumption DEF Boots, AsksPerBoot, MaxAsks
  <1> HIDE DEF A, B
  <1>2. PICK d \in Nat : B = b + d
    <2>1. B - b \in Nat /\ B = b + (B - b)
      BY <1>1
    <2> QED BY <2>1
  <1>3. (B + 1) * A = (b + 1) * A + d * A /\ d * A >= 0 /\ (b + 1) * A = b * A + A /\ b * A \in Nat
    BY <1>1, <1>2
  <1> QED BY <1>1, <1>3 DEF A

(* Arguments are Booleans. *)
LEMMA ArgsType == args \in Commands => args \in Command
  BY RunLoopAssumption

LEMMA TypeInit == Init => TypeInv
  <1> SUFFICES ASSUME Init PROVE TypeInv
    OBVIOUS
  <1>1. args \in Command /\ (args.snapshots \/ args.balloon) \in BOOLEAN /\ args.balloon \in BOOLEAN
    BY ArgsType DEF Init, Command
  <1>2. HostType /\ GuestType
    BY Values DEF Init, HostType, GuestType, Verdicts
  <1>5. ChanType
    <2>1. <<>> \in Seq(Messages)
      OBVIOUS
    <2> QED BY <2>1, Values DEF Init, ChanType
  <1>6. HistType
    BY DEF Init, HistType
  <1>3. AskType
    <2>1. cacheRx \in BOOLEAN /\ balloonDue \in BOOLEAN
      BY <1>1 DEF Init
    <2>2. verdict \in Verdicts
      BY DEF Init, Verdicts
    <2> QED BY <2>1, <2>2, Values DEF Init, AskType
  <1>4. TaskType
    BY <1>1, Values DEF Init, TaskType, NoWatchdog, NewWatchdog, Statuses, Watchdogs
  <1> QED BY <1>2, <1>3, <1>4, <1>5, <1>6 DEF TypeInv

LEMMA HostTypeStep ==
    ASSUME TypeInv, [Next]_vars PROVE HostType'
  <1>0. HostType /\ exitFile \in Boots \cup {NoBoot}
    BY DEF TypeInv, ChanType
  <1>1. CASE UNCHANGED <<args, clone, main, outcome, requested, token, lifecycle, phase, code>>
    BY <1>0, <1>1 DEF HostType
  <1>2. CASE Signal \/ Precheck \/ ClaimPublication \/ Publish
    <2>1. CASE Signal
      BY <1>0, <2>1 DEF HostType, Signal
    <2>2. CASE Precheck
      BY <1>0, <2>2 DEF HostType, Precheck, hostVars
    <2>3. CASE ClaimPublication
      BY <1>0, <2>3 DEF HostType, ClaimPublication
    <2>4. CASE Publish
      BY <1>0, <2>4 DEF HostType, Publish
    <2> QED BY <1>2, <2>1, <2>2, <2>3, <2>4
  <1>3. CASE LoopCancelled \/ LoopExpired \/ LoopExited \/ DrainEnds \/ ReadExitCode \/ ClearSignals \/ RemoveFiles
             \/ DropChannels \/ ResetVerdict \/ Spawn \/ SpawnFails
    <2>1. CASE LoopCancelled \/ LoopExpired \/ LoopExited \/ DrainEnds
      BY <1>0, <2>1 DEF HostType, LoopCancelled, LoopExpired, LoopExited, DrainEnds, Decided, Return, hostVars
    <2>2. CASE ReadExitCode
      BY <1>0, <2>2 DEF HostType, ReadExitCode, Return
    <2>3. CASE ClearSignals \/ RemoveFiles \/ DropChannels \/ ResetVerdict \/ Spawn \/ SpawnFails
      BY <1>0, <2>3 DEF HostType, ClearSignals, RemoveFiles, DropChannels, ResetVerdict, Spawn, SpawnFails, Return,
         hostVars
    <2> QED BY <1>3, <2>1, <2>2, <2>3
  <1>4. CASE LoopCache \/ CacheCancelled \/ CacheBalloon \/ CachePause \/ CacheNotTaken \/ CacheExisting \/ CacheResumed \/ CacheAck
    BY <1>0, <1>4 DEF HostType, LoopCache, CacheCancelled, CacheBalloon, CachePause, CacheNotTaken, CacheExisting, CacheResumed,
       CacheAck, Continue, Doom, Return, hostVars
  <1>5. CASE LoopStartup \/ StartupCancelled \/ StartupBalloon \/ StartupPause \/ StartupAck
    BY <1>0, <1>5 DEF HostType, LoopStartup, StartupCancelled, StartupBalloon, StartupPause, StartupAck, Return, hostVars
  <1>6. CASE StopListener \/ Teardown \/ Restore
    BY <1>0, <1>6 DEF HostType, StopListener, Teardown, Restore, NewGate, hostVars
  <1>7. CASE ListenerStep \/ TrackerSees \/ TrackerStamps
    BY <1>1, <1>7 DEF ListenerStep, ListenReady, ListenExit, ListenReboot, ListenDrain, ListenAsk,
       ListenResolved, TrackerSees, TrackerStamps, hostVars
  <1>8. CASE \/ MonitorChecks \/ MonitorAcked \/ MonitorPersists \/ GuestStep \/ GuestGivesUp \/ ContainerExits
             \/ GuestReboots \/ GuestStops \/ OtherSnapshot \/ Finished \/ UNCHANGED vars
    BY <1>1, <1>8 DEF MonitorChecks, MonitorAcked, MonitorPersists, GuestStep, GuestAsks, GuestHears, GuestSends,
       GuestGivesUp, ContainerExits, GuestReboots, GuestStops, OtherSnapshot, Finished, guestOnly, vars, hostVars
  <1> QED BY <1>2, <1>3, <1>4, <1>5, <1>6, <1>7, <1>8 DEF Next, MainStep

LEMMA HeadIsMessage ==
    ASSUME ChanType, backlog # <<>>
    PROVE  /\ Head(backlog).from \in Boots /\ Head(backlog).ask \in 0..MaxAsks
           /\ Tail(backlog) \in Seq(Messages) /\ Head(backlog) = backlog[1] /\ Len(backlog) \in Nat \ {0}
           /\ Len(Tail(backlog)) = Len(backlog) - 1
           /\ \A i \in DOMAIN Tail(backlog) : i + 1 \in DOMAIN backlog /\ Tail(backlog)[i] = backlog[i + 1]
  <1>1. backlog \in Seq(Messages)
    BY DEF ChanType
  <1>2. Head(backlog) \in Messages
    BY <1>1
  <1> QED BY <1>1, <1>2 DEF Messages

LEMMA AppendMessage ==
    ASSUME ChanType, NEW x
    PROVE  LET b == Append(backlog, x) IN
           /\ x \in Messages => b \in Seq(Messages)
           /\ Len(backlog) \in Nat /\ DOMAIN backlog = 1 .. Len(backlog) /\ DOMAIN b = 1 .. Len(backlog) + 1
           /\ b[Len(backlog) + 1] = x /\ \A i \in DOMAIN backlog : b[i] = backlog[i]
  BY DEF ChanType

LEMMA AskTypeStep ==
    ASSUME TypeInv, DownInv, [Next]_vars PROVE AskType'
  <1>0. AskType /\ ChanType /\ args \in Commands
    BY DEF TypeInv, HostType
  <1>1. CASE UNCHANGED <<verdict, cacheRx, balloonDue, cacheReq, asker, listener>>
    BY <1>0, <1>1 DEF AskType
  <1>2. CASE DropChannels \/ ResetVerdict
    BY <1>0, <1>2, Values DEF AskType, DropChannels, ResetVerdict, chanVars, Verdicts
  <1>3. CASE CacheCancelled \/ CacheBalloon \/ CacheNotTaken \/ CacheExisting \/ CacheResumed \/ CacheAck
    BY <1>0, <1>3, Values DEF AskType, CacheCancelled, CacheBalloon, CacheNotTaken, CacheExisting, CacheResumed, CacheAck, Doom,
       Continue, chanVars, Verdicts
  <1>4. CASE StartupBalloon
    BY <1>0, <1>4 DEF AskType, StartupBalloon, chanVars
  <1>5. CASE StopListener \/ Teardown
    BY <1>0, <1>5, Values DEF AskType, StopListener, Teardown
  <1>6. CASE Restore
    <2>1. cacheReq = 0 /\ cacheReq' = cacheReq /\ asker' = asker
      BY <1>6 DEF DownInv, Restore, askVars, chanVars
    <2>2. verdict' \in Verdicts /\ cacheRx' \in BOOLEAN /\ balloonDue' \in BOOLEAN
      BY <1>0, <1>6 DEF AskType, Restore, askVars, chanVars, Verdicts
    <2>3. listener' \in {"accept", "ask", "off"}
      BY <1>0, <1>6 DEF AskType, Restore, chanVars
    <2> QED BY <1>0, <2>1, <2>2, <2>3 DEF AskType
  <1>7. CASE ListenAsk
    BY <1>0, <1>7, HeadIsMessage DEF AskType, ListenAsk, Accepts
  <1>8. CASE ListenResolved
    BY <1>0, <1>8, Values DEF AskType, ListenResolved, askVars
  <1>9. CASE Signal \/ Precheck \/ ClaimPublication \/ Publish \/ LoopCancelled \/ LoopExpired \/ LoopExited \/ DrainEnds
             \/ ReadExitCode \/ ClearSignals \/ RemoveFiles \/ Spawn \/ SpawnFails
    BY <1>1, <1>9 DEF Signal, Precheck, ClaimPublication, Publish, LoopCancelled, LoopExpired, LoopExited, DrainEnds,
       ReadExitCode, ClearSignals, RemoveFiles, Spawn, SpawnFails, askVars, chanVars
  <1>10. CASE LoopCache \/ CachePause \/ LoopStartup \/ StartupCancelled \/ StartupPause \/ StartupAck \/ ListenReady
             \/ ListenExit \/ ListenReboot \/ ListenDrain \/ TrackerSees \/ TrackerStamps
    BY <1>1, <1>10 DEF LoopCache, CachePause, LoopStartup, StartupCancelled, StartupPause, StartupAck, ListenReady,
       ListenExit, ListenReboot, ListenDrain, TrackerSees, TrackerStamps, askVars, chanVars
  <1>11. CASE \/ MonitorChecks \/ MonitorAcked \/ MonitorPersists \/ GuestStep \/ GuestGivesUp \/ ContainerExits
             \/ GuestReboots \/ GuestStops \/ OtherSnapshot \/ Finished \/ UNCHANGED vars
    BY <1>1, <1>11 DEF MonitorChecks, MonitorAcked, MonitorPersists, GuestStep, GuestAsks, GuestHears, GuestSends,
       GuestGivesUp, ContainerExits, GuestReboots, GuestStops, OtherSnapshot, Finished, guestOnly, vars, askVars, chanVars
  <1> QED BY <1>2, <1>3, <1>4, <1>5, <1>6, <1>7, <1>8, <1>9, <1>10, <1>11 DEF Next, MainStep, ListenerStep

LEMMA ChanTypeStep ==
    ASSUME TypeInv, [Next]_vars PROVE ChanType'
  <1>0. ChanType /\ boot \in Boots /\ ask \in 0..MaxAsks /\ out \subseteq {"ready", "exit", "reboot"}
    BY DEF TypeInv, GuestType
  <1>1. CASE UNCHANGED <<backlog, drained, rebootReq, exitSeen, exitFile, readyFile>>
    BY <1>0, <1>1 DEF ChanType
  <1>2. CASE LoopExited
    <2>1. [m |-> "drain", from |-> boot, ask |-> 0] \in Messages
      BY <1>0, Values DEF Messages
    <2>2. backlog' \in Seq(Messages)
      BY <1>0, <1>2, <2>1, AppendMessage DEF LoopExited, ChanType
    <2> QED BY <1>0, <1>2, <2>2 DEF LoopExited, ChanType
  <1>3. CASE DrainEnds \/ ClearSignals \/ RemoveFiles
    BY <1>0, <1>3 DEF DrainEnds, ClearSignals, RemoveFiles, ChanType
  <1>4. CASE StopListener
    <2>1. <<>> \in Seq(Messages)
      OBVIOUS
    <2> QED BY <1>0, <1>4, <2>1 DEF StopListener, ChanType
  <1>5. CASE Teardown
    BY <1>0, <1>5 DEF Teardown, ChanType
  <1>6. CASE Restore
    BY <1>0, <1>6 DEF Restore, ChanType, chanVars
  <1>7. CASE ListenerStep
    <2>1. CASE ListenReady \/ ListenExit \/ ListenReboot
      BY <1>0, <2>1, HeadIsMessage DEF ListenReady, ListenExit, ListenReboot, Accepts, ChanType
    <2>2. CASE ListenDrain
      <3>1. drained' \in BOOLEAN
        BY <1>0, <2>2 DEF ListenDrain, ChanType
      <3> QED BY <1>0, <2>2, <3>1, HeadIsMessage DEF ListenDrain, Accepts, ChanType
    <2>3. CASE ListenAsk
      BY <1>0, <2>3, HeadIsMessage DEF ListenAsk, Accepts, ChanType
    <2>4. CASE ListenResolved
      BY <1>0, <2>4 DEF ListenResolved, ChanType
    <2> QED BY <1>7, <2>1, <2>2, <2>3, <2>4 DEF ListenerStep
  <1>8. ASSUME NEW m \in {"ask", "ready", "exit", "reboot"}, NEW n \in 0..MaxAsks, Connect(m, n),
               UNCHANGED <<drained, rebootReq, exitSeen, exitFile, readyFile>>
        PROVE  ChanType'
    <2>1. [m |-> m, from |-> boot, ask |-> n] \in Messages
      BY <1>0, <1>8 DEF Messages
    <2>2. backlog' \in Seq(Messages)
      BY <1>0, <1>8, <2>1, AppendMessage DEF Connect
    <2> QED BY <1>0, <1>8, <2>2 DEF ChanType
  <1>9. CASE GuestAsks
    <2>1. PICK n \in Nat : n = ask'
      BY <1>0, <1>9, AsksFit DEF GuestAsks
    <2>2. n \in 0..MaxAsks
      <3>1. ask \in Nat /\ ask < (boot + 1) * AsksPerBoot /\ n = IF ask = 0 THEN boot * AsksPerBoot + 1 ELSE ask + 1
        BY <1>0, <1>9, <2>1, Values DEF GuestAsks
      <3> DEFINE x == (boot + 1) * AsksPerBoot
                 y == boot * AsksPerBoot
      <3>2. x \in Nat /\ y \in Nat /\ y + 1 <= MaxAsks /\ x <= MaxAsks /\ MaxAsks \in Nat
        BY <1>0, AsksFit, Values
      <3>3. ask < x /\ n = IF ask = 0 THEN y + 1 ELSE ask + 1
        BY <3>1
      <3> HIDE DEF x, y
      <3> QED BY <2>1, <3>1, <3>2, <3>3
    <2> QED BY <1>8, <1>9, <2>1, <2>2 DEF GuestAsks, guestOnly
  <1>10. CASE GuestSends
    <2>1. UNCHANGED <<drained, rebootReq, exitSeen, exitFile, readyFile>>
      BY <1>10 DEF GuestSends, guestOnly
    <2>2. PICK m \in out : (IF listener = "off" THEN UNCHANGED backlog ELSE Connect(m, 0))
      BY <1>10 DEF GuestSends
    <2> QED BY <1>0, <1>1, <1>8, <2>1, <2>2, Values
  <1>11. CASE Signal \/ Precheck \/ ClaimPublication \/ Publish \/ LoopCancelled \/ LoopExpired
             \/ ReadExitCode \/ Spawn \/ SpawnFails \/ DropChannels \/ ResetVerdict
    BY <1>1, <1>11 DEF Signal, Precheck, ClaimPublication, Publish, LoopCancelled, LoopExpired,
       ReadExitCode, Spawn, SpawnFails, DropChannels, ResetVerdict, chanVars
  <1>12. CASE LoopCache \/ CachePause \/ LoopStartup \/ StartupCancelled \/ StartupPause \/ StartupAck
             \/ TrackerSees \/ TrackerStamps \/ CacheCancelled \/ CacheBalloon \/ CacheNotTaken \/ CacheExisting \/ CacheResumed
             \/ CacheAck \/ StartupBalloon
    BY <1>1, <1>12 DEF LoopCache, CachePause, LoopStartup, StartupCancelled, StartupPause, StartupAck,
       TrackerSees, TrackerStamps, CacheCancelled, CacheBalloon, CacheNotTaken, CacheExisting, CacheResumed, CacheAck, StartupBalloon,
       chanVars
  <1>13. CASE \/ MonitorChecks \/ MonitorAcked \/ MonitorPersists \/ GuestHears \/ GuestGivesUp \/ ContainerExits
             \/ GuestReboots \/ GuestStops \/ OtherSnapshot \/ Finished \/ UNCHANGED vars
    BY <1>1, <1>13 DEF MonitorChecks, MonitorAcked, MonitorPersists, GuestHears,
       GuestGivesUp, ContainerExits, GuestReboots, GuestStops, OtherSnapshot, Finished, guestOnly, vars, chanVars
  <1> QED BY <1>2, <1>3, <1>4, <1>5, <1>6, <1>7, <1>9, <1>10, <1>11, <1>12, <1>13 DEF Next, MainStep, GuestStep
(* The ask of a guest is one of its boot. *)
LEMMA AskNumber ==
    ASSUME TypeInv, GuestAsks PROVE ask' \in 0..MaxAsks
  <1>0. boot \in Boots /\ ask \in 0..MaxAsks
    BY DEF TypeInv, GuestType
  <1> DEFINE x == (boot + 1) * AsksPerBoot
             y == boot * AsksPerBoot
  <1>1. ask \in Nat /\ ask < x /\ ask' = IF ask = 0 THEN y + 1 ELSE ask + 1
    BY <1>0, Values DEF GuestAsks
  <1>2. x \in Nat /\ y \in Nat /\ y + 1 <= MaxAsks /\ x <= MaxAsks /\ MaxAsks \in Nat
    BY <1>0, AsksFit, Values
  <1> HIDE DEF x, y
  <1> QED BY <1>1, <1>2

(* What a step does to the watchdog. *)
WatchdogMove ==
    \/ UNCHANGED watchdog
    \/ watchdog' = NewWatchdog /\ (Publish \/ Restore)
    \/ watchdog' = NoWatchdog /\ main' \in Over
    \/ LoopExpired \/ RemoveFiles \/ TrackerSees \/ TrackerStamps

LEMMA WatchdogMoves ==
    ASSUME TypeInv, [Next]_vars PROVE WatchdogMove
  <1>1. ASSUME UNCHANGED watchdog PROVE WatchdogMove
    BY <1>1 DEF WatchdogMove
  <1>2. ASSUME watchdog' = NoWatchdog, main' \in Over PROVE WatchdogMove
    BY <1>2 DEF WatchdogMove
  <1>3. CASE Publish
    BY <1>1, <1>3 DEF WatchdogMove, Publish
  <1>4. CASE Restore
    BY <1>1, <1>4 DEF WatchdogMove, Restore
  <1>5. CASE LoopExpired \/ RemoveFiles \/ TrackerSees \/ TrackerStamps
    BY <1>5 DEF WatchdogMove
  <1>6. CASE LoopCancelled \/ ReadExitCode \/ SpawnFails \/ StartupCancelled \/ StartupBalloon \/ Teardown
    BY <1>1, <1>2, <1>6
    DEF LoopCancelled, ReadExitCode, SpawnFails, StartupCancelled, StartupBalloon, Teardown, Return, Over
  <1>7. CASE CacheCancelled \/ CacheBalloon \/ CacheNotTaken \/ CacheExisting \/ CacheResumed
    BY <1>1, <1>2, <1>7
    DEF CacheCancelled, CacheBalloon, CacheNotTaken, CacheExisting, CacheResumed, Doom, Continue, Return, Over
  <1>8. CASE Signal \/ Precheck \/ ClaimPublication \/ LoopExited \/ DrainEnds \/ ClearSignals
             \/ DropChannels \/ ResetVerdict \/ Spawn \/ LoopCache \/ CachePause \/ CacheAck
    BY <1>1, <1>8 DEF Signal, Precheck, ClaimPublication, LoopExited, DrainEnds, ClearSignals,
       DropChannels, ResetVerdict, Spawn, LoopCache, CachePause, CacheAck, Decided, hostVars, askVars,
       chanVars, healthVars, guestVars
  <1>9. CASE LoopStartup \/ StartupPause \/ StartupAck \/ StopListener \/ ListenReady \/ ListenExit
             \/ ListenReboot \/ ListenDrain \/ ListenAsk \/ ListenResolved \/ MonitorChecks
             \/ MonitorAcked
    BY <1>1, <1>9 DEF LoopStartup, StartupPause, StartupAck, StopListener, ListenReady, ListenExit,
       ListenReboot, ListenDrain, ListenAsk, ListenResolved, MonitorChecks, MonitorAcked, Sever,
       Accepts, Answer, hostVars, askVars, chanVars, healthVars, guestVars
  <1>10. CASE MonitorPersists \/ GuestAsks \/ GuestHears \/ GuestSends \/ GuestGivesUp
              \/ ContainerExits \/ GuestReboots \/ GuestStops \/ OtherSnapshot \/ Finished
              \/ UNCHANGED vars
    BY <1>1, <1>10 DEF MonitorPersists, GuestAsks, GuestHears, GuestSends, GuestGivesUp,
       ContainerExits, GuestReboots, GuestStops, OtherSnapshot, Finished, Connect, Launch, Sever,
       hostVars, askVars, chanVars, healthVars, guestVars, vars, guestOnly
  <1> QED BY <1>3, <1>4, <1>5, <1>6, <1>7, <1>8, <1>9, <1>10 DEF Next, MainStep, ListenerStep, GuestStep

(* The watchdog after each of its moves. *)
LEMMA WatchdogType ==
    ASSUME TypeInv, RebootInv, WatchInv, [Next]_vars PROVE watchdog' \in Watchdogs
  <1>0. watchdog \in Watchdogs /\ boot \in Nat /\ watchdog.gen \in Nat /\ 0 \in Boots
    BY Values DEF TypeInv, TaskType, GuestType, Watchdogs, Boots
  <1>1. NewWatchdog \in Watchdogs /\ NoWatchdog \in Watchdogs
    BY <1>0 DEF Watchdogs, NewWatchdog, NoWatchdog
  <1>2. CASE LoopExpired
    BY <1>0, <1>1, <1>2 DEF LoopExpired, Return, Watchdogs
  <1>3. CASE RemoveFiles
    <2>1. watchdog.gen <= boot /\ boot < Limit
      BY <1>3 DEF RemoveFiles, WatchInv, Rearmed, RebootInv, Relaunching
    <2>2. watchdog.gen + 1 \in Boots
      BY <1>0, <2>1, Values DEF Limit
    <2> QED BY <1>0, <1>3, <2>2 DEF RemoveFiles, Rearm, Watchdogs
  <1>4. CASE TrackerSees
    BY <1>0, <1>4 DEF TrackerSees, Watchdogs
  <1>5. CASE TrackerStamps
    <2>1. PICK g \in watchdog.stampers : watchdog' = Stamp(watchdog, g)
      BY <1>5 DEF TrackerStamps
    <2>2. (watchdog.at \/ g = watchdog.gen) \in BOOLEAN /\ watchdog.stampers \ {g} \in SUBSET Boots
      BY <1>0 DEF Watchdogs
    <2> QED BY <1>0, <2>1, <2>2 DEF Stamp, Watchdogs
  <1> QED BY <1>0, <1>1, <1>2, <1>3, <1>4, <1>5, WatchdogMoves DEF WatchdogMove

LEMMA TaskTypeStep ==
    ASSUME TypeInv, RebootInv, WatchInv, [Next]_vars PROVE TaskType'
  <1>0. TaskType /\ watchdog' \in Watchdogs
    BY WatchdogType DEF TypeInv
  <1>1. ASSUME UNCHANGED <<startup, monitor, health>> PROVE TaskType'
    BY <1>0, <1>1 DEF TaskType
  <1>2. CASE DropChannels \/ StartupCancelled \/ StartupBalloon
    BY <1>0, <1>2 DEF DropChannels, StartupCancelled, StartupBalloon, Dropped, TaskType, healthVars
  <1>3. CASE LoopStartup \/ StartupAck
    BY <1>0, <1>3 DEF LoopStartup, StartupAck, TaskType, healthVars
  <1>4. CASE Teardown \/ Restore
    BY <1>0, <1>4 DEF Teardown, Restore, TaskType, healthVars, Statuses
  <1>5. CASE MonitorChecks
    BY <1>0, <1>5 DEF MonitorChecks, CheckHealth, TaskType, Statuses
  <1>6. CASE MonitorAcked \/ MonitorPersists
    BY <1>0, <1>6 DEF MonitorAcked, MonitorPersists, TaskType, Statuses
  <1>7. CASE Signal \/ Precheck \/ ClaimPublication \/ Publish \/ LoopCancelled \/ LoopExpired
             \/ LoopExited \/ DrainEnds \/ ReadExitCode \/ ClearSignals \/ RemoveFiles \/ ResetVerdict
    BY <1>1, <1>7 DEF Signal, Precheck, ClaimPublication, Publish, LoopCancelled, LoopExpired,
       LoopExited, DrainEnds, ReadExitCode, ClearSignals, RemoveFiles, ResetVerdict, Return, Decided,
       hostVars, askVars, chanVars, healthVars, guestVars
  <1>8. CASE Spawn \/ SpawnFails \/ LoopCache \/ CacheCancelled \/ CacheBalloon \/ CachePause
             \/ CacheNotTaken \/ CacheExisting \/ CacheResumed \/ CacheAck \/ StartupPause \/ StopListener
             \/ ListenReady
    BY <1>1, <1>8 DEF Spawn, SpawnFails, LoopCache, CacheCancelled, CacheBalloon, CachePause,
       CacheNotTaken, CacheExisting, CacheResumed, CacheAck, StartupPause, StopListener, ListenReady, Return, Doom,
       Continue, Sever, Accepts, hostVars, askVars, chanVars, healthVars, guestVars
  <1>9. CASE ListenExit \/ ListenReboot \/ ListenDrain \/ ListenAsk \/ ListenResolved \/ TrackerSees
             \/ TrackerStamps \/ GuestAsks \/ GuestHears \/ GuestSends \/ GuestGivesUp
             \/ ContainerExits
    BY <1>1, <1>9 DEF ListenExit, ListenReboot, ListenDrain, ListenAsk, ListenResolved, TrackerSees,
       TrackerStamps, GuestAsks, GuestHears, GuestSends, GuestGivesUp, ContainerExits, Accepts, Answer,
       Connect, Launch, hostVars, askVars, chanVars, healthVars, guestVars, guestOnly
  <1>10. CASE GuestReboots \/ GuestStops \/ OtherSnapshot \/ Finished \/ UNCHANGED vars
    BY <1>1, <1>10 DEF GuestReboots, GuestStops, OtherSnapshot, Finished, Sever, hostVars, askVars,
       chanVars, healthVars, guestVars, vars, guestOnly
  <1> QED BY <1>2, <1>3, <1>4, <1>5, <1>6, <1>7, <1>8, <1>9, <1>10 DEF Next, MainStep, ListenerStep, GuestStep

LEMMA GuestTypeStep ==
    ASSUME TypeInv, RebootInv, CloneInv, DownInv, [Next]_vars PROVE GuestType'
  <1>0. GuestType /\ boot \in Nat /\ verdict \in Verdicts /\ "Pending" \in Verdicts
    BY Values DEF TypeInv, GuestType, AskType, Boots, Verdicts
  <1>1. ASSUME UNCHANGED <<boot, ask, out, reply, severs>>,
               guest' \in {"off", "boot", "asking", "severed", "parked", "running", "stopping"}
        PROVE  GuestType'
    BY <1>0, <1>1 DEF GuestType
  <1>2. CASE LoopExpired \/ Teardown \/ GuestStops \/ ContainerExits \/ GuestReboots
    BY <1>0, <1>2, Values
    DEF LoopExpired, Teardown, GuestStops, ContainerExits, GuestReboots, GuestType
  <1>3. CASE Spawn
    <2>1. boot + 1 \in Boots
      BY <1>0, <1>3, Values DEF Spawn, RebootInv, Relaunching, Limit
    <2> QED BY <1>0, <1>3, <2>1 DEF Spawn, GuestType
  <1>4. CASE Restore
    <2>1. boot + 1 \in Boots
      BY <1>0, <1>4, Values DEF Restore, RebootInv, CloneInv, Limit
    <2> QED BY <1>0, <1>4, <2>1 DEF Restore, GuestType, guestVars
  <1>5. CASE CacheResumed \/ StartupAck \/ StopListener
    BY <1>0, <1>1, <1>5 DEF CacheResumed, StartupAck, StopListener, Sever, GuestType
  <1>6. CASE ListenAsk \/ ListenResolved
    <2>1. reply' \in Verdicts /\ guest' \in {guest, "severed"}
      BY <1>0, <1>6 DEF ListenAsk, ListenResolved, Answer, GuestType
    <2>2. UNCHANGED <<boot, ask, out, severs>>
      BY <1>6 DEF ListenAsk, ListenResolved
    <2> QED BY <1>0, <2>1, <2>2 DEF GuestType
  <1>7. CASE GuestAsks
    BY <1>0, <1>7, AskNumber DEF GuestAsks, GuestType
  <1>8. CASE GuestHears \/ GuestGivesUp
    BY <1>0, <1>8, Values DEF GuestHears, GuestGivesUp, Launch, GuestType
  <1>9. CASE GuestSends
    BY <1>0, <1>9 DEF GuestSends, GuestType
  <1>10. CASE OtherSnapshot
    BY <1>0, <1>10, RunLoopAssumption DEF OtherSnapshot, Sever, GuestType
  <1>11. CASE Signal \/ Precheck \/ ClaimPublication \/ Publish \/ LoopCancelled \/ LoopExited
              \/ DrainEnds \/ ReadExitCode \/ ClearSignals \/ RemoveFiles \/ DropChannels
              \/ ResetVerdict
    BY <1>0, <1>1, <1>11 DEF Signal, Precheck, ClaimPublication, Publish, LoopCancelled, LoopExited,
       DrainEnds, ReadExitCode, ClearSignals, RemoveFiles, DropChannels, ResetVerdict, Return, Decided,
       hostVars, askVars, chanVars, healthVars, guestVars, GuestType
  <1>12. CASE SpawnFails \/ LoopCache \/ CacheCancelled \/ CacheBalloon \/ CachePause \/ CacheNotTaken \/ CacheExisting
              \/ CacheAck \/ LoopStartup \/ StartupCancelled \/ StartupBalloon \/ StartupPause
              \/ ListenReady
    BY <1>0, <1>1, <1>12 DEF SpawnFails, LoopCache, CacheCancelled, CacheBalloon, CachePause,
       CacheNotTaken, CacheExisting, CacheAck, LoopStartup, StartupCancelled, StartupBalloon, StartupPause,
       ListenReady, Return, Doom, Continue, Accepts, hostVars, askVars, chanVars, healthVars,
       guestVars, GuestType
  <1>13. CASE ListenExit \/ ListenReboot \/ ListenDrain \/ TrackerSees \/ TrackerStamps
              \/ MonitorChecks \/ MonitorAcked \/ MonitorPersists \/ Finished \/ UNCHANGED vars
    BY <1>0, <1>1, <1>13 DEF ListenExit, ListenReboot, ListenDrain, TrackerSees, TrackerStamps,
       MonitorChecks, MonitorAcked, MonitorPersists, Finished, Accepts, hostVars, askVars, chanVars,
       healthVars, guestVars, vars, GuestType
  <1> QED BY <1>2, <1>3, <1>4, <1>5, <1>6, <1>7, <1>8, <1>9, <1>10, <1>11, <1>12, <1>13 DEF Next, MainStep, ListenerStep, GuestStep

-----------------------------------------------------------------------------
(* What the steps that write hist leave in it. *)

\* the fields a step keeps
HistKept(S) ==
    /\ "early" \in S => (hist'.early <=> hist.early)
    /\ "gaveUp" \in S => (hist'.gaveUp <=> hist.gaveUp)
    /\ "ran" \in S => (hist'.ran <=> hist.ran)
    /\ "stuck" \in S => (hist'.stuck <=> hist.stuck)
    /\ "late" \in S => (hist'.late <=> hist.late)
    /\ "cleared" \in S => (hist'.cleared <=> hist.cleared)
    /\ "exitSent" \in S => (hist'.exitSent <=> hist.exitSent)
    /\ "rebootSent" \in S => (hist'.rebootSent <=> hist.rebootSent)

LEMMA HistSame == ASSUME HistType, UNCHANGED hist
    PROVE HistType' /\ \A S : HistKept(S)
  BY DEF HistType, HistKept

LEMMA HistOfSignal == ASSUME HistType, Signal
    PROVE /\ HistType'
          /\ HistKept({"gaveUp", "ran", "stuck", "late", "cleared", "exitSent", "rebootSent"})
          /\ hist'.early <=> phase = "setting_up"
  <1>1. PICK b \in BOOLEAN : (b <=> phase = "setting_up") /\ hist' = [hist EXCEPT !.early = b]
    BY DEF Signal
  <1> QED BY <1>1 DEF HistType, HistKept

LEMMA HistOfDrain == ASSUME HistType, DrainEnds
    PROVE /\ HistType'
          /\ HistKept({"early", "gaveUp", "ran", "late", "cleared", "exitSent", "rebootSent"})
          /\ hist'.stuck <=> hist.stuck \/ ~drained
  <1>1. PICK b \in BOOLEAN : (b <=> hist.stuck \/ ~drained) /\ hist' = [hist EXCEPT !.stuck = b]
    BY DEF DrainEnds
  <1> QED BY <1>1 DEF HistType, HistKept

LEMMA HistOfSpawn == ASSUME HistType, Spawn
    PROVE /\ HistType' /\ ~hist'.exitSent /\ ~hist'.rebootSent
          /\ HistKept({"early", "gaveUp", "ran", "stuck", "late", "cleared"})
  BY DEF Spawn, HistType, HistKept

LEMMA HistOfRestore == ASSUME HistType, Restore
    PROVE /\ HistType' /\ HistKept({"early", "gaveUp", "ran", "stuck", "late", "cleared"})
          /\ main' = "done" => HistKept({"exitSent", "rebootSent"})
          /\ main' # "done" => ~hist'.exitSent /\ ~hist'.rebootSent
  <1>1. CASE hist' = hist /\ main' = "done"
    BY <1>1 DEF HistType, HistKept
  <1>2. CASE hist' = [hist EXCEPT !.exitSent = FALSE, !.rebootSent = FALSE] /\ main' = "setup"
    BY <1>2 DEF HistType, HistKept
  <1> QED BY <1>1, <1>2 DEF Restore

LEMMA HistOfSpawnFails == ASSUME HistType, SpawnFails
    PROVE /\ HistType' /\ hist'.cleared
          /\ HistKept({"early", "gaveUp", "ran", "stuck", "late", "exitSent", "rebootSent"})
  BY DEF SpawnFails, HistType, HistKept

LEMMA HistOfListenExit == ASSUME HistType, ListenExit
    PROVE /\ HistType'
          /\ HistKept({"early", "gaveUp", "ran", "stuck", "cleared", "exitSent", "rebootSent"})
          /\ hist'.late <=> hist.late \/ Head(backlog).from < boot \/ Relaunching
  <1>1. PICK b \in BOOLEAN : /\ b <=> hist.late \/ Head(backlog).from < boot \/ Relaunching
                             /\ hist' = [hist EXCEPT !.late = b]
    BY DEF ListenExit, Relaunching
  <1> QED BY <1>1 DEF HistType, HistKept

LEMMA HistOfLaunch == ASSUME HistType, Launch
    PROVE /\ HistType' /\ hist'.ran /\ (hist'.gaveUp <=> hist.gaveUp \/ reply = "Pending")
          /\ HistKept({"early", "stuck", "late", "cleared", "exitSent", "rebootSent"})
  <1>1. PICK b \in BOOLEAN : /\ b <=> hist.gaveUp \/ reply = "Pending"
                             /\ hist' = [hist EXCEPT !.ran = TRUE, !.gaveUp = b]
    BY DEF Launch
  <1> QED BY <1>1 DEF HistType, HistKept

LEMMA HistOfSends == ASSUME HistType, NEW m,
        hist' = CASE m = "exit" -> [hist EXCEPT !.exitSent = TRUE]
                  [] m = "reboot" -> [hist EXCEPT !.rebootSent = TRUE]
                  [] OTHER -> hist
    PROVE /\ HistType' /\ HistKept({"early", "gaveUp", "ran", "stuck", "late", "cleared"})
          /\ hist'.exitSent <=> hist.exitSent \/ m = "exit"
          /\ hist'.rebootSent <=> hist.rebootSent \/ m = "reboot"
  <1>1. CASE m = "exit"
    BY <1>1 DEF HistType, HistKept
  <1>2. CASE m = "reboot"
    BY <1>2 DEF HistType, HistKept
  <1>3. CASE m # "exit" /\ m # "reboot"
    BY <1>3 DEF HistType, HistKept
  <1> QED BY <1>1, <1>2, <1>3

LEMMA HistTypeStep ==
    ASSUME TypeInv, [Next]_vars PROVE HistType'
  <1>0. HistType
    BY DEF TypeInv
  <1>1. ASSUME UNCHANGED hist PROVE HistType'
    BY <1>0, <1>1 DEF HistType
  <1>2. CASE Signal \/ DrainEnds \/ Spawn \/ Restore \/ SpawnFails \/ ListenExit
    BY <1>0, <1>2, HistOfSignal, HistOfDrain, HistOfSpawn, HistOfRestore, HistOfSpawnFails, HistOfListenExit
  <1>3. CASE GuestHears \/ GuestGivesUp
    BY <1>0, <1>1, <1>3, HistOfLaunch DEF GuestHears, GuestGivesUp
  <1>4. CASE GuestSends
    BY <1>0, <1>1, <1>4, HistOfSends DEF GuestSends
  <1>5. CASE Precheck \/ ClaimPublication \/ Publish \/ LoopCancelled \/ LoopExpired \/ LoopExited
             \/ ReadExitCode \/ ClearSignals \/ RemoveFiles \/ DropChannels \/ ResetVerdict
             \/ LoopCache
    BY <1>1, <1>5 DEF Precheck, ClaimPublication, Publish, LoopCancelled, LoopExpired, LoopExited,
       ReadExitCode, ClearSignals, RemoveFiles, DropChannels, ResetVerdict, LoopCache, Return, Decided,
       hostVars, askVars, chanVars, healthVars, guestVars
  <1>6. CASE CacheCancelled \/ CacheBalloon \/ CachePause \/ CacheNotTaken \/ CacheExisting \/ CacheResumed \/ CacheAck
             \/ LoopStartup \/ StartupCancelled \/ StartupBalloon \/ StartupPause \/ StartupAck
             \/ StopListener
    BY <1>1, <1>6 DEF CacheCancelled, CacheBalloon, CachePause, CacheNotTaken, CacheExisting, CacheResumed, CacheAck,
       LoopStartup, StartupCancelled, StartupBalloon, StartupPause, StartupAck, StopListener, Doom,
       Return, Continue, Sever, hostVars, askVars, chanVars, healthVars, guestVars
  <1>7. CASE Teardown \/ ListenReady \/ ListenReboot \/ ListenDrain \/ ListenAsk \/ ListenResolved
             \/ TrackerSees \/ TrackerStamps \/ MonitorChecks \/ MonitorAcked \/ MonitorPersists
             \/ GuestAsks
    BY <1>1, <1>7 DEF Teardown, ListenReady, ListenReboot, ListenDrain, ListenAsk, ListenResolved,
       TrackerSees, TrackerStamps, MonitorChecks, MonitorAcked, MonitorPersists, GuestAsks, Accepts,
       Answer, Connect, hostVars, askVars, chanVars, healthVars, guestVars, guestOnly
  <1>8. CASE ContainerExits \/ GuestReboots \/ GuestStops \/ OtherSnapshot \/ Finished
             \/ UNCHANGED vars
    BY <1>1, <1>8 DEF ContainerExits, GuestReboots, GuestStops, OtherSnapshot, Finished, Sever,
       hostVars, askVars, chanVars, healthVars, guestVars, vars, guestOnly
  <1> QED BY <1>2, <1>3, <1>4, <1>5, <1>6, <1>7, <1>8 DEF Next, MainStep, ListenerStep, GuestStep

-----------------------------------------------------------------------------
(* The messages that wait, after the steps that take or add one. *)

LEMMA SentSame == ASSUME UNCHANGED backlog
    PROVE (OneReboot => OneReboot') /\ \A m : Sent(m)' <=> Sent(m)
  BY DEF Sent, OneReboot

LEMMA SentNone == ASSUME backlog' = <<>>
    PROVE OneReboot' /\ \A m : ~ Sent(m)'
  BY DEF Sent, OneReboot

LEMMA SentTaken ==
    ASSUME ChanType, backlog # <<>>, backlog' = Tail(backlog)
    PROVE  /\ OneReboot => OneReboot'
           /\ \A m : Sent(m)' => Sent(m)
           /\ \A m : Sent(m) => Sent(m)' \/ m = Head(backlog).m
           /\ Sent(Head(backlog).m)
           /\ OneReboot /\ Head(backlog).m = "reboot" => ~ Sent("reboot")'
  <1>1. /\ Head(backlog) = backlog[1] /\ Len(backlog) \in Nat \ {0} /\ DOMAIN backlog = 1 .. Len(backlog)
        /\ DOMAIN backlog' = 1 .. Len(backlog) - 1
        /\ \A i \in DOMAIN backlog' : i + 1 \in DOMAIN backlog /\ backlog'[i] = backlog[i + 1]
    BY HeadIsMessage DEF ChanType
  <1>2. \A i \in DOMAIN backlog : i # 1 => i - 1 \in DOMAIN backlog' /\ backlog[i] = backlog'[i - 1]
    BY <1>1
  <1>3. OneReboot => OneReboot'
    BY <1>1 DEF OneReboot
  <1>4. ASSUME NEW m, Sent(m)' PROVE Sent(m)
    BY <1>1, <1>4 DEF Sent
  <1>5. ASSUME NEW m, Sent(m), m # Head(backlog).m PROVE Sent(m)'
    BY <1>1, <1>2, <1>5 DEF Sent
  <1>6. Sent(Head(backlog).m)
    BY <1>1 DEF Sent
  <1>7. ASSUME OneReboot, Head(backlog).m = "reboot", Sent("reboot")' PROVE FALSE
    <2>1. PICK i \in DOMAIN backlog' : backlog'[i].m = "reboot"
      BY <1>7 DEF Sent
    <2>2. i + 1 \in DOMAIN backlog /\ backlog[i + 1].m = "reboot" /\ i + 1 # 1 /\ 1 \in DOMAIN backlog
      BY <1>1, <2>1
    <2> QED BY <1>1, <1>7, <2>2 DEF OneReboot
  <1> QED BY <1>3, <1>4, <1>5, <1>6, <1>7

LEMMA SentAdded ==
    ASSUME ChanType, NEW x, backlog' = Append(backlog, x)
    PROVE  /\ \A m : Sent(m)' <=> Sent(m) \/ x.m = m
           /\ OneReboot /\ (x.m = "reboot" => ~ Sent("reboot")) => OneReboot'
  <1>1. /\ Len(backlog) \in Nat /\ DOMAIN backlog = 1 .. Len(backlog) /\ DOMAIN backlog' = 1 .. Len(backlog) + 1
        /\ backlog'[Len(backlog) + 1] = x /\ \A i \in DOMAIN backlog : backlog'[i] = backlog[i]
    BY AppendMessage
  <1>2. \A i \in DOMAIN backlog' : i \in DOMAIN backlog \/ i = Len(backlog) + 1
    BY <1>1
  <1>3. DOMAIN backlog \subseteq DOMAIN backlog' /\ Len(backlog) + 1 \in DOMAIN backlog'
    BY <1>1
  <1>4. ASSUME NEW m PROVE Sent(m)' <=> Sent(m) \/ x.m = m
    BY <1>1, <1>2, <1>3 DEF Sent
  <1>5. ASSUME OneReboot, x.m = "reboot" => ~ Sent("reboot") PROVE OneReboot'
    BY <1>1, <1>2, <1>5 DEF OneReboot, Sent
  <1> QED BY <1>4, <1>5

-----------------------------------------------------------------------------
(* Each part of the invariant is kept.  A frame names the steps that do    *)
(* not disturb the part.                                                   *)

\* the states of the main task in which the VMM has exited
Exited == {"drain", "read", "clear", "files", "channels", "verdict", "spawn"}

\* main goes nowhere that RebootInv looks at, but within a relaunch
RebootFrame ==
    \/ main' = main
    \/ main' \notin Exited
    \/ Relaunching /\ (main' = "read" \/ Relaunching')

LEMMA RebootInvStep ==
    ASSUME TypeInv, RebootInv, CloneInv, DownInv, [Next]_vars PROVE RebootInv'
  <1>0. /\ boot \in Nat /\ Limit \in Nat /\ OneReboot /\ ChanType
        /\ main = "clear" => ~ Relaunching
        /\ rebootReq \in BOOLEAN /\ clone \in BOOLEAN
    BY Values DEF TypeInv, GuestType, Boots, Limit, RebootInv, ChanType, Relaunching, HostType
  <1> USE DEF Exited
  <1>1. ASSUME UNCHANGED <<clone, boot, rebootReq>>, OneReboot', Sent("reboot")' => Sent("reboot"),
               \/ UNCHANGED <<guest, out>>
               \/ /\ guest \notin {"stopping", "off"} /\ guest' \notin {"stopping", "off"}
                  /\ "reboot" \in out' => "reboot" \in out,
               RebootFrame
        PROVE  RebootInv'
    <2>1. Limit' = Limit
      BY <1>1 DEF Limit
    <2> QED BY <1>1, <2>1 DEF RebootInv, RebootFrame, Relaunching
  <1>2. ASSUME UNCHANGED <<clone, boot, rebootReq, backlog>>,
               \/ UNCHANGED <<guest, out>>
               \/ /\ guest \notin {"stopping", "off"} /\ guest' \notin {"stopping", "off"}
                  /\ "reboot" \in out' => "reboot" \in out,
               RebootFrame
        PROVE  RebootInv'
    <2>1. OneReboot' /\ (Sent("reboot")' => Sent("reboot"))
      BY <1>0, <1>2, SentSame
    <2> QED BY <1>1, <1>2, <2>1
  <1>3. ASSUME UNCHANGED <<clone, boot, rebootReq, backlog, main>>, guest # "off", guest' = "stopping",
               ~ Sent("reboot") /\ ~ rebootReq, "reboot" \in out' => boot < Limit
        PROVE  RebootInv'
    <2>1. Limit' = Limit
      BY <1>3 DEF Limit
    <2>2. OneReboot' /\ ~ Sent("reboot")'
      BY <1>0, <1>3, SentSame
    <2> QED BY <1>3, <2>1, <2>2 DEF RebootInv, Relaunching
  <1>4. CASE LoopExpired \/ GuestStops
    <2>1. ASSUME UNCHANGED <<clone, boot, rebootReq, backlog, main>>, guest' = "off", out' = {}
          PROVE  RebootInv'
      <3>1. OneReboot' /\ (Sent("reboot")' <=> Sent("reboot")) /\ Limit' = Limit
        BY <1>0, <2>1, SentSame DEF Limit
      <3> QED BY <2>1, <3>1 DEF RebootInv, Relaunching
    <2>2. CASE guest' = "off" /\ out' = {} /\ main' = main
      BY <1>4, <2>1, <2>2 DEF LoopExpired, GuestStops, guestOnly, hostVars, chanVars
    <2>3. CASE LoopExpired /\ main' = "cleanup" /\ UNCHANGED <<guest, out>>
      BY <1>2, <2>3 DEF LoopExpired, hostVars, chanVars, RebootFrame, Relaunching
    <2> QED BY <1>4, <2>2, <2>3 DEF LoopExpired, GuestStops, Return, guestOnly
  <1>5. CASE LoopExited
    <2>1. /\ UNCHANGED <<clone, boot, rebootReq, guest, out>>
          /\ main' \in {"drain", "clear", "read"} /\ guest = "off"
          /\ main' = "clear" => rebootReq
      BY <1>5 DEF LoopExited, Decided, hostVars, guestVars
    <2>2. OneReboot' /\ (Sent("reboot")' <=> Sent("reboot"))
      <3>1. CASE UNCHANGED backlog
        BY <1>0, <3>1, SentSame
      <3> DEFINE x == [m |-> "drain", from |-> boot, ask |-> 0]
      <3>2. CASE backlog' = Append(backlog, x)
        <4>1. x.m # "reboot"
          OBVIOUS
        <4> HIDE DEF x
        <4> QED BY <1>0, <3>2, <4>1, SentAdded
      <3> QED BY <1>5, <3>1, <3>2 DEF LoopExited
    <2>3. Limit' = Limit
      BY <2>1 DEF Limit
    <2> QED BY <2>1, <2>2, <2>3 DEF RebootInv, Relaunching
  <1>6. CASE DrainEnds
    <2>1. /\ UNCHANGED <<clone, boot, rebootReq, guest, out, backlog>>
          /\ main' \in {"clear", "read"} /\ guest = "off"
          /\ main' = "clear" => rebootReq
      BY <1>6 DEF DrainEnds, Decided, hostVars, guestVars, RebootInv
    <2>2. OneReboot' /\ (Sent("reboot")' <=> Sent("reboot")) /\ Limit' = Limit
      BY <1>0, <2>1, SentSame DEF Limit
    <2> QED BY <2>1, <2>2 DEF RebootInv, Relaunching
  <1>7. CASE ClearSignals
    <2>1. /\ UNCHANGED <<clone, boot, guest, out, backlog>> /\ ~ rebootReq'
          /\ main = "clear" /\ main' = "files"
      BY <1>7 DEF ClearSignals, hostVars, guestVars
    <2>2. OneReboot' /\ ~ Sent("reboot")' /\ Limit' = Limit
      BY <1>0, <2>1, SentSame DEF Limit, RebootInv
    <2> QED BY <2>1, <2>2 DEF RebootInv, Relaunching
  <1>8. CASE Spawn
    <2>1. /\ UNCHANGED <<clone, out, backlog, rebootReq>> /\ guest' = "boot" /\ boot' = boot + 1
          /\ main = "spawn" /\ main' = "loop"
      BY <1>8 DEF Spawn, hostVars, chanVars
    <2>2. ~ Sent("reboot") /\ ~ rebootReq /\ boot < Limit /\ out = {}
      BY <2>1 DEF RebootInv, Relaunching
    <2>3. OneReboot' /\ ~ Sent("reboot")' /\ Limit' = Limit
      BY <1>0, <2>1, <2>2, SentSame DEF Limit
    <2> QED BY <1>0, <2>1, <2>2, <2>3 DEF RebootInv, Relaunching
  <1>9. CASE StopListener
    <2>1. OneReboot' /\ ~ Sent("reboot")'
      BY <1>9, SentNone DEF StopListener
    <2> QED BY <1>1, <1>9, <2>1 DEF StopListener, RebootFrame, hostVars
  <1>10. CASE Teardown
    <2>1. backlog' = <<>> /\ UNCHANGED <<clone, boot>> /\ ~ rebootReq' /\ out' = {} /\ main' \in {"restore", "done"}
      BY <1>10 DEF Teardown, DownInv
    <2>2. OneReboot' /\ ~ Sent("reboot")' /\ Limit' = Limit
      BY <2>1, SentNone DEF Limit
    <2> QED BY <2>1, <2>2 DEF RebootInv, Relaunching
  <1>11. CASE Restore
    <2>1. /\ backlog' = <<>> /\ ~ rebootReq' /\ main' \in {"setup", "done"} /\ out' = {} /\ ~ clone
          /\ \/ UNCHANGED <<clone, boot, guest>>
             \/ clone' = TRUE /\ boot' = boot + 1 /\ guest' = "severed"
      BY <1>11 DEF Restore, DownInv, CloneInv, RebootInv, chanVars, guestVars
    <2>2. OneReboot' /\ ~ Sent("reboot")' /\ (clone' = clone => Limit' = Limit) /\ (clone' = TRUE => Limit' = Limit + 1)
      BY <2>1, SentNone, Values DEF Limit
    <2> QED BY <1>0, <2>1, <2>2 DEF RebootInv, Relaunching
  <1>12. CASE ListenReady \/ ListenExit \/ ListenDrain
    <2>1. backlog # <<>> /\ backlog' = Tail(backlog) /\ UNCHANGED <<clone, boot, rebootReq, guest, out, main>>
      BY <1>12 DEF ListenReady, ListenExit, ListenDrain, Accepts, hostVars, guestVars
    <2> QED BY <1>0, <1>1, <2>1, SentTaken DEF RebootFrame
  <1>13. CASE ListenAsk \/ ListenResolved
    <2>1. /\ UNCHANGED <<clone, boot, rebootReq, out, main>>
          /\ UNCHANGED backlog \/ (backlog # <<>> /\ backlog' = Tail(backlog))
          /\ guest' = guest \/ (guest = "asking" /\ guest' = "severed")
      BY <1>13 DEF ListenAsk, ListenResolved, Accepts, Answer, hostVars
    <2> QED BY <1>0, <1>1, <1>2, <2>1, SentTaken DEF RebootFrame
  <1>14. CASE ListenReboot
    <2>1. /\ backlog # <<>> /\ backlog' = Tail(backlog) /\ UNCHANGED <<clone, boot, guest, out, main>>
          /\ rebootReq' = TRUE /\ Head(backlog).m = "reboot"
      BY <1>14 DEF ListenReboot, Accepts, hostVars, guestVars
    <2>2. Sent("reboot") /\ OneReboot' /\ ~ Sent("reboot")' /\ Limit' = Limit
      BY <1>0, <2>1, SentTaken DEF Limit
    <2> QED BY <2>1, <2>2 DEF RebootInv, Relaunching
  <1>15. CASE GuestAsks
    <2>1. /\ UNCHANGED <<clone, boot, rebootReq, out, main>> /\ guest \in {"boot", "severed"} /\ guest' = "asking"
      BY <1>15 DEF GuestAsks, guestOnly, hostVars
    <2>2. PICK x : x.m = "ask" /\ backlog' = Append(backlog, x)
      BY <1>15 DEF GuestAsks, Connect
    <2>3. OneReboot' /\ (Sent("reboot")' => Sent("reboot"))
      BY <1>0, <2>2, SentAdded
    <2> QED BY <1>1, <2>1, <2>3 DEF RebootFrame
  <1>16. CASE GuestSends
    <2>1. UNCHANGED <<clone, boot, rebootReq, guest, main>> /\ guest # "off"
      BY <1>16 DEF GuestSends, CanRun, guestOnly, hostVars
    <2>2. PICK m \in out : out' = out \ {m} /\ (UNCHANGED backlog \/ Connect(m, 0))
      BY <1>16 DEF GuestSends
    <2>3. Limit' = Limit
      BY <2>1 DEF Limit
    <2>4. CASE UNCHANGED backlog
      <3>1. OneReboot' /\ (Sent("reboot")' <=> Sent("reboot"))
        BY <1>0, <2>4, SentSame
      <3> QED BY <2>1, <2>2, <2>3, <3>1 DEF RebootInv, Relaunching
    <2>5. CASE Connect(m, 0)
      <3>1. PICK x : x.m = m /\ backlog' = Append(backlog, x)
        BY <2>5 DEF Connect
      <3>2. m = "reboot" => ~ Sent("reboot") /\ ~ rebootReq /\ guest = "stopping" /\ boot < Limit
        BY <2>2 DEF RebootInv
      <3>3. OneReboot' /\ (Sent("reboot")' <=> Sent("reboot") \/ m = "reboot")
        BY <1>0, <3>1, <3>2, SentAdded
      <3>4. ~ Relaunching
        BY <2>1 DEF RebootInv
      <3> QED BY <2>1, <2>2, <2>3, <3>2, <3>3, <3>4 DEF RebootInv, Relaunching
    <2> QED BY <2>2, <2>4, <2>5
  <1>17. CASE GuestHears \/ GuestGivesUp
    <2>1. /\ UNCHANGED <<clone, boot, rebootReq, backlog, main>> /\ guest \in {"boot", "asking", "severed"}
          /\ guest' \in {"running", "parked"} /\ (out' = out \/ out' \in SUBSET {"ready"})
      BY <1>17 DEF GuestHears, GuestGivesUp, Launch, guestOnly, hostVars
    <2> QED BY <1>2, <2>1 DEF RebootFrame
  <1>18. CASE ContainerExits \/ GuestReboots
    <2>1. /\ UNCHANGED <<clone, boot, rebootReq, backlog, main>> /\ guest \notin {"stopping", "off"}
          /\ guest' = "stopping" /\ ("reboot" \in out' => boot < Limit)
      BY <1>18 DEF ContainerExits, GuestReboots, CanRun, Limit, guestOnly, hostVars
    <2>2. ~ Sent("reboot") /\ ~ rebootReq
      BY <2>1 DEF RebootInv
    <2> QED BY <1>3, <2>1, <2>2
  <1>19. CASE Signal \/ Precheck \/ ClaimPublication \/ Publish \/ LoopCancelled \/ ReadExitCode
              \/ RemoveFiles \/ DropChannels \/ ResetVerdict \/ SpawnFails \/ LoopCache
              \/ CacheCancelled
    BY <1>2, <1>19 DEF Signal, Precheck, ClaimPublication, Publish, LoopCancelled, ReadExitCode,
       RemoveFiles, DropChannels, ResetVerdict, SpawnFails, LoopCache, CacheCancelled, Return, Doom,
       hostVars, askVars, chanVars, healthVars, guestVars, RebootFrame, Relaunching
  <1>20. CASE CacheBalloon \/ CachePause \/ CacheNotTaken \/ CacheExisting \/ CacheResumed \/ CacheAck \/ LoopStartup
              \/ StartupCancelled \/ StartupBalloon \/ StartupPause \/ StartupAck \/ TrackerSees
              \/ TrackerStamps
    BY <1>2, <1>20 DEF CacheBalloon, CachePause, CacheNotTaken, CacheExisting, CacheResumed, CacheAck, LoopStartup,
       StartupCancelled, StartupBalloon, StartupPause, StartupAck, TrackerSees, TrackerStamps, Doom,
       Return, Continue, Sever, hostVars, askVars, chanVars, healthVars, guestVars, RebootFrame,
       Relaunching
  <1>21. CASE MonitorChecks \/ MonitorAcked \/ MonitorPersists \/ OtherSnapshot \/ Finished
              \/ UNCHANGED vars
    BY <1>2, <1>21 DEF MonitorChecks, MonitorAcked, MonitorPersists, OtherSnapshot, Finished, Sever,
       hostVars, askVars, chanVars, healthVars, guestVars, vars, guestOnly, RebootFrame, Relaunching
  <1> QED BY <1>4, <1>5, <1>6, <1>7, <1>8, <1>9, <1>10, <1>11, <1>12, <1>13, <1>14, <1>15, <1>16,
      <1>17, <1>18, <1>19, <1>20, <1>21 DEF Next, MainStep, ListenerStep, GuestStep

LEMMA WatchInvStep ==
    ASSUME TypeInv, RebootInv, WatchInv, CloneInv, DownInv, [Next]_vars PROVE WatchInv'
  <1>0. /\ boot \in Nat /\ watchdog \in Watchdogs /\ watchdog.gen \in Nat /\ watchdog.stampers \subseteq Nat
        /\ \A g \in watchdog.stampers : g <= watchdog.gen
    BY Values DEF TypeInv, GuestType, TaskType, Watchdogs, Boots, WatchInv
  <1>1. ASSUME UNCHANGED <<watchdog, boot>>, Rearmed => Rearmed' PROVE WatchInv'
    BY <1>1 DEF WatchInv
  <1>2. ASSUME watchdog' \in {NewWatchdog, NoWatchdog} PROVE WatchInv'
    <2>1. boot' \in Nat
      BY GuestTypeStep DEF GuestType, Boots
    <2> QED BY <1>2, <2>1 DEF WatchInv, NewWatchdog, NoWatchdog
  <1>3. CASE LoopExpired
    <2>1. CASE Return("error")
      BY <1>2, <2>1 DEF Return
    <2>2. CASE watchdog' = [watchdog EXCEPT !.fired = TRUE]
      BY <1>0, <1>3, <2>2 DEF LoopExpired, WatchInv, Watchdogs, Rearmed
    <2> QED BY <1>3, <2>1, <2>2 DEF LoopExpired
  <1>4. CASE RemoveFiles
    <2>1. watchdog.gen <= boot /\ boot' = boot /\ watchdog'.gen = watchdog.gen + 1 /\ Rearmed'
          /\ watchdog'.stampers = watchdog.stampers
      BY <1>4 DEF RemoveFiles, Rearm, WatchInv, Rearmed, guestVars
    <2> QED BY <1>0, <2>1 DEF WatchInv
  <1>5. CASE TrackerSees
    <2>1. watchdog'.gen = watchdog.gen /\ watchdog'.stampers = watchdog.stampers \cup {watchdog.gen}
          /\ UNCHANGED <<boot, main>>
      BY <1>0, <1>5 DEF TrackerSees, Watchdogs, guestVars
    <2> QED BY <1>0, <2>1 DEF WatchInv, Rearmed
  <1>6. CASE TrackerStamps
    <2>1. watchdog'.gen = watchdog.gen /\ watchdog'.stampers \subseteq watchdog.stampers /\ UNCHANGED <<boot, main>>
      BY <1>0, <1>6 DEF TrackerStamps, Stamp, Watchdogs, guestVars
    <2> QED BY <1>0, <2>1 DEF WatchInv, Rearmed
  <1>7. CASE Spawn
    <2>1. UNCHANGED watchdog /\ boot' = boot + 1
      BY <1>7 DEF Spawn
    <2> QED BY <1>0, <2>1 DEF WatchInv
  <1>8. CASE Publish
    BY <1>1, <1>2, <1>8 DEF Publish, Rearmed, guestVars
  <1>9. CASE Restore
    BY <1>1, <1>2, <1>9 DEF Restore, Rearmed, guestVars
  <1>10. CASE ReadExitCode \/ SpawnFails
    BY <1>1, <1>2, <1>10 DEF ReadExitCode, SpawnFails, Return, Rearmed, guestVars
  <1>11. CASE LoopCancelled \/ CacheCancelled \/ CacheBalloon \/ CacheNotTaken \/ CacheExisting \/ CacheResumed \/ StartupCancelled
              \/ StartupBalloon \/ Teardown
    <2>1. Rearmed => FALSE
      BY <1>11 DEF LoopCancelled, CacheCancelled, CacheBalloon, CacheNotTaken, CacheExisting, CacheResumed, StartupCancelled,
         StartupBalloon, Teardown, Rearmed
    <2>2. UNCHANGED watchdog \/ watchdog' = NoWatchdog
      BY <1>11 DEF LoopCancelled, CacheCancelled, CacheBalloon, CacheNotTaken, CacheExisting, CacheResumed, StartupCancelled,
         StartupBalloon, Teardown, Doom, Continue, Return
    <2>3. UNCHANGED boot
      BY <1>11 DEF LoopCancelled, CacheCancelled, CacheBalloon, CacheNotTaken, CacheExisting, CacheResumed, StartupCancelled,
         StartupBalloon, Teardown, guestVars
    <2> QED BY <1>1, <1>2, <2>1, <2>2, <2>3
  <1>12. CASE Signal \/ Precheck \/ ClaimPublication \/ LoopExited \/ DrainEnds \/ ClearSignals
              \/ DropChannels \/ ResetVerdict \/ LoopCache \/ CachePause \/ CacheAck \/ LoopStartup
    BY <1>1, <1>12 DEF Signal, Precheck, ClaimPublication, LoopExited, DrainEnds, ClearSignals,
       DropChannels, ResetVerdict, LoopCache, CachePause, CacheAck, LoopStartup, Decided, hostVars,
       askVars, chanVars, healthVars, guestVars, Rearmed
  <1>13. CASE StartupPause \/ StartupAck \/ StopListener \/ ListenReady \/ ListenExit \/ ListenReboot
              \/ ListenDrain \/ ListenAsk \/ ListenResolved \/ MonitorChecks \/ MonitorAcked
              \/ MonitorPersists
    BY <1>1, <1>13 DEF StartupPause, StartupAck, StopListener, ListenReady, ListenExit, ListenReboot,
       ListenDrain, ListenAsk, ListenResolved, MonitorChecks, MonitorAcked, MonitorPersists, Sever,
       Accepts, Answer, hostVars, askVars, chanVars, healthVars, guestVars, Rearmed
  <1>14. CASE GuestAsks \/ GuestHears \/ GuestSends \/ GuestGivesUp \/ ContainerExits \/ GuestReboots
              \/ GuestStops \/ OtherSnapshot \/ Finished \/ UNCHANGED vars
    BY <1>1, <1>14 DEF GuestAsks, GuestHears, GuestSends, GuestGivesUp, ContainerExits, GuestReboots,
       GuestStops, OtherSnapshot, Finished, Connect, Launch, Sever, hostVars, askVars, chanVars,
       healthVars, guestVars, vars, guestOnly, Rearmed
  <1> QED BY <1>3, <1>4, <1>5, <1>6, <1>7, <1>8, <1>9, <1>10, <1>11, <1>12, <1>13, <1>14 DEF Next, MainStep, ListenerStep, GuestStep

LEMMA CloneInvStep ==
    ASSUME TypeInv, CloneInv, DownInv, [Next]_vars PROVE CloneInv'
  <1>0. CloneInv
    OBVIOUS
  <1>1. ASSUME UNCHANGED <<clone, cacheRx, cacheReq, outcome>>,
               main \notin {"cleanup", "kill", "restore"} \/ main' = main,
               main' \notin {"cache", "cachePaused", "ack", "restore"} \/ main' = main
        PROVE  CloneInv'
    BY <1>0, <1>1 DEF CloneInv
  <1>2. CASE Precheck \/ ClaimPublication \/ Publish
    BY <1>0, <1>2 DEF CloneInv, Precheck, ClaimPublication, Publish, hostVars, askVars
  <1>3. CASE LoopCancelled \/ LoopExpired \/ ReadExitCode \/ SpawnFails \/ StartupCancelled \/ StartupBalloon
    BY <1>0, <1>3
    DEF CloneInv, LoopCancelled, LoopExpired, ReadExitCode, SpawnFails, StartupCancelled, StartupBalloon, Return, hostVars, askVars
  <1>4. CASE DropChannels
    BY <1>0, <1>4 DEF CloneInv, DropChannels, hostVars
  <1>5. CASE LoopCache \/ CachePause
    BY <1>0, <1>5 DEF CloneInv, LoopCache, CachePause, hostVars, askVars
  <1>6. CASE CacheCancelled \/ CacheBalloon
    BY <1>0, <1>6 DEF CloneInv, CacheCancelled, CacheBalloon, Doom, Return, hostVars
  <1>7. CASE CacheNotTaken \/ CacheExisting \/ CacheResumed \/ CacheAck
    BY <1>0, <1>7 DEF CloneInv, CacheNotTaken, CacheExisting, CacheResumed, CacheAck, Doom, Continue, Return, hostVars
  <1>8. CASE StopListener \/ Teardown
    BY <1>0, <1>8 DEF CloneInv, StopListener, Teardown, hostVars
  <1>9. CASE Restore
    BY <1>0, <1>9 DEF CloneInv, DownInv, Restore, askVars
  <1>10. CASE ListenAsk
    BY <1>0, <1>10 DEF CloneInv, ListenAsk, hostVars
  <1>11. CASE Signal \/ LoopExited \/ DrainEnds \/ ClearSignals \/ RemoveFiles
              \/ ResetVerdict \/ Spawn \/ LoopStartup \/ StartupPause \/ StartupAck \/ ListenReady
    BY <1>1, <1>11 DEF Signal, LoopExited, DrainEnds, ClearSignals, RemoveFiles,
       ResetVerdict, Spawn, LoopStartup, StartupPause, StartupAck, ListenReady, Decided, Sever,
       Accepts, hostVars, askVars, chanVars, healthVars, guestVars
  <1>12. CASE ListenExit \/ ListenReboot \/ ListenDrain \/ ListenResolved \/ TrackerSees
              \/ TrackerStamps \/ MonitorChecks \/ MonitorAcked \/ MonitorPersists \/ GuestAsks
              \/ GuestHears \/ GuestSends
    BY <1>1, <1>12 DEF ListenExit, ListenReboot, ListenDrain, ListenResolved, TrackerSees,
       TrackerStamps, MonitorChecks, MonitorAcked, MonitorPersists, GuestAsks, GuestHears, GuestSends,
       Accepts, Answer, Connect, Launch, hostVars, askVars, chanVars, healthVars, guestVars, guestOnly
  <1>13. CASE GuestGivesUp \/ ContainerExits \/ GuestReboots \/ GuestStops \/ OtherSnapshot \/ Finished
              \/ UNCHANGED vars
    BY <1>1, <1>13 DEF GuestGivesUp, ContainerExits, GuestReboots, GuestStops, OtherSnapshot, Finished,
       Launch, Sever, hostVars, askVars, chanVars, healthVars, guestVars, vars, guestOnly
  <1> QED BY <1>2, <1>3, <1>4, <1>5, <1>6, <1>7, <1>8, <1>9, <1>10, <1>11, <1>12, <1>13 DEF Next, MainStep, ListenerStep, GuestStep

LEMMA DownInvStep ==
    ASSUME TypeInv, DownInv, [Next]_vars PROVE DownInv'
  <1>0. DownInv
    OBVIOUS
  <1>1. ASSUME UNCHANGED listener,
               main \notin {"kill", "restore", "done"}, main' \notin {"kill", "restore", "done"}
        PROVE  DownInv'
    BY <1>0, <1>1 DEF DownInv
  <1>2. ASSUME UNCHANGED <<listener, main, backlog, cacheReq, rebootReq, lifecycle, monitor, health, startup,
                           readyFile, exitFile, exitSeen>>,
               guest = "off" => guest' = "off"
        PROVE  DownInv'
    BY <1>0, <1>2 DEF DownInv
  <1>3. CASE Precheck \/ ClaimPublication \/ Publish \/ LoopCancelled \/ LoopExited \/ DrainEnds \/ ReadExitCode
             \/ ClearSignals \/ RemoveFiles \/ DropChannels \/ ResetVerdict \/ Spawn \/ SpawnFails
    BY <1>1, <1>3
    DEF Precheck, ClaimPublication, Publish, LoopCancelled, LoopExited, DrainEnds, ReadExitCode, ClearSignals,
        RemoveFiles, DropChannels, ResetVerdict, Spawn, SpawnFails, Return, Decided, chanVars
  <1>4. CASE LoopCache \/ CacheCancelled \/ CacheBalloon \/ CachePause \/ CacheNotTaken \/ CacheExisting \/ CacheResumed \/ CacheAck
             \/ LoopStartup \/ StartupCancelled \/ StartupBalloon \/ StartupPause \/ StartupAck
    BY <1>1, <1>4
    DEF LoopCache, CacheCancelled, CacheBalloon, CachePause, CacheNotTaken, CacheExisting, CacheResumed, CacheAck, LoopStartup,
        StartupCancelled, StartupBalloon, StartupPause, StartupAck, Doom, Continue, Return, chanVars
  <1>5. CASE StopListener
    BY <1>0, <1>5 DEF DownInv, StopListener
  <1>6. CASE Teardown
    BY <1>0, <1>6 DEF DownInv, Teardown
  <1>7. CASE Restore
    BY <1>0, <1>7 DEF DownInv, Restore, chanVars, healthVars, guestVars, askVars
  <1>8. CASE ListenReady \/ ListenExit \/ ListenReboot \/ ListenDrain
    <2>1. listener = "accept" /\ UNCHANGED <<listener, main>>
      BY <1>8 DEF ListenReady, ListenExit, ListenReboot, ListenDrain, Accepts
    <2> QED BY <1>0, <1>1, <2>1 DEF DownInv
  <1>9. CASE ListenAsk \/ ListenResolved
    <2>1. listener \in {"accept", "ask"} /\ listener' \in {"accept", "ask"} /\ UNCHANGED main
      BY <1>9 DEF ListenAsk, ListenResolved, Accepts
    <2> QED BY <1>0, <2>1 DEF DownInv
  <1>10. CASE MonitorChecks \/ MonitorAcked \/ MonitorPersists
    <2>1. /\ UNCHANGED <<listener, main, backlog, cacheReq, rebootReq, lifecycle, readyFile, exitFile, exitSeen, guest>>
          /\ monitor # "off"
      BY <1>10 DEF MonitorChecks, MonitorAcked, MonitorPersists, hostVars, askVars, chanVars, guestVars
    <2> QED BY <1>0, <2>1 DEF DownInv
  <1>11. CASE GuestAsks
    BY <1>0, <1>11 DEF DownInv, GuestAsks, CanRun, guestOnly, hostVars, askVars, healthVars
  <1>12. CASE GuestSends
    BY <1>0, <1>12 DEF DownInv, GuestSends, CanRun, guestOnly, hostVars, askVars, healthVars
  <1>13. CASE GuestHears \/ GuestGivesUp \/ ContainerExits \/ GuestReboots \/ OtherSnapshot
    BY <1>2, <1>13 DEF GuestHears, GuestGivesUp, ContainerExits, GuestReboots, OtherSnapshot, CanRun, Launch, Sever,
       guestOnly, hostVars, askVars, healthVars
  <1>14. CASE LoopExpired
    BY <1>1, <1>14 DEF LoopExpired, Return, chanVars
  <1>15. CASE Signal \/ TrackerSees \/ TrackerStamps \/ GuestStops \/ Finished \/ UNCHANGED vars
    BY <1>2, <1>15 DEF Signal, TrackerSees, TrackerStamps, GuestStops, Finished, hostVars, askVars,
       chanVars, healthVars, guestVars, vars, guestOnly
  <1> QED BY <1>3, <1>4, <1>5, <1>6, <1>7, <1>8, <1>9, <1>10, <1>11, <1>12, <1>13, <1>14, <1>15 DEF Next, MainStep, ListenerStep, GuestStep

LEMMA GateInvStep ==
    ASSUME TypeInv, DownInv, GateInv, [Next]_vars PROVE GateInv'
  <1>0. GateInv /\ HistType /\ HostType
    BY DEF TypeInv
  <1>1. ASSUME UNCHANGED <<lifecycle, phase, token, requested>>, hist'.early <=> hist.early,
               main' = main \/ main' \notin {"setup", "claim", "publish"}
        PROVE  GateInv'
    BY <1>0, <1>1 DEF GateInv
  <1>2. CASE Signal
    BY <1>0, <1>2, HistOfSignal DEF GateInv, Signal, HostType
  <1>3. CASE Precheck \/ ClaimPublication
    BY <1>0, <1>3 DEF GateInv, Precheck, ClaimPublication, hostVars
  <1>4. CASE Publish
    BY <1>0, <1>4 DEF GateInv, Publish
  <1>5. CASE Teardown
    BY <1>0, <1>5 DEF GateInv, Teardown
  <1>6. CASE Restore
    <2>1. hist'.early <=> hist.early
      BY <1>0, <1>6, HistOfRestore DEF HistKept
    <2>2. ~ lifecycle'
      BY <1>6 DEF Restore, DownInv
    <2> QED BY <1>0, <1>6, <2>1, <2>2 DEF GateInv, Restore, NewGate, HostType
  <1>7. CASE DrainEnds \/ Spawn \/ SpawnFails
    <2>1. hist'.early <=> hist.early
      BY <1>0, <1>7, HistOfDrain, HistOfSpawn, HistOfSpawnFails DEF HistKept
    <2> QED BY <1>1, <1>7, <2>1 DEF DrainEnds, Spawn, SpawnFails, Decided, Return, hostVars
  <1>8. CASE ListenExit
    <2>1. hist'.early <=> hist.early
      BY <1>0, <1>8, HistOfListenExit DEF HistKept
    <2> QED BY <1>1, <1>8, <2>1 DEF ListenExit, hostVars
  <1>9. CASE GuestHears \/ GuestGivesUp \/ GuestSends
    <2>1. hist'.early <=> hist.early
      BY <1>0, <1>9, HistOfLaunch, HistOfSends DEF HistKept, GuestHears, GuestGivesUp, GuestSends
    <2> QED BY <1>1, <1>9, <2>1 DEF GuestHears, GuestGivesUp, GuestSends, guestOnly, hostVars
  <1>10. CASE LoopCancelled \/ LoopExpired \/ LoopExited \/ ReadExitCode \/ ClearSignals \/ RemoveFiles
              \/ DropChannels \/ ResetVerdict \/ LoopCache \/ CacheCancelled \/ CacheBalloon
              \/ CachePause
    BY <1>1, <1>10 DEF LoopCancelled, LoopExpired, LoopExited, ReadExitCode, ClearSignals, RemoveFiles,
       DropChannels, ResetVerdict, LoopCache, CacheCancelled, CacheBalloon, CachePause, Return,
       Decided, Doom, hostVars, askVars, chanVars, healthVars, guestVars
  <1>11. CASE CacheNotTaken \/ CacheExisting \/ CacheResumed \/ CacheAck \/ LoopStartup \/ StartupCancelled
              \/ StartupBalloon \/ StartupPause \/ StartupAck \/ StopListener \/ ListenReady
              \/ ListenReboot \/ ListenDrain
    BY <1>1, <1>11 DEF CacheNotTaken, CacheExisting, CacheResumed, CacheAck, LoopStartup, StartupCancelled,
       StartupBalloon, StartupPause, StartupAck, StopListener, ListenReady, ListenReboot, ListenDrain,
       Doom, Continue, Return, Sever, Accepts, hostVars, askVars, chanVars, healthVars, guestVars
  <1>12. CASE ListenAsk \/ ListenResolved \/ TrackerSees \/ TrackerStamps \/ MonitorChecks
              \/ MonitorAcked \/ MonitorPersists \/ GuestAsks \/ ContainerExits \/ GuestReboots
              \/ GuestStops \/ OtherSnapshot
    BY <1>1, <1>12 DEF ListenAsk, ListenResolved, TrackerSees, TrackerStamps, MonitorChecks,
       MonitorAcked, MonitorPersists, GuestAsks, ContainerExits, GuestReboots, GuestStops,
       OtherSnapshot, Answer, Accepts, Connect, Sever, hostVars, askVars, chanVars, healthVars,
       guestVars, guestOnly
  <1>13. CASE Finished \/ UNCHANGED vars
    BY <1>1, <1>13 DEF Finished, hostVars, askVars, chanVars, healthVars, guestVars, vars
  <1> QED BY <1>2, <1>3, <1>4, <1>5, <1>6, <1>7, <1>8, <1>9, <1>10, <1>11, <1>12, <1>13 DEF Next, MainStep, ListenerStep, GuestStep

(* Only a launch touches what hist says of the container. *)
LEMMA ContainerHist ==
    ASSUME HistType, Signal \/ DrainEnds \/ Spawn \/ SpawnFails \/ Restore \/ ListenExit \/ GuestSends
    PROVE  (hist'.ran <=> hist.ran) /\ (hist'.gaveUp <=> hist.gaveUp)
  <1>1. CASE Signal \/ DrainEnds \/ Spawn \/ SpawnFails \/ Restore \/ ListenExit
    BY <1>1, HistOfSignal, HistOfDrain, HistOfSpawn, HistOfSpawnFails, HistOfRestore, HistOfListenExit DEF HistKept
  <1>2. CASE GuestSends
    BY <1>2, HistOfSends DEF GuestSends, HistKept
  <1> QED BY <1>1, <1>2

LEMMA VerdictInvStep ==
    ASSUME TypeInv, DownInv, CloneInv, VerdictInv, [Next]_vars PROVE VerdictInv'
  <1>0. VerdictInv /\ HistType /\ AskType /\ HostType
    BY DEF TypeInv
  <1>1. ASSUME UNCHANGED <<verdict, cacheReq, cacheRx>>, reply' \in {reply, "Pending"},
               outcome' = outcome \/ outcome' # "restore", hist'.ran <=> hist.ran, hist'.gaveUp <=> hist.gaveUp,
               main' = main \/ (main # "ack" /\ main' \notin {"cache", "cachePaused", "ack", "verdict", "spawn"})
        PROVE  VerdictInv'
    BY <1>0, <1>1 DEF VerdictInv
  <1>2. CASE DropChannels \/ ResetVerdict
    BY <1>0, <1>2 DEF VerdictInv, CloneInv, DropChannels, ResetVerdict, guestVars
  <1>3. CASE Spawn
    <2>1. (hist'.ran <=> hist.ran) /\ (hist'.gaveUp <=> hist.gaveUp)
      BY <1>0, <1>3, ContainerHist
    <2> QED BY <1>1, <1>3, <2>1 DEF Spawn, askVars
  <1>4. CASE LoopCache \/ CachePause \/ CacheAck
    BY <1>0, <1>4 DEF VerdictInv, CloneInv, LoopCache, CachePause, CacheAck, askVars, guestVars
  <1>5. ASSUME main \in {"cache", "cachePaused"}, UNCHANGED <<reply, hist>>,
               \/ verdict' = "Doomed" /\ cacheReq' = 0 /\ main' = "cleanup"
               \/ verdict' = "Continue" /\ main' = "ack" /\ UNCHANGED outcome
        PROVE  VerdictInv'
    BY <1>0, <1>5 DEF VerdictInv, CloneInv
  <1>6. CASE CacheCancelled \/ CacheNotTaken \/ CacheExisting \/ CacheResumed
    BY <1>5, <1>6 DEF CacheCancelled, CacheNotTaken, CacheExisting, CacheResumed, Doom, Continue, Return, guestVars
  <1>7. CASE CacheBalloon
    <2>1. CASE Doom("error")
      BY <1>5, <1>7, <2>1 DEF CacheBalloon, Doom, Return, guestVars
    <2>2. CASE UNCHANGED <<main, outcome, watchdog, verdict, cacheRx, cacheReq>>
      BY <1>1, <1>7, <2>2 DEF CacheBalloon, guestVars
    <2> QED BY <1>7, <2>1, <2>2 DEF CacheBalloon
  <1>8. CASE StopListener \/ Teardown
    BY <1>0, <1>8 DEF VerdictInv, StopListener, Teardown
  <1>9. CASE Restore
    <2>1. (hist'.ran <=> hist.ran) /\ (hist'.gaveUp <=> hist.gaveUp)
      BY <1>0, <1>9, ContainerHist
    <2> QED BY <1>0, <1>9, <2>1 DEF VerdictInv, DownInv, Restore, askVars, guestVars
  <1>10. CASE ListenAsk
    <2>1. CASE verdict = "Pending" /\ cacheRx
      <3>1. cacheReq = 0 /\ main \notin {"cache", "cachePaused", "verdict", "spawn"}
        BY <1>0, <1>10, <2>1 DEF ListenAsk, Accepts, AskType, VerdictInv
      <3> QED BY <1>0, <1>10, <2>1, <3>1 DEF VerdictInv, ListenAsk
    <2>2. CASE ~ (verdict = "Pending" /\ cacheRx)
      BY <1>0, <1>10, <2>2 DEF VerdictInv, ListenAsk, Answer
    <2> QED BY <2>1, <2>2
  <1>11. CASE ListenResolved
    BY <1>0, <1>11 DEF VerdictInv, ListenResolved, Answer, askVars
  <1>12. CASE GuestHears
    <2>1. CASE Launch
      BY <1>0, <1>12, <2>1, HistOfLaunch DEF VerdictInv, GuestHears, guestOnly, askVars
    <2>2. CASE UNCHANGED hist
      BY <1>1, <1>12, <2>2 DEF GuestHears, guestOnly, askVars
    <2> QED BY <1>12, <2>1, <2>2 DEF GuestHears
  <1>13. CASE GuestGivesUp
    BY <1>0, <1>13, HistOfLaunch DEF VerdictInv, GuestGivesUp, guestOnly, askVars
  <1>14. CASE Signal \/ DrainEnds \/ SpawnFails \/ ListenExit \/ GuestSends
    <2>1. (hist'.ran <=> hist.ran) /\ (hist'.gaveUp <=> hist.gaveUp)
      BY <1>0, <1>14, ContainerHist
    <2> QED BY <1>1, <1>14, <2>1
        DEF Signal, DrainEnds, SpawnFails, ListenExit, GuestSends, Decided, Return, guestOnly, askVars, guestVars
  <1>15. CASE Precheck \/ ClaimPublication \/ Publish \/ LoopCancelled \/ LoopExpired \/ LoopExited
              \/ ReadExitCode \/ ClearSignals \/ RemoveFiles \/ LoopStartup \/ StartupCancelled
              \/ StartupBalloon
    BY <1>1, <1>15 DEF Precheck, ClaimPublication, Publish, LoopCancelled, LoopExpired, LoopExited,
       ReadExitCode, ClearSignals, RemoveFiles, LoopStartup, StartupCancelled, StartupBalloon, Return,
       Decided, hostVars, askVars, chanVars, healthVars, guestVars
  <1>16. CASE StartupPause \/ StartupAck \/ ListenReady \/ ListenReboot \/ ListenDrain \/ TrackerSees
              \/ TrackerStamps \/ MonitorChecks \/ MonitorAcked \/ MonitorPersists \/ GuestAsks
              \/ ContainerExits
    BY <1>1, <1>16 DEF StartupPause, StartupAck, ListenReady, ListenReboot, ListenDrain, TrackerSees,
       TrackerStamps, MonitorChecks, MonitorAcked, MonitorPersists, GuestAsks, ContainerExits, Sever,
       Accepts, Connect, hostVars, askVars, chanVars, healthVars, guestVars, guestOnly
  <1>17. CASE GuestReboots \/ GuestStops \/ OtherSnapshot \/ Finished \/ UNCHANGED vars
    BY <1>1, <1>17 DEF GuestReboots, GuestStops, OtherSnapshot, Finished, Sever, hostVars, askVars,
       chanVars, healthVars, guestVars, vars, guestOnly
  <1> QED BY <1>2, <1>3, <1>4, <1>6, <1>7, <1>8, <1>9, <1>10, <1>11, <1>12, <1>13, <1>14, <1>15, <1>16,
      <1>17 DEF Next, MainStep, ListenerStep, GuestStep

LEMMA HealthInvStep ==
    ASSUME TypeInv, DownInv, HealthInv, [Next]_vars PROVE HealthInv'
  <1>0. HealthInv /\ HistType /\ ChanType /\ TaskType
    BY DEF TypeInv
  <1>1. ASSUME hist'.ran <=> hist.ran, UNCHANGED <<health, monitor, startup>>, readyFile' \in {readyFile, NoBoot},
               Sent("ready")' => Sent("ready"), "ready" \in out' => "ready" \in out,
               guest' = "running" => guest = "running", main' = main \/ main' \notin {"startup", "startupPaused"}
        PROVE  HealthInv'
    BY <1>0, <1>1 DEF HealthInv
  <1>2. ASSUME hist'.ran <=> hist.ran, UNCHANGED <<health, monitor, startup, backlog>>,
               readyFile' \in {readyFile, NoBoot}, "ready" \in out' => "ready" \in out,
               guest' = "running" => guest = "running", main' = main \/ main' \notin {"startup", "startupPaused"}
        PROVE  HealthInv'
    <2>1. Sent("ready")' => Sent("ready")
      BY <1>2, SentSame
    <2> QED BY <1>1, <1>2, <2>1
  <1>3. CASE LoopExited
    <2>1. Sent("ready")' => Sent("ready")
      <3> DEFINE x == [m |-> "drain", from |-> boot, ask |-> 0]
      <3>1. x.m # "ready"
        OBVIOUS
      <3> HIDE DEF x
      <3>2. UNCHANGED backlog \/ backlog' = Append(backlog, x)
        BY <1>3 DEF LoopExited, x
      <3> QED BY <1>0, <3>1, <3>2, SentSame, SentAdded
    <2> QED BY <1>1, <1>3, <2>1 DEF LoopExited, Decided, healthVars, guestVars
  <1>4. CASE StopListener
    <2>1. ~ Sent("ready")'
      BY <1>4, SentNone DEF StopListener
    <2> QED BY <1>1, <1>4, <2>1 DEF StopListener, healthVars
  <1>5. ASSUME UNCHANGED <<hist, readyFile, out, health, monitor, guest, backlog>>,
               main' \in {"startup", "startupPaused"} => startup' = "taken",
               startup' # "none" => startup # "none",
               startup' \in {"sent", "taken", "acked", "dropped"} <=> startup \in {"sent", "taken", "acked", "dropped"}
        PROVE  HealthInv'
    <2>1. Sent("ready")' <=> Sent("ready")
      BY <1>5, SentSame
    <2> QED BY <1>0, <1>5, <2>1 DEF HealthInv
  <1>6. CASE DropChannels \/ StartupCancelled \/ StartupBalloon
    <2>1. /\ startup' \in {startup, Dropped}
          /\ main' \in {"startup", "startupPaused"} => UNCHANGED <<main, startup>>
      BY <1>6 DEF DropChannels, StartupCancelled, StartupBalloon, Return
    <2>2. /\ startup' # "none" => startup # "none"
          /\ startup' \in {"sent", "taken", "acked", "dropped"} <=> startup \in {"sent", "taken", "acked", "dropped"}
      BY <1>0, <2>1 DEF Dropped, TaskType
    <2>3. UNCHANGED <<hist, readyFile, out, health, monitor, guest, backlog>>
      BY <1>6 DEF DropChannels, StartupCancelled, StartupBalloon, chanVars, healthVars, guestVars
    <2> QED BY <1>0, <1>5, <2>1, <2>2, <2>3 DEF HealthInv
  <1>7. CASE LoopStartup \/ StartupPause
    BY <1>0, <1>5, <1>7 DEF LoopStartup, StartupPause, HealthInv, chanVars, healthVars, guestVars
  <1>8. CASE StartupAck
    <2>1. Sent("ready")' <=> Sent("ready")
      BY <1>8, SentSame DEF StartupAck, chanVars
    <2>2. startup = "taken"
      BY <1>0, <1>8 DEF StartupAck, HealthInv
    <2> QED BY <1>0, <1>8, <2>1, <2>2 DEF StartupAck, HealthInv, Sever, chanVars, healthVars
  <1>9. CASE Teardown
    <2>1. Sent("ready")' <=> Sent("ready")
      BY <1>9, SentSame DEF Teardown
    <2> QED BY <1>0, <1>9, <2>1 DEF Teardown, HealthInv
  <1>10. CASE Restore
    <2>1. Sent("ready")' <=> Sent("ready")
      BY <1>10, SentSame DEF Restore, chanVars
    <2>2. hist'.ran <=> hist.ran
      BY <1>0, <1>10, ContainerHist
    <2>3. CASE main' = "done"
      BY <1>0, <1>10, <2>1, <2>2, <2>3 DEF Restore, HealthInv, chanVars, healthVars, guestVars
    <2>4. CASE main' = "setup"
      <3>1. /\ health' = "Unknown" /\ monitor' = "poll" /\ startup' \in {"none", "armed"} /\ UNCHANGED <<readyFile, out>>
            /\ guest' = "severed"
        BY <1>10, <2>4 DEF Restore, DownInv
      <3> QED BY <1>0, <2>1, <2>2, <2>4, <3>1 DEF HealthInv
    <2> QED BY <1>10, <2>3, <2>4 DEF Restore
  <1>11. CASE ListenReady
    <2>1. backlog # <<>> /\ backlog' = Tail(backlog) /\ Head(backlog).m = "ready"
      BY <1>11 DEF ListenReady, Accepts
    <2>2. Sent("ready")
      BY <1>0, <2>1, SentTaken
    <2>3. hist.ran
      BY <1>0, <2>2 DEF HealthInv
    <2> QED BY <1>0, <1>11, <2>3 DEF ListenReady, HealthInv, healthVars, guestVars
  <1>12. CASE ListenExit \/ ListenReboot \/ ListenDrain \/ ListenAsk
    <2>1. backlog # <<>> /\ backlog' = Tail(backlog)
      BY <1>12 DEF ListenExit, ListenReboot, ListenDrain, ListenAsk, Accepts
    <2>2. Sent("ready")' => Sent("ready")
      BY <1>0, <2>1, SentTaken
    <2>3. hist'.ran <=> hist.ran
      BY <1>0, <1>12, ContainerHist DEF ListenReboot, ListenDrain, ListenAsk
    <2> QED BY <1>1, <1>12, <2>2, <2>3
        DEF ListenExit, ListenReboot, ListenDrain, ListenAsk, Answer, healthVars, guestVars
  <1>13. CASE ListenResolved
    BY <1>2, <1>13 DEF ListenResolved, Answer, healthVars
  <1>14. CASE MonitorChecks
    <2>1. UNCHANGED <<hist, readyFile, out, guest, main>> /\ monitor = "poll" /\ (Sent("ready")' <=> Sent("ready"))
      BY <1>14, SentSame DEF MonitorChecks, chanVars, guestVars
    <2>2. CASE CheckHealth = "Healthy"
      <3>1. readyFile # NoBoot
        BY <2>2 DEF CheckHealth
      <3>2. hist.ran /\ startup \notin {"sent", "taken", "acked", "dropped"}
        BY <1>0, <2>1, <3>1 DEF HealthInv
      <3>3. \/ startup = "armed" /\ monitor' = "wait" /\ startup' = "sent" /\ UNCHANGED health
            \/ monitor' = "persist" /\ startup' = "none" /\ UNCHANGED health
        BY <1>0, <1>14, <2>2, <3>2 DEF MonitorChecks, TaskType
      <3> QED BY <1>0, <2>1, <3>2, <3>3 DEF HealthInv
    <2>3. CASE CheckHealth # "Healthy"
      <3>1. health' # "Healthy" /\ monitor' \in {"off", "poll"} /\ UNCHANGED startup
        BY <1>14, <2>3 DEF MonitorChecks
      <3> QED BY <1>0, <2>1, <3>1 DEF HealthInv
    <2> QED BY <2>2, <2>3
  <1>15. CASE MonitorAcked \/ MonitorPersists
    <2>1. UNCHANGED <<hist, readyFile, out, guest, main>> /\ (Sent("ready")' <=> Sent("ready"))
      BY <1>15, SentSame DEF MonitorAcked, MonitorPersists, chanVars, guestVars
    <2> QED BY <1>0, <1>15, <2>1 DEF MonitorAcked, MonitorPersists, HealthInv
  <1>16. CASE GuestAsks
    <2>1. PICK x : x.m = "ask" /\ backlog' = Append(backlog, x)
      BY <1>16 DEF GuestAsks, Connect
    <2>2. Sent("ready")' => Sent("ready")
      BY <1>0, <2>1, SentAdded
    <2> QED BY <1>1, <1>16, <2>2 DEF GuestAsks, guestOnly, healthVars
  <1>17. CASE GuestSends
    <2>1. PICK m \in out : out' = out \ {m} /\ (UNCHANGED backlog \/ Connect(m, 0))
      BY <1>17 DEF GuestSends
    <2>2. hist'.ran <=> hist.ran
      BY <1>0, <1>17, ContainerHist
    <2>3. CASE UNCHANGED backlog
      BY <1>2, <1>17, <2>1, <2>2, <2>3 DEF GuestSends, guestOnly, healthVars
    <2>4. CASE Connect(m, 0)
      <3>1. PICK x : x.m = m /\ backlog' = Append(backlog, x)
        BY <2>4 DEF Connect
      <3>2. Sent("ready")' => Sent("ready") \/ "ready" \in out
        BY <1>0, <2>1, <3>1, SentAdded
      <3>3. CASE "ready" \in out
        BY <1>0, <1>17, <2>2, <3>3 DEF HealthInv, GuestSends, guestOnly, healthVars
      <3>4. CASE "ready" \notin out
        BY <1>1, <1>17, <2>1, <2>2, <3>2, <3>4 DEF GuestSends, guestOnly, healthVars
      <3> QED BY <3>3, <3>4
    <2> QED BY <2>1, <2>3, <2>4
  <1>18. ASSUME hist'.ran, UNCHANGED <<health, monitor, startup, main>> PROVE HealthInv'
    BY <1>0, <1>18 DEF HealthInv
  <1>19. CASE GuestHears
    <2>1. CASE Launch
      BY <1>0, <1>18, <1>19, <2>1, HistOfLaunch DEF GuestHears, guestOnly, healthVars
    <2>2. CASE ~ Launch
      BY <1>2, <1>19, <2>2 DEF GuestHears, guestOnly, healthVars
    <2> QED BY <2>1, <2>2
  <1>20. CASE GuestGivesUp
    BY <1>0, <1>18, <1>20, HistOfLaunch DEF GuestGivesUp, guestOnly, healthVars
  <1>21. CASE Signal \/ DrainEnds \/ Spawn \/ SpawnFails
    <2>1. hist'.ran <=> hist.ran
      BY <1>0, <1>21, ContainerHist
    <2> QED BY <1>2, <1>21, <2>1
        DEF Signal, DrainEnds, Spawn, SpawnFails, Decided, Return, chanVars, healthVars, guestVars
  <1>22. CASE Precheck \/ ClaimPublication \/ Publish \/ LoopCancelled \/ LoopExpired \/ ReadExitCode
              \/ ClearSignals \/ RemoveFiles \/ ResetVerdict \/ LoopCache \/ CacheCancelled
              \/ CacheBalloon
    BY <1>2, <1>22 DEF Precheck, ClaimPublication, Publish, LoopCancelled, LoopExpired, ReadExitCode,
       ClearSignals, RemoveFiles, ResetVerdict, LoopCache, CacheCancelled, CacheBalloon, Return, Doom,
       hostVars, askVars, chanVars, healthVars, guestVars
  <1>23. CASE CachePause \/ CacheNotTaken \/ CacheExisting \/ CacheResumed \/ CacheAck \/ TrackerSees \/ TrackerStamps
              \/ ContainerExits \/ GuestReboots \/ GuestStops \/ OtherSnapshot \/ Finished
              \/ UNCHANGED vars
    BY <1>2, <1>23 DEF CachePause, CacheNotTaken, CacheExisting, CacheResumed, CacheAck, TrackerSees, TrackerStamps,
       ContainerExits, GuestReboots, GuestStops, OtherSnapshot, Finished, Doom, Continue, Return,
       Sever, hostVars, askVars, chanVars, healthVars, guestVars, vars, guestOnly
  <1> QED BY <1>3, <1>4, <1>6, <1>7, <1>8, <1>9, <1>10, <1>11, <1>12, <1>13, <1>14, <1>15, <1>16,
      <1>17, <1>19, <1>20, <1>21, <1>22, <1>23 DEF Next, MainStep, ListenerStep, GuestStep

(* Where the messages stand when the listener has taken one. *)
LEMMA TakenAt ==
    ASSUME ChanType, backlog # <<>>, backlog' = Tail(backlog), boot' = boot
    PROVE  /\ \A i \in DOMAIN backlog' : /\ i + 1 \in DOMAIN backlog /\ backlog'[i] = backlog[i + 1]
                                         /\ Probe(i)' <=> Probe(i + 1)
           /\ \A i \in DOMAIN backlog : i # 1 => i - 1 \in DOMAIN backlog' /\ backlog'[i - 1] = backlog[i]
           /\ 1 \in DOMAIN backlog /\ Head(backlog) = backlog[1]
           /\ DOMAIN backlog \subseteq Nat /\ DOMAIN backlog' \subseteq Nat \ {0}
  <1>1. /\ Head(backlog) = backlog[1] /\ Len(backlog) \in Nat \ {0} /\ DOMAIN backlog = 1 .. Len(backlog)
        /\ DOMAIN backlog' = 1 .. Len(backlog) - 1
        /\ \A i \in DOMAIN backlog' : i + 1 \in DOMAIN backlog /\ backlog'[i] = backlog[i + 1]
    BY HeadIsMessage DEF ChanType
  <1>2. \A i \in DOMAIN backlog : i # 1 => i - 1 \in DOMAIN backlog' /\ backlog'[i - 1] = backlog[i]
    BY <1>1
  <1> QED BY <1>1, <1>2 DEF Probe

LEMMA AddedAt ==
    ASSUME ChanType, NEW x, backlog' = Append(backlog, x), boot' = boot
    PROVE  /\ DOMAIN backlog' = DOMAIN backlog \cup {Len(backlog) + 1} /\ backlog'[Len(backlog) + 1] = x
           /\ \A i \in DOMAIN backlog : backlog'[i] = backlog[i] /\ i <= Len(backlog) /\ (Probe(i)' <=> Probe(i))
           /\ Len(backlog) \in Nat /\ DOMAIN backlog \subseteq Nat
  <1>1. /\ Len(backlog) \in Nat /\ DOMAIN backlog = 1 .. Len(backlog) /\ DOMAIN backlog' = 1 .. Len(backlog) + 1
        /\ backlog'[Len(backlog) + 1] = x /\ \A i \in DOMAIN backlog : backlog'[i] = backlog[i]
    BY AppendMessage
  <1> QED BY <1>1 DEF Probe

LEMMA MessageInvStep ==
    ASSUME TypeInv, RebootInv, DownInv, MessageInv, [Next]_vars PROVE MessageInv'
  <1>0. MessageInv /\ ChanType /\ boot \in Nat /\ \A i \in DOMAIN backlog : backlog[i].from \in Nat
    <2>1. \A i \in DOMAIN backlog : backlog[i] \in Messages
      BY DEF TypeInv, ChanType
    <2> QED BY <2>1 DEF TypeInv, GuestType, Messages, Boots
  <1>1. ASSUME UNCHANGED <<backlog, boot>>, Ending => Ending' PROVE MessageInv'
    BY <1>0, <1>1 DEF MessageInv, Probe
  <1>2. ASSUME backlog' = <<>> PROVE MessageInv'
    BY <1>2 DEF MessageInv
  <1>3. ASSUME backlog # <<>>, backlog' = Tail(backlog), UNCHANGED <<boot, main>> PROVE MessageInv'
    <2>1. Ending' <=> Ending
      BY <1>3 DEF Ending, Relaunching
    <2>2. /\ \A i \in DOMAIN backlog' : /\ i + 1 \in DOMAIN backlog /\ backlog'[i] = backlog[i + 1]
                                         /\ Probe(i)' <=> Probe(i + 1)
          /\ DOMAIN backlog' \subseteq Nat
      BY <1>0, <1>3, TakenAt
    <2>3. \A i \in DOMAIN backlog' : backlog'[i].from <= boot'
      BY <1>0, <1>3, <2>2 DEF MessageInv
    <2>4. \A i \in DOMAIN backlog' : Probe(i)' => Ending'
      BY <1>0, <1>3, <2>1, <2>2 DEF MessageInv, Probe
    <2>5. ASSUME NEW i \in DOMAIN backlog', NEW j \in DOMAIN backlog', Probe(i)', Probe(j)' PROVE i = j
      <3>1. i + 1 = j + 1
        BY <1>0, <1>3, <2>2, <2>5 DEF MessageInv, Probe
      <3> QED BY <2>2, <2>5, <3>1
    <2> QED BY <2>3, <2>4, <2>5 DEF MessageInv
  <1>4. ASSUME NEW x, x.from = boot, backlog' = Append(backlog, x), boot' = boot, Ending => Ending',
               x.m = "drain" => ~ Ending /\ Ending'
        PROVE  MessageInv'
    <2>1. PICK n : /\ DOMAIN backlog' = DOMAIN backlog \cup {n} /\ backlog'[n] = x
                   /\ \A i \in DOMAIN backlog : backlog'[i] = backlog[i]
      BY <1>0, <1>4, AddedAt
    <2>3. \A i \in DOMAIN backlog' : backlog'[i].from <= boot'
      BY <1>0, <1>4, <2>1 DEF MessageInv
    <2>4. \A i \in DOMAIN backlog' : Probe(i)' => Ending'
      BY <1>0, <1>4, <2>1 DEF MessageInv, Probe
    <2>5. \A i, j \in DOMAIN backlog' : Probe(i)' /\ Probe(j)' => i = j
      BY <1>0, <1>4, <2>1 DEF MessageInv, Probe
    <2> QED BY <2>3, <2>4, <2>5 DEF MessageInv
  <1>5. CASE LoopExited
    <2>1. boot' = boot /\ ~ Ending /\ Ending'
      BY <1>5 DEF LoopExited, Decided, Ending, Relaunching, guestVars
    <2>2. CASE UNCHANGED backlog
      BY <1>1, <2>1, <2>2
    <2> DEFINE x == [m |-> "drain", from |-> boot, ask |-> 0]
    <2>3. CASE backlog' = Append(backlog, x)
      <3>1. x.from = boot
        OBVIOUS
      <3> HIDE DEF x
      <3> QED BY <1>4, <2>1, <2>3, <3>1
    <2> QED BY <1>5, <2>2, <2>3 DEF LoopExited
  <1>6. CASE Spawn
    <2>1. backlog' = backlog /\ boot' = boot + 1
      BY <1>6 DEF Spawn, chanVars
    <2>2. \A i \in DOMAIN backlog' : backlog'[i].from <= boot' /\ ~ Probe(i)'
      BY <1>0, <2>1 DEF MessageInv, Probe
    <2> QED BY <2>2 DEF MessageInv
  <1>7. CASE StopListener \/ Restore
    BY <1>2, <1>7 DEF StopListener, Restore, DownInv, chanVars
  <1>8. CASE Teardown
    BY <1>2, <1>8 DEF Teardown, DownInv
  <1>9. CASE ListenReady \/ ListenExit \/ ListenReboot \/ ListenDrain \/ ListenAsk
    BY <1>3, <1>9 DEF ListenReady, ListenExit, ListenReboot, ListenDrain, ListenAsk, Accepts, guestVars
  <1>10. CASE GuestAsks
    <2>1. PICK x : x.m = "ask" /\ x.from = boot /\ backlog' = Append(backlog, x)
      BY <1>10 DEF GuestAsks, Connect
    <2>2. UNCHANGED <<boot, main>>
      BY <1>10 DEF GuestAsks, guestOnly
    <2>3. Ending => Ending'
      BY <2>2 DEF Ending, Relaunching
    <2> QED BY <1>4, <2>1, <2>2, <2>3
  <1>11. CASE GuestSends
    <2>1. UNCHANGED <<boot, main>> /\ out \subseteq {"ready", "exit", "reboot"}
      BY <1>11 DEF GuestSends, guestOnly, TypeInv, GuestType
    <2>2. Ending => Ending'
      BY <2>1 DEF Ending, Relaunching
    <2>3. PICK m \in out : UNCHANGED backlog \/ Connect(m, 0)
      BY <1>11 DEF GuestSends
    <2>4. CASE UNCHANGED backlog
      BY <1>1, <2>1, <2>2, <2>4
    <2>5. CASE Connect(m, 0)
      <3>1. PICK x : x.m = m /\ x.from = boot /\ backlog' = Append(backlog, x)
        BY <2>5 DEF Connect
      <3>2. x.m # "drain"
        BY <2>1, <3>1
      <3> QED BY <1>4, <2>1, <2>2, <3>1, <3>2
    <2> QED BY <2>3, <2>4, <2>5
  <1>12. CASE Signal \/ Precheck \/ ClaimPublication \/ Publish \/ LoopCancelled \/ LoopExpired
              \/ DrainEnds \/ ReadExitCode \/ ClearSignals \/ RemoveFiles \/ DropChannels
              \/ ResetVerdict
    BY <1>1, <1>12 DEF Signal, Precheck, ClaimPublication, Publish, LoopCancelled, LoopExpired,
       DrainEnds, ReadExitCode, ClearSignals, RemoveFiles, DropChannels, ResetVerdict, Return, Decided,
       hostVars, askVars, chanVars, healthVars, guestVars, Ending, Relaunching
  <1>13. CASE SpawnFails \/ LoopCache \/ CacheCancelled \/ CacheBalloon \/ CachePause \/ CacheNotTaken \/ CacheExisting
              \/ CacheResumed \/ CacheAck \/ LoopStartup \/ StartupCancelled \/ StartupBalloon
              \/ StartupPause
    BY <1>1, <1>13 DEF SpawnFails, LoopCache, CacheCancelled, CacheBalloon, CachePause, CacheNotTaken, CacheExisting,
       CacheResumed, CacheAck, LoopStartup, StartupCancelled, StartupBalloon, StartupPause, Return,
       Doom, Continue, Sever, hostVars, askVars, chanVars, healthVars, guestVars, Ending, Relaunching
  <1>14. CASE StartupAck \/ ListenResolved \/ TrackerSees \/ TrackerStamps \/ MonitorChecks
              \/ MonitorAcked \/ MonitorPersists \/ GuestHears \/ GuestGivesUp \/ ContainerExits
              \/ GuestReboots \/ GuestStops
    BY <1>1, <1>14 DEF StartupAck, ListenResolved, TrackerSees, TrackerStamps, MonitorChecks,
       MonitorAcked, MonitorPersists, GuestHears, GuestGivesUp, ContainerExits, GuestReboots,
       GuestStops, Sever, Answer, Launch, hostVars, askVars, chanVars, healthVars, guestVars,
       guestOnly, Ending, Relaunching
  <1>15. CASE OtherSnapshot \/ Finished \/ UNCHANGED vars
    BY <1>1, <1>15 DEF OtherSnapshot, Finished, Sever, hostVars, askVars, chanVars, healthVars,
       guestVars, vars, guestOnly, Ending, Relaunching
  <1> QED BY <1>5, <1>6, <1>7, <1>8, <1>9, <1>10, <1>11, <1>12, <1>13, <1>14, <1>15 DEF Next, MainStep, ListenerStep, GuestStep

(* A probe behind which nothing waits stays so, until it is taken. *)
LEMMA ProbeTaken ==
    ASSUME ChanType, Probing, MessageInv, backlog # <<>>, backlog' = Tail(backlog), boot' = boot
    PROVE  /\ Probe(1) => ~ Sent("exit")' /\ ~ Sent("reboot")'
           /\ ~ Probe(1) => Probing'
  <1>1. PICK i \in DOMAIN backlog : Probe(i) /\ ~ Later(i, "exit") /\ ~ Later(i, "reboot")
    BY DEF Probing
  <1>2. /\ \A k \in DOMAIN backlog' : /\ k + 1 \in DOMAIN backlog /\ backlog'[k] = backlog[k + 1]
                                      /\ Probe(k)' <=> Probe(k + 1)
        /\ i # 1 => i - 1 \in DOMAIN backlog'
        /\ 1 \in DOMAIN backlog /\ i \in Nat /\ DOMAIN backlog' \subseteq Nat \ {0}
    BY <1>1, TakenAt
  <1>3. CASE Probe(1)
    <2>1. i = 1
      BY <1>1, <1>2, <1>3 DEF MessageInv
    <2>2. \A m : Sent(m)' => Later(1, m)
      <3> SUFFICES ASSUME NEW m, Sent(m)' PROVE Later(1, m)
        OBVIOUS
      <3>1. PICK k \in DOMAIN backlog' : backlog'[k].m = m
        BY DEF Sent
      <3>2. k + 1 \in DOMAIN backlog /\ k + 1 > 1 /\ backlog[k + 1].m = m
        BY <1>2, <3>1
      <3> QED BY <3>2 DEF Later
    <2> QED BY <1>1, <1>3, <2>1, <2>2
  <1>4. CASE ~ Probe(1)
    <2>1. i # 1 /\ i - 1 \in DOMAIN backlog' /\ (i - 1) + 1 = i
      BY <1>1, <1>2, <1>4
    <2>2. Probe(i - 1)'
      BY <1>1, <1>2, <2>1
    <2>3. \A m : Later(i - 1, m)' => Later(i, m)
      <3> SUFFICES ASSUME NEW m, Later(i - 1, m)' PROVE Later(i, m)
        OBVIOUS
      <3>1. PICK k \in DOMAIN backlog' : k > i - 1 /\ backlog'[k].m = m
        BY DEF Later
      <3>2. k + 1 \in DOMAIN backlog /\ k + 1 > i /\ backlog[k + 1].m = m
        BY <1>2, <3>1
      <3> QED BY <3>2 DEF Later
    <2>4. ~ Later(i - 1, "exit")' /\ ~ Later(i - 1, "reboot")'
      BY <1>1, <2>3
    <2>5. Probe(i - 1)' /\ ~ Later(i - 1, "exit")' /\ ~ Later(i - 1, "reboot")' /\ i - 1 \in DOMAIN backlog'
      BY <2>1, <2>2, <2>4
    <2> QED BY <1>4, <2>5 DEF Probing
  <1> QED BY <1>3, <1>4

LEMMA DrainInvStep ==
    ASSUME TypeInv, RebootInv, DownInv, MessageInv, DrainInv, [Next]_vars PROVE DrainInv'
  <1>0. DrainInv /\ ChanType
    BY DEF TypeInv
  <1>1. ASSUME drained' = FALSE \/ (UNCHANGED drained /\ main # "drain"), main' # "drain" PROVE DrainInv'
    BY <1>0, <1>1 DEF DrainInv
  <1>2. ASSUME UNCHANGED <<backlog, boot, main, drained>> PROVE DrainInv'
    <2>1. (Probing => Probing') /\ (Sent("exit")' <=> Sent("exit")) /\ (Sent("reboot")' <=> Sent("reboot"))
      BY <1>2, SentSame DEF Probing, Probe, Later
    <2> QED BY <1>0, <1>2, <2>1 DEF DrainInv
  <1>3. ASSUME backlog # <<>>, backlog' = Tail(backlog), UNCHANGED <<boot, main>>,
               drained' <=> drained \/ (main = "drain" /\ Probe(1)), drained' \in BOOLEAN
        PROVE  DrainInv'
    <2>1. (Sent("exit")' => Sent("exit")) /\ (Sent("reboot")' => Sent("reboot"))
      BY <1>0, <1>3, SentTaken
    <2>2. CASE Probing
      <3>1. (Probe(1) => ~ Sent("exit")' /\ ~ Sent("reboot")') /\ (~ Probe(1) => Probing')
        BY <1>0, <1>3, <2>2, ProbeTaken
      <3> QED BY <1>0, <1>3, <2>1, <3>1 DEF DrainInv
    <2>3. CASE ~ Probing
      BY <1>0, <1>3, <2>1, <2>3 DEF DrainInv
    <2> QED BY <2>2, <2>3
  <1>4. CASE LoopExited
    <2>1. CASE rebootReq
      BY <1>1, <1>4, <2>1 DEF LoopExited, Decided
    <2>2. CASE ~ rebootReq
      <3> DEFINE x == [m |-> "drain", from |-> boot, ask |-> 0]
      <3>1. backlog' = Append(backlog, x) /\ boot' = boot
        BY <1>4, <2>2 DEF LoopExited, guestVars
      <3>2. x.m = "drain" /\ x.from = boot
        OBVIOUS
      <3> HIDE DEF x
      <3>3. PICK n \in Nat : n = Len(backlog) + 1
        BY <1>0 DEF ChanType
      <3>4. /\ DOMAIN backlog' = DOMAIN backlog \cup {n} /\ backlog'[n] = x
            /\ \A i \in DOMAIN backlog : i < n
        BY <1>0, <3>1, <3>3, AddedAt
      <3>5. \A k \in DOMAIN backlog' : ~ (k > n)
        BY <3>3, <3>4
      <3>6. Probing'
        BY <3>1, <3>2, <3>4, <3>5 DEF Probing, Probe, Later
      <3>7. ~ drained'
        BY <1>0, <1>4 DEF LoopExited, DrainInv
      <3> QED BY <3>6, <3>7 DEF DrainInv
    <2> QED BY <2>1, <2>2
  <1>5. CASE ListenReady \/ ListenExit \/ ListenReboot \/ ListenAsk
    <2>1. /\ backlog # <<>> /\ backlog' = Tail(backlog) /\ UNCHANGED <<boot, main, drained>> /\ Head(backlog).m # "drain"
      BY <1>5 DEF ListenReady, ListenExit, ListenReboot, ListenAsk, Accepts, guestVars
    <2>2. ~ Probe(1) /\ drained \in BOOLEAN
      BY <1>0, <2>1, TakenAt DEF Probe, ChanType
    <2> QED BY <1>3, <2>1, <2>2
  <1>6. CASE ListenDrain
    <2>1. /\ backlog # <<>> /\ backlog' = Tail(backlog) /\ UNCHANGED <<boot, main>> /\ Head(backlog).m = "drain"
          /\ drained' = (drained \/ (main = "drain" /\ Head(backlog).from = boot))
      BY <1>6 DEF ListenDrain, Accepts, guestVars
    <2>2. Probe(1) <=> Head(backlog).from = boot
      BY <1>0, <2>1, TakenAt DEF Probe
    <2>3. drained' \in BOOLEAN /\ (drained' <=> drained \/ (main = "drain" /\ Probe(1)))
      BY <1>0, <2>1, <2>2 DEF ChanType
    <2> QED BY <1>3, <2>1, <2>3
  <1>7. CASE GuestAsks \/ GuestSends
    <2>1. UNCHANGED <<main, drained>> /\ main # "drain"
      BY <1>7 DEF GuestAsks, GuestSends, CanRun, RebootInv, guestOnly
    <2> QED BY <1>1, <2>1
  <1>8. CASE DrainEnds \/ Teardown
    BY <1>1, <1>8 DEF DrainEnds, Teardown, Decided
  <1>9. CASE Precheck \/ ClaimPublication \/ Publish \/ LoopCancelled \/ LoopExpired \/ ReadExitCode
             \/ ClearSignals \/ RemoveFiles \/ DropChannels \/ ResetVerdict \/ Spawn \/ SpawnFails
    BY <1>1, <1>9
    DEF Precheck, ClaimPublication, Publish, LoopCancelled, LoopExpired, ReadExitCode, ClearSignals,
        RemoveFiles, DropChannels, ResetVerdict, Spawn, SpawnFails, Return, chanVars
  <1>10. CASE LoopCache \/ CacheCancelled \/ CacheBalloon \/ CachePause \/ CacheNotTaken \/ CacheExisting \/ CacheResumed \/ CacheAck
             \/ LoopStartup \/ StartupCancelled \/ StartupBalloon \/ StartupPause \/ StartupAck
    BY <1>1, <1>10
    DEF LoopCache, CacheCancelled, CacheBalloon, CachePause, CacheNotTaken, CacheExisting, CacheResumed, CacheAck, LoopStartup,
        StartupCancelled, StartupBalloon, StartupPause, StartupAck, Doom, Continue, Return, chanVars
  <1>11. CASE StopListener \/ Restore
    BY <1>1, <1>11 DEF StopListener, Restore, chanVars
  <1>12. CASE Signal \/ ListenResolved \/ TrackerSees \/ TrackerStamps \/ MonitorChecks
              \/ MonitorAcked \/ MonitorPersists \/ GuestHears \/ GuestGivesUp \/ ContainerExits
              \/ GuestReboots
    BY <1>2, <1>12 DEF Signal, ListenResolved, TrackerSees, TrackerStamps, MonitorChecks,
       MonitorAcked, MonitorPersists, GuestHears, GuestGivesUp, ContainerExits, GuestReboots, Answer,
       Launch, hostVars, askVars, chanVars, healthVars, guestVars, guestOnly
  <1>13. CASE GuestStops \/ OtherSnapshot \/ Finished \/ UNCHANGED vars
    BY <1>2, <1>13 DEF GuestStops, OtherSnapshot, Finished, Sever, hostVars, askVars, chanVars,
       healthVars, guestVars, vars, guestOnly
  <1> QED BY <1>4, <1>5, <1>6, <1>7, <1>8, <1>9, <1>10, <1>11, <1>12, <1>13 DEF Next, MainStep, ListenerStep, GuestStep

LEMMA RebootSeenStep ==
    ASSUME TypeInv, RebootInv, DownInv, GateInv, DrainInv, RebootSeen, [Next]_vars PROVE RebootSeen'
  <1>0. RebootSeen /\ HistType /\ ChanType
    BY DEF TypeInv
  <1>1. ASSUME UNCHANGED <<main, outcome, args>>, token => token', hist'.rebootSent <=> hist.rebootSent,
               hist.stuck => hist'.stuck, hist.cleared => hist'.cleared,
               rebootReq => rebootReq', Sent("reboot") => Sent("reboot")' \/ rebootReq', guest = "off" => guest' = "off"
        PROVE  RebootSeen'
    BY <1>0, <1>1 DEF RebootSeen, Relaunching
  <1>2. ASSUME UNCHANGED <<main, outcome, args, token, hist, rebootReq, backlog>>, guest = "off" => guest' = "off"
        PROVE  RebootSeen'
    <2>1. Sent("reboot") => Sent("reboot")'
      BY <1>2, SentSame
    <2> QED BY <1>1, <1>2, <2>1
  <1>3. ASSUME UNCHANGED <<args, hist, rebootReq, backlog>>, main \notin Over, main' \notin Over \cup {"read"},
               Relaunching => Relaunching'
        PROVE  RebootSeen'
    <2>1. Sent("reboot") => Sent("reboot")'
      BY <1>3, SentSame
    <2> QED BY <1>0, <1>3, <2>1 DEF RebootSeen, Relaunching
  <1>4. ASSUME main' \in Over, \/ outcome' \in {"error", "restore"}
                               \/ outcome' \in {"interrupted", "cancelled"} /\ token'
        PROVE  RebootSeen'
    BY <1>4 DEF RebootSeen, Over
  <1>5. CASE Signal
    <2>1. Sent("reboot") => Sent("reboot")'
      BY <1>5, SentSame DEF Signal, chanVars
    <2> QED BY <1>0, <1>1, <1>5, <2>1, HistOfSignal DEF Signal, HistKept, chanVars, guestVars
  <1>6. CASE Precheck \/ ClaimPublication \/ Publish
    BY <1>3, <1>4, <1>6 DEF Precheck, ClaimPublication, Publish, GateInv, Over, Relaunching, hostVars, chanVars
  <1>7. CASE LoopCancelled
    BY <1>4, <1>7 DEF LoopCancelled, Return, Over, hostVars
  <1>8. CASE LoopExited
    <2>1. Sent("reboot") => Sent("reboot")'
      <3> DEFINE x == [m |-> "drain", from |-> boot, ask |-> 0]
      <3>1. UNCHANGED backlog \/ backlog' = Append(backlog, x)
        BY <1>8 DEF LoopExited
      <3> HIDE DEF x
      <3> QED BY <1>0, <3>1, SentSame, SentAdded
    <2>2. /\ main = "loop" /\ main' \in {"drain", "read", "clear"} /\ UNCHANGED <<hist, rebootReq, args>>
          /\ main' = "read" => rebootReq /\ args.tty
      BY <1>8 DEF LoopExited, Decided, hostVars
    <2> QED BY <1>0, <2>1, <2>2 DEF RebootSeen, Relaunching, Over
  <1>9. CASE DrainEnds
    <2>1. /\ main = "drain" /\ main' \in {"read", "clear"} /\ UNCHANGED <<rebootReq, args, backlog>>
          /\ main' = "read" => ~ rebootReq \/ args.tty
      BY <1>9 DEF DrainEnds, Decided, hostVars
    <2>2. Sent("reboot") <=> Sent("reboot")'
      BY <2>1, SentSame
    <2>3. /\ hist'.stuck <=> hist.stuck \/ ~ drained
          /\ (hist'.cleared <=> hist.cleared) /\ (hist'.rebootSent <=> hist.rebootSent)
      BY <1>0, <1>9, HistOfDrain DEF HistKept
    <2>4. drained => ~ Sent("reboot")
      BY DEF DrainInv
    <2> QED BY <1>0, <2>1, <2>2, <2>3, <2>4 DEF RebootSeen, Relaunching, Over
  <1>10. CASE ReadExitCode
    <2>1. /\ main = "read" /\ main' = "cleanup" /\ guest' = "off" /\ UNCHANGED <<args, hist>>
          /\ outcome' \in {"tty", "unreported", "exited"} /\ (outcome' = "tty" <=> args.tty)
      BY <1>10 DEF ReadExitCode, Return, RebootInv, guestVars
    <2> QED BY <1>0, <2>1 DEF RebootSeen, Over
  <1>11. CASE ClearSignals
    BY <1>11 DEF ClearSignals, RebootSeen, Relaunching, Over
  <1>12. CASE Spawn
    <2>1. ~ hist'.rebootSent
      BY <1>0, <1>12, HistOfSpawn
    <2> QED BY <1>12, <2>1 DEF Spawn, RebootSeen, Over
  <1>13. CASE SpawnFails
    <2>1. hist'.cleared
      BY <1>0, <1>13, HistOfSpawnFails
    <2> QED BY <1>4, <1>13, <2>1 DEF SpawnFails, Return, RebootSeen, Over
  <1>14. CASE CacheCancelled \/ CacheNotTaken \/ CacheExisting \/ CacheResumed
    <2>1. CASE main' = "cleanup"
      BY <1>4, <1>14, <2>1 DEF CacheCancelled, CacheNotTaken, CacheExisting, CacheResumed, Doom, Continue, Return, Over, hostVars
    <2>2. CASE main' # "cleanup"
      BY <1>3, <1>14, <2>2 DEF CacheCancelled, CacheNotTaken, CacheExisting, CacheResumed, Doom, Continue, Return, Over, Relaunching,
         hostVars, chanVars
    <2> QED BY <2>1, <2>2
  <1>15. CASE CacheBalloon \/ StartupBalloon
    <2>1. CASE UNCHANGED <<main, outcome, watchdog>>
      BY <1>2, <1>15, <2>1 DEF CacheBalloon, StartupBalloon, hostVars, chanVars, guestVars
    <2>2. CASE Return("error")
      BY <1>4, <2>2 DEF Return, Over
    <2> QED BY <1>15, <2>1, <2>2 DEF CacheBalloon, StartupBalloon, Doom
  <1>16. CASE StartupCancelled
    BY <1>4, <1>16 DEF StartupCancelled, Return, Over, hostVars
  <1>17. CASE StopListener
    BY <1>0, <1>17 DEF StopListener, RebootSeen, Over, hostVars
  <1>18. CASE Teardown
    BY <1>0, <1>18 DEF Teardown, RebootSeen, Over
  <1>19. CASE Restore
    <2>1. CASE main' = "done"
      BY <1>4, <1>19, <2>1 DEF Restore, Over
    <2>2. CASE main' = "setup"
      <3>1. ~ hist'.rebootSent
        BY <1>0, <1>19, <2>2, HistOfRestore
      <3> QED BY <2>2, <3>1 DEF RebootSeen, Over
    <2> QED BY <1>19, <2>1, <2>2 DEF Restore
  <1>20. CASE ListenReady \/ ListenDrain \/ ListenExit \/ ListenAsk
    <2>1. backlog # <<>> /\ backlog' = Tail(backlog) /\ Head(backlog).m # "reboot"
      BY <1>20 DEF ListenReady, ListenDrain, ListenExit, ListenAsk, Accepts
    <2>2. Sent("reboot") => Sent("reboot")'
      BY <1>0, <2>1, SentTaken
    <2>3. (hist'.rebootSent <=> hist.rebootSent) /\ (hist.stuck => hist'.stuck) /\ (hist.cleared => hist'.cleared)
      BY <1>0, <1>20, HistOfListenExit DEF HistKept, ListenReady, ListenDrain, ListenAsk
    <2> QED BY <1>1, <1>20, <2>2, <2>3
        DEF ListenReady, ListenDrain, ListenExit, ListenAsk, Answer, hostVars, guestVars
  <1>21. CASE ListenReboot
    BY <1>1, <1>21 DEF ListenReboot, hostVars, guestVars
  <1>22. CASE ListenResolved
    BY <1>2, <1>22 DEF ListenResolved, Answer, hostVars
  <1>23. CASE GuestHears \/ GuestGivesUp
    <2>1. (hist'.rebootSent <=> hist.rebootSent) /\ (hist.stuck => hist'.stuck) /\ (hist.cleared => hist'.cleared)
      BY <1>0, <1>23, HistOfLaunch DEF HistKept, GuestHears, GuestGivesUp
    <2>2. Sent("reboot") => Sent("reboot")'
      BY <1>23, SentSame DEF GuestHears, GuestGivesUp
    <2> QED BY <1>1, <1>23, <2>1, <2>2 DEF GuestHears, GuestGivesUp, CanRun, guestOnly, hostVars
  <1>24. CASE GuestAsks
    <2>1. Sent("reboot") => Sent("reboot")'
      BY <1>0, <1>24, SentAdded DEF GuestAsks, Connect
    <2> QED BY <1>1, <1>24, <2>1 DEF GuestAsks, CanRun, guestOnly, hostVars
  <1>25. CASE GuestSends
    <2>1. UNCHANGED <<main, outcome, args, token, rebootReq, guest>> /\ guest # "off" /\ main # "read"
      BY <1>25 DEF GuestSends, CanRun, RebootInv, guestOnly, hostVars
    <2>2. CASE UNCHANGED <<backlog, hist>>
      BY <1>2, <2>1, <2>2
    <2>3. CASE ~ UNCHANGED <<backlog, hist>>
      <3>1. PICK m \in out : Connect(m, 0) /\ hist' = CASE m = "exit" -> [hist EXCEPT !.exitSent = TRUE]
                                                        [] m = "reboot" -> [hist EXCEPT !.rebootSent = TRUE]
                                                        [] OTHER -> hist
        BY <1>25, <2>3 DEF GuestSends
      <3>2. PICK x : x.m = m /\ backlog' = Append(backlog, x)
        BY <3>1 DEF Connect
      <3>3. (Sent("reboot") => Sent("reboot")') /\ (m = "reboot" => Sent("reboot")')
        BY <1>0, <3>2, SentAdded
      <3>4. /\ hist'.rebootSent <=> hist.rebootSent \/ m = "reboot"
            /\ (hist'.stuck <=> hist.stuck) /\ (hist'.cleared <=> hist.cleared)
        BY <1>0, <3>1, HistOfSends DEF HistKept
      <3> QED BY <1>0, <2>1, <3>3, <3>4 DEF RebootSeen, Relaunching
    <2> QED BY <2>2, <2>3
  <1>26. CASE LoopExpired \/ GuestStops \/ ContainerExits \/ GuestReboots \/ OtherSnapshot
    BY <1>2, <1>4, <1>26 DEF LoopExpired, GuestStops, ContainerExits, GuestReboots, OtherSnapshot, CanRun, Return, Over,
       guestOnly, hostVars, chanVars
  <1>27. CASE RemoveFiles \/ DropChannels \/ ResetVerdict \/ LoopCache \/ CachePause \/ CacheAck \/ LoopStartup
              \/ StartupPause \/ StartupAck
    BY <1>3, <1>27 DEF RemoveFiles, DropChannels, ResetVerdict, LoopCache, CachePause, CacheAck, LoopStartup,
       StartupPause, StartupAck, Over, Relaunching, hostVars, chanVars
  <1>28. CASE TrackerSees \/ TrackerStamps \/ MonitorChecks \/ MonitorAcked \/ MonitorPersists
              \/ Finished \/ UNCHANGED vars
    BY <1>2, <1>28 DEF TrackerSees, TrackerStamps, MonitorChecks, MonitorAcked, MonitorPersists,
       Finished, hostVars, askVars, chanVars, healthVars, guestVars, vars
  <1> QED BY <1>5, <1>6, <1>7, <1>8, <1>9, <1>10, <1>11, <1>12, <1>13, <1>14, <1>15, <1>16, <1>17,
      <1>18, <1>19, <1>20, <1>21, <1>22, <1>23, <1>24, <1>25, <1>26, <1>27, <1>28 DEF Next, MainStep, ListenerStep, GuestStep

LEMMA ExitInvStep ==
    ASSUME TypeInv, RebootInv, DownInv, CloneInv, MessageInv, DrainInv, RebootSeen, ExitInv, [Next]_vars PROVE ExitInv'
  <1>0. ExitInv /\ HistType /\ ChanType /\ boot \in Nat
    BY Values DEF TypeInv, GuestType, Boots
  <1>1. ASSUME UNCHANGED <<main, outcome, args, code, boot, exitFile, exitSeen>>,
               hist'.late <=> hist.late, hist'.exitSent <=> hist.exitSent,
               hist.stuck => hist'.stuck, hist.cleared => hist'.cleared, Sent("exit")' <=> Sent("exit")
        PROVE  ExitInv'
    BY <1>0, <1>1 DEF ExitInv, Relaunching
  <1>2. ASSUME UNCHANGED <<main, outcome, args, code, boot, exitFile, exitSeen, hist, backlog>>
        PROVE  ExitInv'
    <2>1. Sent("exit") <=> Sent("exit")'
      BY <1>2, SentSame
    <2> QED BY <1>1, <1>2, <2>1
  <1>3. ASSUME UNCHANGED <<boot, exitFile, exitSeen, hist, backlog>>, main \notin Over, main' \notin Over \cup {"read"},
               ~ Relaunching, ~ Relaunching'
        PROVE  ExitInv'
    <2>1. Sent("exit") <=> Sent("exit")'
      BY <1>3, SentSame
    <2> QED BY <1>0, <1>3, <2>1 DEF ExitInv, Relaunching
  <1>4. ASSUME UNCHANGED <<boot, exitFile, exitSeen, hist>>, main' \in Over, outcome' \notin {"exited", "unreported"}
        PROVE  ExitInv'
    BY <1>0, <1>4 DEF ExitInv, Relaunching, Over
  <1>5. CASE Signal
    <2>1. Sent("exit") <=> Sent("exit")'
      BY <1>5, SentSame DEF Signal, chanVars
    <2> QED BY <1>0, <1>1, <1>5, <2>1, HistOfSignal DEF Signal, HistKept, chanVars, guestVars
  <1>6. CASE Precheck \/ ClaimPublication \/ Publish
    BY <1>3, <1>4, <1>6 DEF Precheck, ClaimPublication, Publish, Over, Relaunching, chanVars, guestVars
  <1>7. CASE LoopCancelled \/ LoopExpired \/ StartupCancelled
    BY <1>2, <1>4, <1>7 DEF LoopCancelled, LoopExpired, StartupCancelled, Return, Over, hostVars, chanVars, guestVars
  <1>8. CASE LoopExited
    <2>1. Sent("exit") <=> Sent("exit")'
      <3> DEFINE x == [m |-> "drain", from |-> boot, ask |-> 0]
      <3>1. UNCHANGED backlog \/ backlog' = Append(backlog, x)
        BY <1>8 DEF LoopExited
      <3>2. x.m # "exit"
        OBVIOUS
      <3> HIDE DEF x
      <3> QED BY <1>0, <3>1, <3>2, SentSame, SentAdded
    <2>2. /\ main = "loop" /\ main' \in {"drain", "read", "clear"}
          /\ UNCHANGED <<hist, args, boot, exitFile, exitSeen>>
          /\ main' = "read" => args.tty
      BY <1>8 DEF LoopExited, Decided, hostVars, guestVars
    <2> QED BY <1>0, <2>1, <2>2 DEF ExitInv, Relaunching, Over
  <1>9. CASE DrainEnds
    <2>1. /\ main = "drain" /\ main' \in {"read", "clear"} /\ UNCHANGED <<args, backlog, boot, exitFile, exitSeen>>
      BY <1>9 DEF DrainEnds, Decided, hostVars, guestVars
    <2>2. Sent("exit") <=> Sent("exit")'
      BY <2>1, SentSame
    <2>3. /\ hist'.stuck <=> hist.stuck \/ ~ drained
          /\ (hist'.cleared <=> hist.cleared) /\ (hist'.exitSent <=> hist.exitSent) /\ (hist'.late <=> hist.late)
      BY <1>0, <1>9, HistOfDrain DEF HistKept
    <2>4. drained => ~ Sent("exit")
      BY DEF DrainInv
    <2> QED BY <1>0, <2>1, <2>2, <2>3, <2>4 DEF ExitInv, Relaunching, Over
  <1>10. CASE ReadExitCode
    <2>1. /\ main = "read" /\ main' = "cleanup" /\ UNCHANGED <<args, hist, boot, exitFile, exitSeen>>
          /\ (outcome' = "tty" <=> args.tty) /\ (outcome' = "exited" => exitFile # NoBoot)
          /\ (outcome' = "unreported" => exitFile = NoBoot) /\ code' = exitFile
      BY <1>10 DEF ReadExitCode, Return, chanVars, guestVars
    <2> QED BY <1>0, <2>1 DEF ExitInv, Over, Relaunching
  <1>11. CASE ClearSignals
    <2>1. main' = "files" /\ UNCHANGED <<hist, boot, exitFile>> /\ exitSeen' = NoBoot
      BY <1>11 DEF ClearSignals, guestVars
    <2> QED BY <1>0, <2>1 DEF ExitInv, Relaunching, Over
  <1>12. CASE RemoveFiles
    <2>1. main = "files" /\ main' = "channels" /\ UNCHANGED <<hist, boot, exitSeen>> /\ exitFile' = NoBoot
      BY <1>12 DEF RemoveFiles, guestVars
    <2> QED BY <1>0, <2>1 DEF ExitInv, Relaunching, Over
  <1>13. CASE DropChannels \/ ResetVerdict
    <2>1. /\ main \in {"channels", "verdict"} /\ main' \in {"verdict", "spawn"}
          /\ UNCHANGED <<hist, boot, exitSeen, exitFile>>
      BY <1>13 DEF DropChannels, ResetVerdict, guestVars, chanVars
    <2> QED BY <1>0, <2>1 DEF ExitInv, Relaunching, Over
  <1>14. CASE Spawn
    <2>1. main = "spawn" /\ main' = "loop" /\ UNCHANGED <<exitSeen, exitFile>>
      BY <1>14 DEF Spawn, chanVars
    <2>2. ~ hist'.exitSent /\ (hist'.late <=> hist.late)
      BY <1>0, <1>14, HistOfSpawn DEF HistKept
    <2> QED BY <1>0, <2>1, <2>2 DEF ExitInv, Relaunching, Over
  <1>15. CASE SpawnFails
    <2>1. hist'.cleared /\ (hist'.late <=> hist.late)
      BY <1>0, <1>15, HistOfSpawnFails DEF HistKept
    <2>2. /\ UNCHANGED <<boot, exitFile, exitSeen>>
          /\ main' = "read" \/ (main' = "cleanup" /\ outcome' = "error")
      BY <1>15 DEF SpawnFails, Return, chanVars, guestVars
    <2> QED BY <1>0, <2>1, <2>2 DEF ExitInv, Relaunching, Over
  <1>16. CASE CacheCancelled \/ CacheNotTaken \/ CacheExisting \/ CacheResumed
    <2>1. CASE main' = "cleanup"
      BY <1>4, <1>16, <2>1
      DEF CacheCancelled, CacheNotTaken, CacheExisting, CacheResumed, Doom, Continue, Return, Over, chanVars, guestVars
    <2>2. CASE main' # "cleanup"
      BY <1>3, <1>16, <2>2 DEF CacheCancelled, CacheNotTaken, CacheExisting, CacheResumed, Doom, Continue, Return, Over, Relaunching,
         chanVars, guestVars
    <2> QED BY <2>1, <2>2
  <1>17. CASE CacheBalloon \/ StartupBalloon
    <2>1. CASE UNCHANGED <<main, outcome, watchdog>>
      BY <1>2, <1>17, <2>1 DEF CacheBalloon, StartupBalloon, hostVars, chanVars, guestVars
    <2>2. CASE Return("error")
      BY <1>4, <1>17, <2>2 DEF CacheBalloon, StartupBalloon, Return, Over, chanVars, guestVars
    <2> QED BY <1>17, <2>1, <2>2 DEF CacheBalloon, StartupBalloon, Doom
  <1>18. CASE StopListener
    <2>1. ~ Sent("exit")'
      BY <1>18, SentNone DEF StopListener
    <2> QED BY <1>0, <1>18, <2>1 DEF StopListener, ExitInv, Over, Relaunching, hostVars
  <1>19. CASE Teardown
    <2>1. /\ exitFile' = NoBoot /\ exitSeen' = NoBoot /\ main = "kill" /\ main' \in {"restore", "done"}
          /\ UNCHANGED <<outcome, code, boot, hist>>
      BY <1>19 DEF Teardown
    <2> QED BY <1>0, <2>1 DEF ExitInv, Over, Relaunching
  <1>20. CASE Restore
    <2>1. /\ exitFile' = NoBoot /\ exitSeen' = NoBoot
          /\ \/ main' = "done" /\ outcome' = "interrupted"
             \/ main' = "setup"
      BY <1>20 DEF Restore, DownInv, chanVars
    <2>2. (hist'.late <=> hist.late) /\ (main' # "done" => ~ hist'.exitSent)
      BY <1>0, <1>20, HistOfRestore DEF HistKept
    <2> QED BY <1>0, <2>1, <2>2 DEF ExitInv, Over, Relaunching
  <1>21. CASE ListenReady \/ ListenDrain \/ ListenReboot \/ ListenAsk
    <2>1. backlog # <<>> /\ backlog' = Tail(backlog) /\ Head(backlog).m # "exit"
      BY <1>21 DEF ListenReady, ListenDrain, ListenReboot, ListenAsk, Accepts
    <2>2. Sent("exit") <=> Sent("exit")'
      BY <1>0, <2>1, SentTaken
    <2> QED BY <1>1, <1>21, <2>2 DEF ListenReady, ListenDrain, ListenReboot, ListenAsk, hostVars, guestVars
  <1>22. CASE ListenExit
    <2>1. /\ backlog # <<>> /\ backlog' = Tail(backlog) /\ UNCHANGED <<main, outcome, args, code, boot>>
          /\ exitFile' = Head(backlog).from /\ exitSeen' = Head(backlog).from
      BY <1>22 DEF ListenExit, Accepts, hostVars, guestVars
    <2>2. Sent("exit")' => Sent("exit")
      BY <1>0, <2>1, SentTaken
    <2>3. /\ hist'.late <=> hist.late \/ Head(backlog).from < boot \/ Relaunching
          /\ (hist'.stuck <=> hist.stuck) /\ (hist'.cleared <=> hist.cleared) /\ (hist'.exitSent <=> hist.exitSent)
      BY <1>0, <1>22, HistOfListenExit DEF HistKept
    <2>4. Head(backlog).from \in Nat /\ Head(backlog).from <= boot /\ Head(backlog).from # NoBoot
      BY <1>0, <2>1, HeadIsMessage, Values DEF MessageInv, Boots, ChanType
    <2>5. ~ hist'.late => Head(backlog).from = boot /\ ~ Relaunching
      BY <1>0, <2>3, <2>4
    <2>6. Relaunching' <=> Relaunching
      BY <2>1 DEF Relaunching
    <2> QED BY <1>0, <2>1, <2>2, <2>3, <2>4, <2>5, <2>6 DEF ExitInv, Relaunching
  <1>23. CASE GuestHears \/ GuestGivesUp
    <2>1. /\ (hist'.exitSent <=> hist.exitSent) /\ (hist.stuck => hist'.stuck) /\ (hist.cleared => hist'.cleared)
          /\ hist'.late <=> hist.late
      BY <1>0, <1>23, HistOfLaunch DEF HistKept, GuestHears, GuestGivesUp
    <2>2. Sent("exit") <=> Sent("exit")'
      BY <1>23, SentSame DEF GuestHears, GuestGivesUp
    <2> QED BY <1>1, <1>23, <2>1, <2>2 DEF GuestHears, GuestGivesUp, guestOnly, hostVars
  <1>24. CASE GuestAsks
    <2>1. PICK x : x.m = "ask" /\ backlog' = Append(backlog, x)
      BY <1>24 DEF GuestAsks, Connect
    <2>2. Sent("exit") <=> Sent("exit")'
      BY <1>0, <2>1, SentAdded
    <2> QED BY <1>1, <1>24, <2>2 DEF GuestAsks, guestOnly, hostVars
  <1>25. CASE GuestSends
    <2>1. /\ UNCHANGED <<main, outcome, args, code, boot, exitFile, exitSeen>> /\ main # "read"
          /\ main \in Over => outcome # "unreported"
      BY <1>25 DEF GuestSends, CanRun, RebootInv, RebootSeen, guestOnly, hostVars
    <2>2. CASE UNCHANGED <<backlog, hist>>
      BY <1>2, <2>1, <2>2
    <2>3. CASE ~ UNCHANGED <<backlog, hist>>
      <3>1. PICK m \in out : Connect(m, 0) /\ hist' = CASE m = "exit" -> [hist EXCEPT !.exitSent = TRUE]
                                                        [] m = "reboot" -> [hist EXCEPT !.rebootSent = TRUE]
                                                        [] OTHER -> hist
        BY <1>25, <2>3 DEF GuestSends
      <3>2. PICK x : x.m = m /\ backlog' = Append(backlog, x)
        BY <3>1 DEF Connect
      <3>3. Sent("exit")' <=> Sent("exit") \/ m = "exit"
        BY <1>0, <3>2, SentAdded
      <3>4. /\ hist'.exitSent <=> hist.exitSent \/ m = "exit"
            /\ (hist'.stuck <=> hist.stuck) /\ (hist'.cleared <=> hist.cleared) /\ (hist'.late <=> hist.late)
        BY <1>0, <3>1, HistOfSends DEF HistKept
      <3> QED BY <1>0, <2>1, <3>3, <3>4 DEF ExitInv, Relaunching
    <2> QED BY <2>2, <2>3
  <1>26. CASE LoopCache \/ CachePause \/ CacheAck \/ LoopStartup \/ StartupPause \/ StartupAck
    BY <1>3, <1>26 DEF LoopCache, CachePause, CacheAck, LoopStartup,
       StartupPause, StartupAck, Over, Relaunching, chanVars, guestVars
  <1>27. CASE ListenResolved \/ TrackerSees \/ TrackerStamps \/ MonitorChecks
              \/ MonitorAcked \/ MonitorPersists \/ ContainerExits \/ GuestReboots \/ GuestStops
              \/ OtherSnapshot \/ Finished \/ UNCHANGED vars
    BY <1>2, <1>27 DEF ListenResolved, TrackerSees, TrackerStamps, MonitorChecks,
       MonitorAcked, MonitorPersists, ContainerExits, GuestReboots, GuestStops, OtherSnapshot,
       Finished, Answer, Sever, hostVars, askVars, chanVars, healthVars, guestVars, vars, guestOnly
  <1> QED BY <1>5, <1>6, <1>7, <1>8, <1>9, <1>10, <1>11, <1>12, <1>13, <1>14, <1>15, <1>16, <1>17,
      <1>18, <1>19, <1>20, <1>21, <1>22, <1>23, <1>24, <1>25, <1>26, <1>27 DEF Next, MainStep, ListenerStep, GuestStep

LEMMA StampInvStep ==
    ASSUME TypeInv, WatchInv, StampInv, [Next]_vars PROVE StampInv'
  <1>0. /\ StampInv /\ HistType /\ watchdog \in Watchdogs /\ watchdog.gen \in Nat /\ watchdog.stampers \subseteq Nat
        /\ \A g \in watchdog.stampers : g <= watchdog.gen
    BY DEF TypeInv, TaskType, Watchdogs, Boots, WatchInv
  <1>1. ASSUME UNCHANGED <<watchdog, exitSeen>>, ~ hist'.late => ~ hist.late,
               main \notin Over \cup {"files"} \/ main' = main \/ main' \in Over
        PROVE  StampInv'
    BY <1>0, <1>1 DEF StampInv, Stamping
  <1>2. ASSUME watchdog' \in {NewWatchdog, NoWatchdog} PROVE StampInv'
    BY <1>2 DEF StampInv, Stamping, NewWatchdog, NoWatchdog
  <1>3. CASE LoopExpired
    <2>1. CASE Return("error")
      BY <1>2, <2>1 DEF Return
    <2>2. CASE watchdog' = [watchdog EXCEPT !.fired = TRUE] /\ main' = main
      <3>1. (Stamping' <=> Stamping) /\ UNCHANGED <<exitSeen, main, hist>>
        BY <1>0, <1>3, <2>2 DEF LoopExpired, Stamping, Watchdogs, chanVars
      <3> QED BY <1>0, <3>1 DEF StampInv
    <2> QED BY <1>3, <2>1, <2>2 DEF LoopExpired
  <1>4. CASE RemoveFiles
    <2>1. watchdog' = Rearm(watchdog)
      BY <1>4 DEF RemoveFiles
    <2>2. ~ Stamping'
      BY <1>0, <2>1 DEF Rearm, Stamping
    <2> QED BY <2>2 DEF StampInv
  <1>5. CASE TrackerSees
    BY <1>5 DEF TrackerSees, StampInv, chanVars
  <1>6. CASE TrackerStamps
    <2>1. PICK g \in watchdog.stampers : watchdog' = Stamp(watchdog, g)
      BY <1>6 DEF TrackerStamps
    <2>2. PICK b \in BOOLEAN : (b <=> watchdog.at \/ g = watchdog.gen) /\ watchdog'.at = b
      BY <1>0, <2>1 DEF Stamp, Watchdogs
    <2>3. watchdog'.gen = watchdog.gen /\ watchdog'.stampers \subseteq watchdog.stampers
      BY <1>0, <2>1 DEF Stamp, Watchdogs
    <2>4. Stamping' => Stamping
      BY <2>1, <2>2, <2>3 DEF Stamping
    <2>5. UNCHANGED <<exitSeen, main, hist>>
      BY <1>6 DEF TrackerStamps, chanVars
    <2> QED BY <1>0, <2>4, <2>5 DEF StampInv
  <1>7. CASE ClearSignals \/ Teardown
    BY <1>7 DEF ClearSignals, Teardown, StampInv, Over
  <1>8. CASE Restore
    BY <1>1, <1>2, <1>8 DEF Restore, Over, chanVars
  <1>9. CASE ListenExit
    <2>1. exitSeen' # NoBoot
      BY <1>9, HeadIsMessage, Values DEF ListenExit, Accepts, TypeInv
    <2> QED BY <2>1 DEF StampInv
  <1>10. CASE Signal \/ DrainEnds \/ Spawn \/ SpawnFails
    <2>1. hist'.late <=> hist.late
      BY <1>0, <1>10, HistOfSignal, HistOfDrain, HistOfSpawn, HistOfSpawnFails DEF HistKept
    <2> QED BY <1>1, <1>2, <1>10, <2>1 DEF Signal, DrainEnds, Spawn, SpawnFails, Decided, Return, Over, chanVars
  <1>11. CASE GuestHears \/ GuestGivesUp \/ GuestSends
    <2>1. hist'.late <=> hist.late
      BY <1>0, <1>11, HistOfLaunch, HistOfSends DEF HistKept, GuestHears, GuestGivesUp, GuestSends
    <2> QED BY <1>1, <1>11, <2>1 DEF GuestHears, GuestGivesUp, GuestSends, guestOnly
  <1>12. CASE Publish \/ LoopCancelled \/ ReadExitCode \/ CacheCancelled \/ CacheBalloon \/ CacheNotTaken \/ CacheExisting \/ CacheResumed
              \/ StartupCancelled \/ StartupBalloon
    <2>1. UNCHANGED watchdog \/ watchdog' \in {NewWatchdog, NoWatchdog}
      BY <1>12 DEF Publish, LoopCancelled, ReadExitCode, CacheCancelled, CacheBalloon, CacheNotTaken, CacheExisting, CacheResumed,
         StartupCancelled, StartupBalloon, Doom, Continue, Return
    <2>2. UNCHANGED <<hist, exitSeen>>
      BY <1>12 DEF Publish, LoopCancelled, ReadExitCode, CacheCancelled, CacheBalloon, CacheNotTaken, CacheExisting, CacheResumed,
         StartupCancelled, StartupBalloon, chanVars
    <2>3. main \notin Over \cup {"files"}
      BY <1>12 DEF Publish, LoopCancelled, ReadExitCode, CacheCancelled, CacheBalloon, CacheNotTaken, CacheExisting, CacheResumed,
         StartupCancelled, StartupBalloon, Over
    <2> QED BY <1>1, <1>2, <2>1, <2>2, <2>3
  <1>13. CASE Precheck \/ ClaimPublication \/ LoopExited \/ DropChannels \/ ResetVerdict \/ LoopCache
              \/ CachePause \/ CacheAck \/ LoopStartup \/ StartupPause \/ StartupAck \/ StopListener
    BY <1>1, <1>13 DEF Precheck, ClaimPublication, LoopExited, DropChannels, ResetVerdict, LoopCache,
       CachePause, CacheAck, LoopStartup, StartupPause, StartupAck, StopListener, Decided, Sever,
       hostVars, askVars, chanVars, healthVars, guestVars, Over
  <1>14. CASE ListenReady \/ ListenReboot \/ ListenDrain \/ ListenAsk \/ ListenResolved
              \/ MonitorChecks \/ MonitorAcked \/ MonitorPersists \/ GuestAsks \/ ContainerExits
              \/ GuestReboots \/ GuestStops
    BY <1>1, <1>14 DEF ListenReady, ListenReboot, ListenDrain, ListenAsk, ListenResolved,
       MonitorChecks, MonitorAcked, MonitorPersists, GuestAsks, ContainerExits, GuestReboots,
       GuestStops, Accepts, Answer, Connect, hostVars, askVars, chanVars, healthVars, guestVars,
       guestOnly, Over
  <1>15. CASE OtherSnapshot \/ Finished \/ UNCHANGED vars
    BY <1>1, <1>15 DEF OtherSnapshot, Finished, Sever, hostVars, askVars, chanVars, healthVars,
       guestVars, vars, guestOnly, Over
  <1> QED BY <1>3, <1>4, <1>5, <1>6, <1>7, <1>8, <1>9, <1>10, <1>11, <1>12, <1>13, <1>14, <1>15 DEF Next, MainStep, ListenerStep, GuestStep

-----------------------------------------------------------------------------
(* The invariant holds, and what it says of the properties. *)

LEMMA LoopInit == Init => LoopInv
  <1> SUFFICES ASSUME Init PROVE LoopInv
    OBVIOUS
  <1>1. TypeInv
    BY TypeInit
  <1>2. /\ DOMAIN backlog = {} /\ backlog = <<>> /\ \A m : ~ Sent(m)
    BY DEF Init, Sent
  <1>3. RebootInv
    <2>1. OneReboot
      BY <1>2 DEF OneReboot
    <2> QED BY <1>2, <2>1, Values DEF Init, RebootInv, Limit, Relaunching
  <1>4. WatchInv /\ StampInv
    BY DEF Init, WatchInv, StampInv, Stamping, NoWatchdog, NewWatchdog
  <1>5. CloneInv /\ DownInv
    BY DEF Init, CloneInv, DownInv
  <1>6. GateInv /\ VerdictInv
    BY DEF Init, GateInv, VerdictInv
  <1>7. HealthInv
    BY <1>2 DEF Init, HealthInv
  <1>8. MessageInv
    BY <1>2 DEF MessageInv
  <1>9. DrainInv /\ RebootSeen
    BY DEF Init, DrainInv, RebootSeen, Over
  <1>10. ExitInv
    BY DEF Init, ExitInv, Over, Relaunching
  <1> QED BY <1>1, <1>3, <1>4, <1>5, <1>6, <1>7, <1>8, <1>9, <1>10 DEF LoopInv

LEMMA LoopStep == LoopInv /\ [Next]_vars => LoopInv'
  <1> SUFFICES ASSUME LoopInv, [Next]_vars PROVE LoopInv'
    OBVIOUS
  <1>0. /\ TypeInv /\ RebootInv /\ WatchInv /\ CloneInv /\ DownInv /\ GateInv /\ VerdictInv
        /\ HealthInv /\ MessageInv /\ DrainInv /\ RebootSeen /\ ExitInv /\ StampInv
    BY DEF LoopInv
  <1>1. TypeInv'
    <2>1. HostType' /\ AskType' /\ ChanType'
      BY <1>0, HostTypeStep, AskTypeStep, ChanTypeStep
    <2>2. TaskType' /\ GuestType' /\ HistType'
      BY <1>0, TaskTypeStep, GuestTypeStep, HistTypeStep
    <2> QED BY <2>1, <2>2 DEF TypeInv
  <1>2. RebootInv' /\ WatchInv' /\ CloneInv' /\ DownInv'
    BY <1>0, RebootInvStep, WatchInvStep, CloneInvStep, DownInvStep
  <1>3. GateInv' /\ VerdictInv' /\ HealthInv'
    BY <1>0, GateInvStep, VerdictInvStep, HealthInvStep
  <1>4. MessageInv' /\ DrainInv' /\ RebootSeen'
    BY <1>0, MessageInvStep, DrainInvStep, RebootSeenStep
  <1>5. ExitInv' /\ StampInv'
    BY <1>0, ExitInvStep, StampInvStep
  <1> QED BY <1>1, <1>2, <1>3, <1>4, <1>5 DEF LoopInv

LEMMA LoopInvariant == Spec => []LoopInv
  BY LoopInit, LoopStep, PTL DEF Spec

(* Type correctness of the run loop and the tasks beside it: a reboot      *)
(* never goes past the boots this process may make, nor the watchdog's     *)
(* generation past the boot it guards, and an unresolved request is one    *)
(* that the listener is blocked on (run_vm_loop, run_status_listener).     *)
THEOREM RunLoopTypes == Spec => []TypeOK
  <1>1. LoopInv => TypeOK
    BY DEF LoopInv, TypeInv, TypeOK, HostType, AskType, ChanType, TaskType, GuestType, Watchdogs
  <1> QED BY <1>1, LoopInvariant, PTL

(* Whatever the interleaving of the handler with the main task, a signal   *)
(* that finds the gate in setup keeps readiness from being published, the  *)
(* restore of a convergence and its new gate included                      *)
(* (LifecycleReadyGate::publish).                                          *)
THEOREM CancelledStaysUnready == Spec => []CancelledNeverReady
  <1>1. LoopInv => CancelledNeverReady
    BY DEF LoopInv, GateInv, CancelledNeverReady
  <1> QED BY <1>1, LoopInvariant, PTL

(* A guest whose VM is doomed has not started its container, over any      *)
(* number of cut asks and repeated answers, but for one that gave up its   *)
(* handshake (run_vm_loop, run_status_listener).                           *)
THEOREM ContainerRunsOnce == Spec => []NoDoubleRun
  <1>1. LoopInv => NoDoubleRun
    BY DEF LoopInv, VerdictInv, NoDoubleRun
  <1> QED BY <1>1, LoopInvariant, PTL

(* Healthy is not to be read while the run loop holds the vCPUs stopped    *)
(* for either snapshot, but for a guest that gave up its handshake         *)
(* (spawn_health_monitor_full).                                            *)
THEOREM PausedNotHealthy == Spec => []HealthyNotPaused
  <1>1. LoopInv => HealthyNotPaused
    BY DEF LoopInv, VerdictInv, HealthInv, HealthyNotPaused, Paused
  <1> QED BY <1>1, LoopInvariant, PTL

(* A run ends on a reboot its guest announced only for one of the reasons  *)
(* RebootHonoured lists: the probe of the drain is behind the announcement *)
(* in the listener's queue (wait_for_reboot_decision).                     *)
THEOREM RebootsAnswered == Spec => []RebootHonoured
  <1>1. LoopInv => RebootHonoured
    BY DEF LoopInv, TypeInv, HostType, CloneInv, RebootSeen, RebootHonoured, Over
  <1> QED BY <1>1, LoopInvariant, PTL

(* The exit code a run reports is of its last boot, and one that was sent  *)
(* is reported, but for the exceptions ExitCodeIsCurrent lists             *)
(* (read_container_exit_code).                                             *)
THEOREM ExitCodesCurrent == Spec => []ExitCodeIsCurrent
  <1>1. LoopInv => ExitCodeIsCurrent
    BY DEF LoopInv, ExitInv, ExitCodeIsCurrent, Over
  <1> QED BY <1>1, LoopInvariant, PTL

(* The deadline that kills a guest is of that guest's own exit, unless an  *)
(* old guest's exit was handled late: no stamp of an earlier generation    *)
(* counts (DeadlineState::stamp_if_current).                               *)
THEOREM WatchdogKillsOwn == Spec => []WatchdogSparesRelaunched
  <1>1. LoopInv => WatchdogSparesRelaunched
    BY DEF LoopInv, StampInv, Stamping, ExitInv, WatchdogSparesRelaunched, Over
  <1> QED BY <1>1, LoopInvariant, PTL
=============================================================================
