-------------------------- MODULE SnapshotBoundary --------------------------
(***************************************************************************)
(* The pause of one VM for a memory snapshot, and the exec sessions that   *)
(* live through it.                                                        *)
(*                                                                         *)
(* The creator (create_snapshot_core and create_snapshot_ch in             *)
(* src/src/commands/common.rs; the per-VM snapshot lock admits one at a    *)
(* time) closes the guest's network gate, pauses the VM, saves its memory,  *)
(* copies its disks, bumps the persisted vsock epoch, resumes the VM and   *)
(* reopens the gate.  The save cuts every vsock connection silently: reads *)
(* on either side just block.                                              *)
(*                                                                         *)
(* An exec client (src/src/commands/exec.rs) opens a connection, reads the *)
(* epoch, sends its request, waits a bounded time for ACK and sends GO.    *)
(* Before ACK it may start over on a new connection; after GO it never     *)
(* does, and an epoch that moved tells it that its connection is dead.     *)
(* The guest's side of a connection is fc-agent/src/exec.rs.               *)
(***************************************************************************)
EXTENDS Integers

CONSTANTS Sessions,          \* exec calls
          MaxAttempts,       \* MAX_ACK_ATTEMPTS
          MaxCreates,        \* bound: snapshots taken
          MaxWork,           \* bound: steps of the guest's own work
          Dispositions,      \* of SnapshotSourceDisposition
          MaxFaults          \* bound: steps of creators that fail

ASSUME BoundaryAssumption ==
    /\ MaxAttempts \in Nat \ {0} /\ MaxCreates \in Nat /\ MaxWork \in Nat
    /\ Dispositions \subseteq {"Resume", "LeavePaused"}
    /\ MaxFaults \in Nat

Attempts == 1 .. MaxAttempts

VARIABLES run, gate,     \* the VM runs or is paused; the guest's new-flow gate
          work,          \* what memory and disk hold: the guest changes them together
          epoch,         \* vsock_epoch in the state file
          cpc, disp, opErr, recErr,   \* the creator, and the errors it has met
          art, pub,      \* the snapshot being built, and the last one published
          result,        \* how the last create returned
          creates,       \* the creates begun; the last one's number
          faults,        \* the steps of creators that have failed
          bumped, resumed,   \* history: the last create that bumped, that resumed
          spc, attempt, base, outcome,   \* an exec session
          conn,          \* its connections, one per attempt
          execs,         \* history: how often its command was started
          born           \* history: resumed when its connection was made

creatorVars == <<cpc, disp, opErr, recErr, art, pub, result, creates,
                 faults, bumped, resumed>>
sessionVars == <<spc, attempt, base, outcome, born>>
vars == <<run, gate, work, epoch, creatorVars, sessionVars, conn, execs>>

NoArt == [mem |-> -1, disk |-> -1, gate |-> "open"]
Arts == [mem : -1 .. MaxWork, disk : -1 .. MaxWork, gate : {"open", "closed"}]

CreatorPCs == {"idle", "prepare", "pause", "save", "disk", "bump", "resume", "reopen",
               "combine", "publish"}
SessionPCs == {"start", "connect", "capture", "send", "ack", "wait", "done"}
Outcomes == {"none", "exited", "closed", "orphaned", "unacked", "rejected", "unreachable"}

(* A connection: whether it is up; where the guest's handler is; and the lines
   on it that have not been read. *)
Conns == [link : {"none", "up", "cut", "closed"},
          guest : {"none", "accepted", "acked", "running", "ended"},
          req : BOOLEAN, reply : {"none", "ACK", "Error"}, go : BOOLEAN, exit : BOOLEAN]
NoConn == [link |-> "none", guest |-> "none",
           req |-> FALSE, reply |-> "none", go |-> FALSE, exit |-> FALSE]

TypeOK ==
    /\ run \in {"running", "paused"} /\ gate \in {"open", "closed"}
    /\ work \in 0 .. MaxWork /\ epoch \in 0 .. MaxCreates
    /\ cpc \in CreatorPCs /\ disp \in {"Resume", "LeavePaused"}
    /\ opErr \in BOOLEAN /\ recErr \in BOOLEAN
    /\ art \in Arts /\ pub \in Arts
    /\ result \in {"none", "ok", "err", "err_recovery"}
    /\ faults \in 0 .. MaxFaults
    /\ creates \in 0 .. MaxCreates /\ bumped \in 0 .. MaxCreates /\ resumed \in 0 .. MaxCreates
    /\ spc \in [Sessions -> SessionPCs] /\ attempt \in [Sessions -> 0 .. MaxAttempts]
    /\ base \in [Sessions -> 0 .. MaxCreates] /\ born \in [Sessions -> 0 .. MaxCreates]
    /\ outcome \in [Sessions -> Outcomes]
    /\ conn \in [Sessions -> [Attempts -> Conns]]
    /\ execs \in [Sessions -> 0 .. MaxAttempts]

Init ==
    /\ run = "running" /\ gate = "open" /\ work = 0 /\ epoch = 0
    /\ cpc = "idle" /\ disp = "Resume" /\ opErr = FALSE /\ recErr = FALSE
    /\ art = NoArt /\ pub = NoArt /\ result = "none" /\ creates = 0
    /\ faults = 0 /\ bumped = 0 /\ resumed = 0
    /\ spc = [s \in Sessions |-> "start"] /\ attempt = [s \in Sessions |-> 0]
    /\ base = [s \in Sessions |-> 0] /\ born = [s \in Sessions |-> 0]
    /\ outcome = [s \in Sessions |-> "none"]
    /\ conn = [s \in Sessions |-> [k \in Attempts |-> NoConn]]
    /\ execs = [s \in Sessions |-> 0]

(* The guest changes its memory and disk. *)
GuestWork ==
    /\ run = "running" /\ work < MaxWork
    /\ work' = work + 1
    /\ UNCHANGED <<run, gate, epoch, creatorVars, sessionVars, conn, execs>>

-----------------------------------------------------------------------------
(* The creator.                                                            *)

(* How one of its calls goes: well, or with an error. *)
Succeeds == UNCHANGED faults
Fails == faults < MaxFaults /\ faults' = faults + 1

(* Mutant: the disks are copied after the resume. *)
After_DiskLast(pc) ==
    CASE pc = "save" -> "bump" [] pc = "bump" -> "resume" [] pc = "resume" -> "disk"
      [] pc = "disk" -> "reopen" [] OTHER -> "combine"

(* Mutant: the epoch is bumped after the resume. *)
After_BumpLast(pc) ==
    CASE pc = "save" -> "disk" [] pc = "disk" -> "resume" [] pc = "resume" -> "bump"
      [] pc = "bump" -> "reopen" [] OTHER -> "combine"

(* The order of the steps inside the pause. *)
After(pc) ==
    CASE pc = "save" -> "disk" [] pc = "disk" -> "bump" [] pc = "bump" -> "resume"
      [] pc = "resume" -> "reopen" [] OTHER -> "combine"

create_snapshot_core(d) ==
    /\ cpc = "idle" /\ creates < MaxCreates /\ run = "running"
    /\ cpc' = "prepare" /\ disp' = d /\ creates' = creates + 1
    /\ opErr' = FALSE /\ recErr' = FALSE /\ art' = NoArt /\ result' = "none"
    /\ UNCHANGED <<run, gate, work, epoch, pub, faults, bumped, resumed, sessionVars, conn, execs>>

(* Mutant: a failed preparation is taken for one that did nothing. *)
PrepareFailed_NoRecovery == opErr' = TRUE /\ cpc' = "combine"

(* A failed command may have closed the gate: it is reopened, whatever the
   disposition. *)
PrepareFailed == opErr' = TRUE /\ cpc' = "reopen"

(* --prepare-snapshot-network in the guest. *)
Prepare ==
    /\ cpc = "prepare"
    /\ \/ Succeeds /\ gate' = "closed" /\ cpc' = "pause" /\ UNCHANGED <<opErr, disp>>
       \/ Fails /\ gate' \in {gate, "closed"} /\ disp' = "Resume" /\ PrepareFailed
    /\ UNCHANGED <<run, work, epoch, recErr, art, pub, result, creates, bumped, resumed, sessionVars, conn, execs>>

(* A failed pause may have paused the VM: the epoch is bumped and the VM is
   resumed, whatever the disposition. *)
Pause ==
    /\ cpc = "pause"
    /\ \/ Succeeds /\ run' = "paused" /\ cpc' = "save" /\ UNCHANGED <<opErr, disp>>
       \/ Fails /\ run' \in {run, "paused"} /\ opErr' = TRUE /\ disp' = "Resume" /\ cpc' = "bump"
    /\ UNCHANGED <<gate, work, epoch, recErr, art, pub, result, creates, bumped, resumed, sessionVars, conn, execs>>

(* The transport reset: what the guest has not read is lost; lines for the client
   survive if they have reached the host. *)
Cut(c, arrived) ==
    IF c.link # "up" THEN c
    ELSE [c EXCEPT !.link = "cut", !.req = FALSE, !.go = FALSE,
                   !.reply = IF arrived THEN @ ELSE "none", !.exit = @ /\ arrived]

CutAll ==
    \E A \in SUBSET Sessions :
        conn' = [s \in Sessions |-> [k \in Attempts |-> Cut(conn[s][k], s \in A)]]

(* The balloon is read and the memory saved, in full again if the diff is too
   small.  A failure skips the disks; it may come before or after the reset. *)
Save ==
    /\ cpc = "save"
    /\ \/ /\ Succeeds /\ art' = [art EXCEPT !.mem = work, !.gate = gate]
          /\ cpc' = After("save") /\ UNCHANGED opErr
          /\ CutAll
       \/ /\ Fails /\ opErr' = TRUE /\ cpc' = "bump"
          /\ CutAll \/ UNCHANGED conn
          /\ UNCHANGED art
    /\ UNCHANGED <<run, gate, work, epoch, disp, recErr, pub, result, creates, bumped, resumed, sessionVars, execs>>

(* reflink_disks_to_snapshot *)
CopyDisks ==
    /\ cpc = "disk"
    /\ \/ Succeeds /\ art' = [art EXCEPT !.disk = work] /\ UNCHANGED opErr
       \/ Fails /\ opErr' = TRUE /\ UNCHANGED art
    /\ cpc' = After("disk")
    /\ UNCHANGED <<run, gate, work, epoch, disp, recErr, pub, result, creates, bumped, resumed,
                   sessionVars, conn, execs>>

(* The vsock epoch in the state file is bumped: a locked read-modify-write, whose
   failure is logged and fails nothing. *)
record_vsock_reset_for_snapshot ==
    /\ cpc = "bump"
    /\ \/ Succeeds /\ epoch' = epoch + 1 /\ bumped' = creates
       \/ Fails /\ UNCHANGED <<epoch, bumped>>
    /\ cpc' = After("bump")
    /\ UNCHANGED <<run, gate, work, disp, opErr, recErr, art, pub, result, creates, resumed,
                   sessionVars, conn, execs>>

(* A source that is left paused is not resumed. *)
Resume ==
    /\ cpc = "resume"
    /\ \/ disp = "Resume" /\ Succeeds /\ run' = "running" /\ UNCHANGED recErr
       \/ disp = "Resume" /\ Fails /\ recErr' = TRUE /\ run' \in {run, "running"}
       \/ disp = "LeavePaused" /\ UNCHANGED <<run, recErr, faults>>
    /\ cpc' = After("resume") /\ resumed' = creates
    /\ UNCHANGED <<gate, work, epoch, disp, opErr, art, pub, result, creates,
                   bumped, sessionVars, conn, execs>>

(* resume_paused_source, a command in the guest, which must run for it. *)
Reopen ==
    /\ cpc = "reopen"
    /\ \/ disp = "Resume" /\ run = "running" /\ Succeeds /\ gate' = "open" /\ UNCHANGED recErr
       \/ disp = "Resume" /\ run = "running" /\ Fails /\ gate' \in {gate, "open"} /\ recErr' = TRUE
       \/ disp = "Resume" /\ run = "paused" /\ recErr' = TRUE /\ UNCHANGED <<gate, faults>>
       \/ disp = "LeavePaused" /\ UNCHANGED <<gate, recErr, faults>>
    /\ cpc' = After("reopen")
    /\ UNCHANGED <<run, work, epoch, disp, opErr, art, pub, result, creates, bumped, resumed,
                   sessionVars, conn, execs>>

(* combine_snapshot_boundary_results: an error of the operation or of the
   recovery fails the create. *)
Combine ==
    /\ cpc = "combine"
    /\ IF opErr \/ recErr
       THEN cpc' = "idle" /\ result' = IF recErr THEN "err_recovery" ELSE "err"
       ELSE cpc' = "publish" /\ UNCHANGED result
    /\ UNCHANGED <<run, gate, work, epoch, disp, opErr, recErr, art, pub, creates, faults, bumped,
                   resumed, sessionVars, conn, execs>>

(* Merging and publish_snapshot_dir, after the resume. *)
Publish ==
    /\ cpc = "publish"
    /\ cpc' = "idle"
    /\ \/ Succeeds /\ pub' = art /\ result' = "ok"
       \/ Fails /\ result' = "err" /\ UNCHANGED pub
    /\ UNCHANGED <<run, gate, work, epoch, disp, opErr, recErr, art, creates, bumped, resumed,
                   sessionVars, conn, execs>>

Creator ==
    \/ Prepare \/ Pause \/ Save \/ CopyDisks \/ record_vsock_reset_for_snapshot
    \/ Resume \/ Reopen \/ Combine \/ Publish

-----------------------------------------------------------------------------
(* The exec client.                                                        *)

Current(s) == conn[s][attempt[s]]
End(s, o) == spc' = [spc EXCEPT ![s] = "done"] /\ outcome' = [outcome EXCEPT ![s] = o]

run_exec_in_vm(s) ==
    /\ spc[s] = "start"
    /\ spc' = [spc EXCEPT ![s] = "connect"]
    /\ UNCHANGED <<run, gate, work, epoch, creatorVars, attempt, base, outcome, born, conn, execs>>

(* CONNECT is answered by a guest that runs; the client tries it again and again,
   and gives up in the end. *)
connect_to_exec_server(s) ==
    /\ spc[s] = "connect"
    /\ \/ /\ run = "running"
          /\ attempt' = [attempt EXCEPT ![s] = @ + 1]
          /\ conn' = [conn EXCEPT ![s][attempt[s] + 1] =
                         [NoConn EXCEPT !.link = "up", !.guest = "accepted"]]
          /\ born' = [born EXCEPT ![s] = resumed]
          /\ spc' = [spc EXCEPT ![s] = "capture"]
          /\ UNCHANGED outcome
       \/ End(s, "unreachable") /\ UNCHANGED <<attempt, conn, born>>
    /\ UNCHANGED <<run, gate, work, epoch, creatorVars, base, execs>>

(* SnapshotOrphanGuard::capture, after the connection exists and before the
   request is sent, on every attempt. *)
CaptureEpoch(s) ==
    /\ spc[s] = "capture"
    /\ base' = [base EXCEPT ![s] = epoch]
    /\ spc' = [spc EXCEPT ![s] = "send"]
    /\ UNCHANGED <<run, gate, work, epoch, creatorVars, attempt, outcome, born, conn, execs>>

(* The client drops its connection, for the next attempt or with the last error. *)
NextAttempt(s) ==
    /\ conn' = [conn EXCEPT ![s][attempt[s]].link = IF @ = "up" THEN "closed" ELSE @]
    /\ IF attempt[s] < MaxAttempts
       THEN spc' = [spc EXCEPT ![s] = "connect"] /\ UNCHANGED outcome
       ELSE End(s, "unacked")

(* A write to a dead connection may succeed. *)
SendRequest(s) ==
    /\ spc[s] = "send"
    /\ \/ /\ conn' = [conn EXCEPT ![s][attempt[s]].req = Current(s).link = "up"]
          /\ spc' = [spc EXCEPT ![s] = "ack"]
          /\ UNCHANGED outcome
       \/ Current(s).link # "up" /\ NextAttempt(s)
    /\ UNCHANGED <<run, gate, work, epoch, creatorVars, attempt, base, born, execs>>

(* ACK: GO is sent, and the request is never sent again, even if the write of GO
   fails.  An Error line ends the call. *)
RecvReply(s) ==
    /\ spc[s] = "ack" /\ Current(s).reply # "none"
    /\ conn' = [conn EXCEPT ![s][attempt[s]].reply = "none",
                            ![s][attempt[s]].go = Current(s).reply = "ACK" /\ Current(s).link = "up"]
    /\ \/ Current(s).reply = "ACK" /\ spc' = [spc EXCEPT ![s] = "wait"] /\ UNCHANGED outcome
       \/ Current(s).reply = "ACK" /\ Current(s).link # "up" /\ End(s, "closed")
       \/ Current(s).reply = "Error" /\ End(s, "rejected")
    /\ UNCHANGED <<run, gate, work, epoch, creatorVars, attempt, base, born, execs>>

(* No ACK before the deadline, or a connection that closed. *)
NotAcked(s) ==
    /\ spc[s] = "ack"
    /\ NextAttempt(s)
    /\ UNCHANGED <<run, gate, work, epoch, creatorVars, attempt, base, born, execs>>

(* Mutant: a session that lost its connection after GO sends its request again. *)
Orphaned_Resends(s) ==
    IF attempt[s] < MaxAttempts
    THEN spc' = [spc EXCEPT ![s] = "connect"] /\ UNCHANGED outcome
    ELSE End(s, "orphaned")

(* Mutant: it is reported as one that was never acknowledged. *)
Orphaned_AsUnacked(s) == End(s, "unacked")

(* ExecOrphanedBySnapshotPause: the connection is dead and the command may have
   run, so the request is not sent again. *)
Orphaned(s) == End(s, "orphaned")

(* Mutant: an idle read does not look at the epoch. *)
AwaitExit_Unguarded(s) ==
    /\ spc[s] = "wait"
    /\ \/ Current(s).exit /\ End(s, "exited")
       \/ ~Current(s).exit /\ Current(s).link = "closed" /\ End(s, "closed")
    /\ UNCHANGED <<run, gate, work, epoch, creatorVars, attempt, base, born, conn, execs>>

(* The response: the exit frame; the guest's close; or an idle read, after which
   the epoch is compared (EpochGuardedReader). *)
AwaitExit(s) ==
    /\ spc[s] = "wait"
    /\ \/ Current(s).exit /\ End(s, "exited")
       \/ ~Current(s).exit /\ Current(s).link = "closed" /\ End(s, "closed")
       \/ ~Current(s).exit /\ Current(s).link # "closed" /\ epoch # base[s] /\ Orphaned(s)
    /\ UNCHANGED <<run, gate, work, epoch, creatorVars, attempt, base, born, conn, execs>>

Client(s) ==
    \/ connect_to_exec_server(s) \/ CaptureEpoch(s) \/ SendRequest(s) \/ RecvReply(s)
    \/ NotAcked(s) \/ AwaitExit(s)

-----------------------------------------------------------------------------
(* The guest's handler of one connection: read_request_and_handshake, then the
   session.                                                                *)

Handler(s, k, c) ==
    /\ run = "running"
    /\ conn' = [conn EXCEPT ![s][k] = c]
    /\ UNCHANGED <<run, gate, work, epoch, creatorVars, sessionVars>>

(* What the client will read, if the connection still carries it. *)
Line(c, l) == IF c.link = "up" THEN l ELSE "none"

(* The whole request has been read: ACK. *)
GuestReadRequest(s, k) ==
    /\ conn[s][k].guest = "accepted" /\ conn[s][k].req
    /\ Handler(s, k, [conn[s][k] EXCEPT !.guest = "acked", !.req = FALSE,
                                        !.reply = Line(conn[s][k], "ACK")])
    /\ UNCHANGED execs

(* A request that cannot be read as one is answered with an Error line. *)
GuestRejects(s, k) ==
    /\ conn[s][k].guest = "accepted" /\ conn[s][k].req
    /\ Handler(s, k, [conn[s][k] EXCEPT !.guest = "ended", !.req = FALSE,
                                        !.reply = Line(conn[s][k], "Error"),
                                        !.link = IF @ = "up" THEN "closed" ELSE @])
    /\ UNCHANGED execs

(* Only GO starts the command. *)
GuestReadGo(s, k) ==
    /\ conn[s][k].guest = "acked" /\ conn[s][k].go
    /\ Handler(s, k, [conn[s][k] EXCEPT !.guest = "running", !.go = FALSE])
    /\ execs' = [execs EXCEPT ![s] = @ + 1]

(* A handshake that stalls, or whose client went away, ends without executing. *)
GuestGivesUp(s, k) ==
    /\ conn[s][k].guest \in {"accepted", "acked"}
    /\ Handler(s, k, [conn[s][k] EXCEPT !.guest = "ended",
                                        !.link = IF @ = "up" THEN "closed" ELSE @])
    /\ UNCHANGED execs

(* The command ends and its exit code is sent. *)
GuestExit(s, k) ==
    /\ conn[s][k].guest = "running"
    /\ Handler(s, k, [conn[s][k] EXCEPT !.guest = "ended", !.exit = conn[s][k].link = "up"])
    /\ UNCHANGED execs

Guest(s, k) ==
    \/ GuestReadRequest(s, k) \/ GuestRejects(s, k) \/ GuestReadGo(s, k)
    \/ GuestGivesUp(s, k) \/ GuestExit(s, k)

-----------------------------------------------------------------------------
Next ==
    \/ GuestWork
    \/ \E d \in Dispositions : create_snapshot_core(d)
    \/ Creator
    \/ \E s \in Sessions : run_exec_in_vm(s) \/ Client(s)
    \/ \E s \in Sessions, k \in Attempts : Guest(s, k)

Spec == Init /\ [][Next]_vars

(* The creator, the clients and the guest go on with what they have begun, and a
   command that was started ends.  No create and no exec has to begin. *)
FairSpec ==
    /\ Spec
    /\ WF_vars(Creator)
    /\ \A s \in Sessions :
           WF_vars(Client(s)) /\ \A k \in Attempts : WF_vars(Guest(s, k))

-----------------------------------------------------------------------------
(* PROPERTIES                                                              *)

(* An exec call starts its command at most once, although its request may be
   sent on several connections and connections die at any moment. *)
AtMostOnce == \A s \in Sessions : execs[s] <= 1

(* A request that is reported as never acknowledged has not executed and never
   will, whatever its dropped connections still carry: its caller may send it
   again. *)
UnackedNeverRan == \A s \in Sessions : outcome[s] = "unacked" => execs[s] = 0

(* How often the command of an exec call has run is what its caller may conclude
   from connect_and_start_exec: never twice, and not at all without an ACK. *)
RunsAsReported == AtMostOnce /\ UnackedNeverRan

(* A session is aborted as orphaned only for a snapshot whose resume came after its
   connection was made: the epoch is bumped before the resume, so a connection that
   the resumed VM accepts has captured an epoch that already counts that snapshot. *)
NoFalseAbort == \A s \in Sessions : outcome[s] = "orphaned" => born[s] < bumped

(* The memory and the disks of a published snapshot are of one instant, in which
   the guest's gate was closed. *)
OneInstant == pub # NoArt => pub.mem = pub.disk /\ pub.gate = "closed"

(* A create that returns without a recovery error leaves its source running
   behind an open gate, unless it was to leave it paused: whatever step failed,
   the recovery of that step ran. *)
SourceRestored ==
    cpc = "idle" /\ result \in {"ok", "err"} /\ disp = "Resume"
        => run = "running" /\ gate = "open"

(* An exec session ends although snapshots cut its connections: before ACK it is
   sent again, after GO the epoch tells it.  Only a snapshot whose bump failed
   (its resume is later than the last bump) can leave it waiting on a dead
   connection, and then only until the next bump. *)
SessionsEnd == \A s \in Sessions : []<>(spc[s] \in {"start", "done"} \/ resumed > bumped)
=============================================================================
