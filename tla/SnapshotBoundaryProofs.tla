----------------------- MODULE SnapshotBoundaryProofs -----------------------
(***************************************************************************)
(* Proofs about SnapshotBoundary for any number of exec sessions, attempts *)
(* and snapshots.                                                          *)
(*                                                                         *)
(* CreatorInv says what each step of the create has established: up to the *)
(* disk copy the VM is paused behind a closed gate, so memory and disk are *)
(* copied from the same contents; after a step of the recovery its effect  *)
(* holds unless an error was recorded.  SessionInv says that GO is on the  *)
(* current connection only, and only before the command has started.       *)
(* EpochInv ties the epoch a session captured to the creates that were     *)
(* resumed before its connection was made.                                 *)
(***************************************************************************)
EXTENDS SnapshotBoundary, TLAPS

-----------------------------------------------------------------------------
(* The creator.                                                            *)

CreatorType ==
    /\ run \in {"running", "paused"} /\ gate \in {"open", "closed"}
    /\ work \in 0 .. MaxWork
    /\ cpc \in CreatorPCs /\ disp \in {"Resume", "LeavePaused"}
    /\ opErr \in BOOLEAN /\ recErr \in BOOLEAN
    /\ art \in Arts /\ pub \in Arts
    /\ result \in {"none", "ok", "err", "err_recovery"}

(* A create bumps the epoch once, and then resumes once. *)
CounterInv ==
    /\ creates \in 0 .. MaxCreates
    /\ epoch \in 0 .. creates /\ bumped \in 0 .. creates /\ resumed \in 0 .. creates
    /\ cpc \in {"prepare", "pause", "save", "disk", "bump"} => epoch < creates
    /\ cpc \in {"prepare", "pause", "save", "disk", "bump", "resume"} => resumed < creates

(* What is copied is of one instant, as far as the create has come without error. *)
ArtifactInv ==
    /\ cpc = "pause" => gate = "closed"
    /\ cpc \in {"save", "disk"} => run = "paused" /\ gate = "closed"
    /\ cpc = "disk" => art.mem = work /\ art.gate = "closed"
    /\ cpc \in {"bump", "resume", "reopen", "combine", "publish"} /\ ~opErr
           => art.mem = art.disk /\ art.gate = "closed"
    /\ cpc = "publish" => ~opErr

(* What the recovery has restored. *)
RecoveryInv ==
    /\ cpc \in {"prepare", "pause"} => run = "running"
    /\ cpc = "reopen" /\ disp = "Resume" /\ ~recErr => run = "running"
    /\ cpc \in {"combine", "publish"} /\ disp = "Resume" /\ ~recErr
           => run = "running" /\ gate = "open"
    /\ cpc = "publish" => ~recErr

CreatorInv ==
    CreatorType /\ CounterInv /\ ArtifactInv /\ RecoveryInv /\ OneInstant /\ SourceRestored

LEMMA NoArtType == NoArt \in Arts
  <1>1. -1 \in -1 .. MaxWork
    BY BoundaryAssumption
  <1> QED BY <1>1 DEF NoArt, Arts

LEMMA CreatorInit == Init => CreatorInv
  <1> SUFFICES ASSUME Init PROVE CreatorInv
    OBVIOUS
  <1>1. /\ run = "running" /\ gate = "open" /\ work = 0 /\ cpc = "idle" /\ disp = "Resume"
        /\ opErr = FALSE /\ recErr = FALSE /\ art = NoArt /\ pub = NoArt /\ result = "none"
    BY DEF Init
  <1>2. CreatorType
    <2>1. work \in 0 .. MaxWork
      BY <1>1, BoundaryAssumption
    <2> QED BY <1>1, <2>1, NoArtType DEF CreatorType, CreatorPCs
  <1>3. CounterInv
    <2>1. creates = 0 /\ epoch = 0 /\ bumped = 0 /\ resumed = 0
      BY DEF Init
    <2> QED BY <1>1, <2>1, BoundaryAssumption DEF CounterInv
  <1>4. ArtifactInv /\ RecoveryInv /\ OneInstant /\ SourceRestored
    BY <1>1 DEF ArtifactInv, RecoveryInv, OneInstant, SourceRestored
  <1> QED BY <1>2, <1>3, <1>4 DEF CreatorInv

(* The state a session's step leaves alone. *)
LEMMA CreatorFrame ==
    ASSUME CreatorInv, UNCHANGED <<run, gate, work, epoch, creatorVars>> PROVE CreatorInv'
  BY DEF CreatorInv, CreatorType, CounterInv, ArtifactInv, RecoveryInv, OneInstant,
         SourceRestored, creatorVars, Arts, CreatorPCs, NoArt

LEMMA CreatorSteps ==
    ASSUME CreatorInv, Creator \/ GuestWork \/ \E d \in Dispositions : create_snapshot_core(d)
    PROVE  CreatorInv'
  <1> USE BoundaryAssumption
      DEF CreatorInv, CreatorType, CounterInv, ArtifactInv, RecoveryInv, OneInstant,
          SourceRestored, CreatorPCs
  <1>1. CASE GuestWork
    BY <1>1 DEF GuestWork, creatorVars, Arts, NoArt
  <1>2. ASSUME NEW d \in Dispositions, create_snapshot_core(d) PROVE CreatorInv'
    <2>1. CreatorType'
      BY <1>2, NoArtType DEF create_snapshot_core
    <2>2. CounterInv'
      BY <1>2 DEF create_snapshot_core
    <2>3. ArtifactInv' /\ RecoveryInv' /\ OneInstant' /\ SourceRestored'
      BY <1>2 DEF create_snapshot_core
    <2> QED BY <2>1, <2>2, <2>3
  <1>3. CASE Prepare
    <2>1. CreatorType'
      BY <1>3 DEF Prepare, PrepareFailed
    <2>2. CounterInv'
      BY <1>3 DEF Prepare, PrepareFailed
    <2>3. ArtifactInv' /\ RecoveryInv' /\ OneInstant' /\ SourceRestored'
      BY <1>3 DEF Prepare, PrepareFailed
    <2> QED BY <2>1, <2>2, <2>3
  <1>4. CASE Pause
    <2>1. CreatorType'
      BY <1>4 DEF Pause
    <2>2. CounterInv'
      BY <1>4 DEF Pause
    <2>3. ArtifactInv' /\ RecoveryInv' /\ OneInstant' /\ SourceRestored'
      BY <1>4 DEF Pause
    <2> QED BY <2>1, <2>2, <2>3
  <1>5. CASE Save
    <2>1. art' \in Arts
      <3>0. work \in -1 .. MaxWork /\ gate \in {"open", "closed"} /\ art \in Arts
        OBVIOUS
      <3>1. [art EXCEPT !.mem = work, !.gate = gate] \in Arts
        BY ONLY <3>0 DEF Arts
      <3> QED BY <1>5, <3>1 DEF Save
    <2> QED BY <1>5, <2>1 DEF Save, After, Arts
  <1>6. CASE CopyDisks
    <2>1. art' \in Arts
      BY <1>6 DEF CopyDisks, Arts
    <2> QED BY <1>6, <2>1 DEF CopyDisks, After, Arts
  <1>7. CASE record_vsock_reset_for_snapshot
    <2>1. CreatorType'
      BY <1>7 DEF record_vsock_reset_for_snapshot, After
    <2>2. CounterInv'
      BY <1>7 DEF record_vsock_reset_for_snapshot, After
    <2>3. ArtifactInv' /\ RecoveryInv' /\ OneInstant' /\ SourceRestored'
      BY <1>7 DEF record_vsock_reset_for_snapshot, After
    <2> QED BY <2>1, <2>2, <2>3
  <1>8. CASE Resume
    <2>1. CreatorType'
      BY <1>8 DEF Resume, After
    <2>2. CounterInv'
      BY <1>8 DEF Resume, After
    <2>3. ArtifactInv' /\ RecoveryInv' /\ OneInstant' /\ SourceRestored'
      BY <1>8 DEF Resume, After
    <2> QED BY <2>1, <2>2, <2>3
  <1>9. CASE Reopen
    <2>1. CreatorType'
      BY <1>9 DEF Reopen, After
    <2>2. CounterInv'
      BY <1>9 DEF Reopen, After
    <2>3. ArtifactInv' /\ RecoveryInv' /\ OneInstant' /\ SourceRestored'
      BY <1>9 DEF Reopen, After
    <2> QED BY <2>1, <2>2, <2>3
  <1>10. CASE Combine
    <2>1. CreatorType'
      BY <1>10 DEF Combine
    <2>2. CounterInv'
      BY <1>10 DEF Combine
    <2>3. ArtifactInv' /\ RecoveryInv' /\ OneInstant' /\ SourceRestored'
      BY <1>10 DEF Combine
    <2> QED BY <2>1, <2>2, <2>3
  <1>11. CASE Publish
    <2>1. CreatorType'
      BY <1>11 DEF Publish
    <2>2. CounterInv'
      BY <1>11 DEF Publish
    <2>3. ArtifactInv' /\ RecoveryInv' /\ OneInstant' /\ SourceRestored'
      BY <1>11 DEF Publish
    <2> QED BY <2>1, <2>2, <2>3
  <1> QED
    BY <1>1, <1>2, <1>3, <1>4, <1>5, <1>6, <1>7, <1>8, <1>9, <1>10, <1>11 DEF Creator

-----------------------------------------------------------------------------
(* The sessions.                                                           *)

SessionType ==
    /\ spc \in [Sessions -> SessionPCs] /\ attempt \in [Sessions -> 0 .. MaxAttempts]
    /\ base \in [Sessions -> Nat] /\ born \in [Sessions -> Nat]
    /\ outcome \in [Sessions -> Outcomes]
    /\ conn \in [Sessions -> [Attempts -> Conns]]
    /\ execs \in [Sessions -> {0, 1}]

(* GO stands on the current connection only, while the command has not started. *)
SessionInv ==
    \A s \in Sessions :
        /\ spc[s] \in {"capture", "send", "ack", "wait"} => attempt[s] \in Attempts
        /\ spc[s] \in {"start", "connect"} => attempt[s] < MaxAttempts
        /\ spc[s] # "done" => outcome[s] = "none"
        /\ spc[s] \notin {"wait", "done"} => execs[s] = 0
        /\ outcome[s] = "unacked" => execs[s] = 0
        /\ \A k \in Attempts :
               conn[s][k].go
                   => /\ k = attempt[s] /\ spc[s] \in {"wait", "done"}
                      /\ execs[s] = 0 /\ outcome[s] # "unacked"

(* An epoch that moved since a session captured it was bumped by a create that had
   not been resumed when its connection was made. *)
EpochInv ==
    \A s \in Sessions :
        /\ base[s] <= epoch /\ born[s] <= resumed
        /\ spc[s] \in {"send", "ack", "wait"} /\ base[s] < epoch => born[s] < bumped
        /\ outcome[s] = "orphaned" => born[s] < bumped

BoundaryInv == CreatorInv /\ SessionType /\ SessionInv /\ EpochInv

LEMMA NoConnType == NoConn \in Conns
  BY DEF NoConn, Conns

LEMMA BoundaryInit == Init => BoundaryInv
  <1> SUFFICES ASSUME Init PROVE SessionType /\ SessionInv /\ EpochInv
    BY CreatorInit DEF BoundaryInv
  <1>1. /\ spc = [s \in Sessions |-> "start"] /\ attempt = [s \in Sessions |-> 0]
        /\ base = [s \in Sessions |-> 0] /\ born = [s \in Sessions |-> 0]
        /\ outcome = [s \in Sessions |-> "none"] /\ execs = [s \in Sessions |-> 0]
        /\ conn = [s \in Sessions |-> [k \in Attempts |-> NoConn]]
        /\ epoch = 0 /\ resumed = 0
    BY DEF Init
  <1>2. SessionType
    <2>1. 0 \in 0 .. MaxAttempts
      BY BoundaryAssumption
    <2>2. conn \in [Sessions -> [Attempts -> Conns]]
      BY ONLY <1>1, NoConnType
    <2> QED BY <1>1, <2>1, <2>2 DEF SessionType, SessionPCs, Outcomes
  <1>3. SessionInv
    <2>1. \A s \in Sessions, k \in Attempts : conn[s][k].go = FALSE
      BY ONLY <1>1 DEF NoConn
    <2>2. 0 < MaxAttempts
      BY BoundaryAssumption
    <2> QED BY <1>1, <2>1, <2>2 DEF SessionInv
  <1>4. EpochInv
    <2>1. \A s \in Sessions : /\ spc[s] = "start" /\ outcome[s] = "none"
                             /\ base[s] = 0 /\ born[s] = 0
      BY <1>1
    <2>2. epoch = 0 /\ resumed = 0 /\ bumped = 0
      BY DEF Init
    <2> SUFFICES ASSUME NEW s \in Sessions
                 PROVE  base[s] <= epoch /\ born[s] <= resumed
      BY <2>1 DEF EpochInv
    <2> QED BY <2>1, <2>2
  <1> QED BY <1>2, <1>3, <1>4

(* Steps of the creator other than the save and the bump. *)
LEMMA SessionFrame ==
    ASSUME BoundaryInv, UNCHANGED <<sessionVars, conn, execs>>,
           epoch' = epoch, bumped' = bumped, resumed' \in Nat, resumed <= resumed'
    PROVE  SessionType' /\ SessionInv' /\ EpochInv'
  <1>1. SessionType' /\ SessionInv'
    BY DEF BoundaryInv, SessionType, SessionInv, sessionVars
  <1>2. EpochInv'
    BY DEF BoundaryInv, CreatorInv, CounterInv, SessionType, EpochInv, sessionVars
  <1> QED BY <1>1, <1>2

(* The reset delivers no GO. *)
LEMMA CutType ==
    ASSUME NEW c \in Conns, NEW a \in BOOLEAN
    PROVE  Cut(c, a) \in Conns /\ (Cut(c, a).go => c.go)
  BY DEF Cut, Conns

LEMMA SaveSessions ==
    ASSUME BoundaryInv, Save PROVE SessionType' /\ SessionInv' /\ EpochInv'
  <1>1. UNCHANGED <<sessionVars, execs, epoch, bumped, resumed>>
    BY DEF Save
  <1>2. CASE UNCHANGED conn
    BY <1>1, <1>2, SessionFrame DEF BoundaryInv, CreatorInv, CounterInv
  <1>3. CASE CutAll
    <2>1. PICK A \in SUBSET Sessions :
              conn' = [s \in Sessions |-> [k \in Attempts |-> Cut(conn[s][k], s \in A)]]
      BY <1>3 DEF CutAll
    <2>2. \A s \in Sessions, k \in Attempts :
              conn'[s][k] \in Conns /\ (conn'[s][k].go => conn[s][k].go)
      <3> TAKE s \in Sessions, k \in Attempts
      <3>1. conn[s][k] \in Conns /\ (s \in A) \in BOOLEAN
        BY DEF BoundaryInv, SessionType
      <3>2. conn'[s][k] = Cut(conn[s][k], s \in A)
        BY ONLY <2>1
      <3> QED BY <3>1, <3>2, CutType
    <2>3. SessionType'
      <3>1. conn' \in [Sessions -> [Attempts -> Conns]]
        BY ONLY <2>1, <2>2
      <3> QED BY <1>1, <3>1 DEF BoundaryInv, SessionType, sessionVars
    <2>4. SessionInv'
      BY <1>1, <2>2 DEF BoundaryInv, SessionInv, sessionVars
    <2>5. EpochInv'
      BY <1>1 DEF BoundaryInv, EpochInv, sessionVars
    <2> QED BY <2>3, <2>4, <2>5
  <1> QED BY <1>2, <1>3 DEF Save

(* The bump comes before this create's resume. *)
LEMMA BumpSessions ==
    ASSUME BoundaryInv, record_vsock_reset_for_snapshot
    PROVE  SessionType' /\ SessionInv' /\ EpochInv'
  <1>1. SessionType' /\ SessionInv'
    BY DEF record_vsock_reset_for_snapshot, BoundaryInv, SessionType, SessionInv, sessionVars
  <1>2. EpochInv'
    <2>1. CASE epoch' = epoch /\ bumped' = bumped
      BY <2>1 DEF record_vsock_reset_for_snapshot, BoundaryInv, EpochInv, sessionVars
    <2>2. CASE epoch' = epoch + 1 /\ bumped' = creates
      <3>1. /\ epoch \in Nat /\ bumped \in Nat /\ resumed \in Nat /\ creates \in Nat
            /\ resumed < creates /\ bumped <= creates
        BY DEF record_vsock_reset_for_snapshot, BoundaryInv, CreatorInv, CounterInv
      <3> QED
        BY <2>2, <3>1
        DEF record_vsock_reset_for_snapshot, BoundaryInv, SessionType, EpochInv, sessionVars
    <2> QED BY <2>1, <2>2 DEF record_vsock_reset_for_snapshot
  <1> QED BY <1>1, <1>2

(* One connection changes. *)
LEMMA OneConn ==
    ASSUME SessionType, NEW s \in Sessions, NEW k \in Attempts, NEW c \in Conns,
           conn' = [conn EXCEPT ![s][k] = c]
    PROVE  /\ conn' \in [Sessions -> [Attempts -> Conns]]
           /\ \A r \in Sessions, j \in Attempts :
                  conn'[r][j] = IF r = s /\ j = k THEN c ELSE conn[r][j]
  BY DEF SessionType

LEMMA ConnectSessions ==
    ASSUME BoundaryInv, NEW s \in Sessions, connect_to_exec_server(s)
    PROVE  SessionType' /\ SessionInv' /\ EpochInv'
  <1> USE DEF BoundaryInv
  <1>0. /\ resumed \in Nat /\ MaxAttempts \in Nat /\ attempt[s] \in Nat
        /\ spc[s] = "connect" /\ attempt[s] < MaxAttempts
    BY BoundaryAssumption
    DEF CreatorInv, CounterInv, SessionType, SessionInv, connect_to_exec_server
  <1>1. CASE End(s, "unreachable") /\ UNCHANGED <<attempt, conn, born>>
    <2>1. SessionType' /\ SessionInv'
      BY <1>1, <1>0 DEF connect_to_exec_server, End, SessionType, SessionInv, SessionPCs, Outcomes
    <2>2. EpochInv'
      BY <1>1 DEF connect_to_exec_server, End, SessionType, EpochInv, creatorVars
    <2> QED BY <2>1, <2>2
  <1>2. CASE /\ attempt' = [attempt EXCEPT ![s] = @ + 1]
             /\ conn' = [conn EXCEPT ![s][attempt[s] + 1] =
                            [NoConn EXCEPT !.link = "up", !.guest = "accepted"]]
             /\ born' = [born EXCEPT ![s] = resumed]
             /\ spc' = [spc EXCEPT ![s] = "capture"]
             /\ UNCHANGED outcome
    <2> DEFINE c == [NoConn EXCEPT !.link = "up", !.guest = "accepted"]
               k == attempt[s] + 1
    <2>1. c \in Conns /\ c.go = FALSE
      BY DEF NoConn, Conns
    <2>2. k \in Attempts
      BY <1>0 DEF Attempts
    <2>3. /\ conn' \in [Sessions -> [Attempts -> Conns]]
          /\ \A r \in Sessions, j \in Attempts :
                 conn'[r][j] = IF r = s /\ j = k THEN c ELSE conn[r][j]
      <3> HIDE DEF c, k
      <3>1. conn' = [conn EXCEPT ![s][k] = c]
        BY <1>2 DEF c, k
      <3> QED BY <2>1, <2>2, <3>1, OneConn
    <2> HIDE DEF c
    <2>4. UNCHANGED <<execs, base, epoch, bumped, resumed>>
      BY DEF connect_to_exec_server, creatorVars
    <2>5. SessionType'
      BY <1>0, <1>2, <2>2, <2>3, <2>4 DEF SessionType, SessionPCs, Attempts
    <2>6. SessionInv'
      <3>1. \A r \in Sessions, j \in Attempts : conn'[r][j].go => conn[r][j].go /\ r # s
        BY <1>0, <2>1, <2>3 DEF SessionInv
      <3> HIDE DEF k
      <3>2. attempt'[s] \in Attempts
        BY <1>2, <2>2 DEF SessionType, k
      <3> QED BY <1>0, <1>2, <2>4, <3>1, <3>2 DEF SessionType, SessionInv
    <2>7. EpochInv'
      BY <1>0, <1>2, <2>4 DEF SessionType, SessionInv, EpochInv
    <2> QED BY <2>5, <2>6, <2>7
  <1> QED BY <1>1, <1>2 DEF connect_to_exec_server

(* Steps of the client before it has a reply. *)
LEMMA StartSessions ==
    ASSUME BoundaryInv, NEW s \in Sessions, run_exec_in_vm(s) \/ CaptureEpoch(s)
    PROVE  SessionType' /\ SessionInv' /\ EpochInv'
  <1> USE DEF BoundaryInv
  <1>0. epoch \in Nat
    BY DEF CreatorInv, CounterInv
  <1>1. CASE run_exec_in_vm(s)
    <2>1. SessionType' /\ SessionInv'
      BY <1>1 DEF run_exec_in_vm, SessionType, SessionInv, SessionPCs
    <2>2. EpochInv'
      BY <1>1 DEF run_exec_in_vm, SessionType, EpochInv, creatorVars
    <2> QED BY <2>1, <2>2
  <1>2. CASE CaptureEpoch(s)
    <2>1. SessionType' /\ SessionInv'
      BY <1>0, <1>2 DEF CaptureEpoch, SessionType, SessionInv, SessionPCs
    <2>2. EpochInv'
      BY <1>0, <1>2 DEF CaptureEpoch, SessionType, EpochInv, creatorVars
    <2> QED BY <2>1, <2>2
  <1> QED BY <1>1, <1>2

LEMMA DropType ==
    ASSUME NEW c \in Conns
    PROVE  /\ [c EXCEPT !.link = IF @ = "up" THEN "closed" ELSE @] \in Conns
           /\ [c EXCEPT !.link = IF @ = "up" THEN "closed" ELSE @].go = c.go
  BY DEF Conns

(* The next attempt leaves every GO as it is. *)
LEMMA NextAttemptSessions ==
    ASSUME BoundaryInv, NEW s \in Sessions, spc[s] \in {"send", "ack"}, NextAttempt(s),
           UNCHANGED <<epoch, creatorVars, attempt, base, born, execs>>
    PROVE  SessionType' /\ SessionInv' /\ EpochInv'
  <1> USE DEF BoundaryInv
  <1>0. attempt[s] \in Attempts /\ MaxAttempts \in Nat /\ execs[s] = 0
    BY BoundaryAssumption DEF SessionInv
  <1> DEFINE c == [conn[s][attempt[s]] EXCEPT !.link = IF @ = "up" THEN "closed" ELSE @]
  <1>1. c \in Conns /\ c.go = conn[s][attempt[s]].go
    <2>1. conn[s][attempt[s]] \in Conns
      BY <1>0 DEF SessionType
    <2> QED BY <2>1, DropType
  <1>2. /\ conn' \in [Sessions -> [Attempts -> Conns]]
        /\ \A r \in Sessions, j \in Attempts : conn'[r][j].go = conn[r][j].go
    <2>1. conn' = [conn EXCEPT ![s][attempt[s]] = c]
      BY <1>0 DEF NextAttempt, SessionType, Conns
    <2> HIDE DEF c
    <2> QED BY <1>0, <1>1, <2>1, OneConn
  <1>3. CASE /\ attempt[s] < MaxAttempts
             /\ spc' = [spc EXCEPT ![s] = "connect"] /\ UNCHANGED outcome
    <2>1. SessionType' /\ SessionInv'
      BY <1>0, <1>2, <1>3 DEF SessionType, SessionInv, SessionPCs
    <2>2. EpochInv'
      BY <1>3 DEF SessionType, EpochInv, creatorVars
    <2> QED BY <2>1, <2>2
  <1>4. CASE End(s, "unacked")
    <2>0. spc' = [spc EXCEPT ![s] = "done"] /\ outcome' = [outcome EXCEPT ![s] = "unacked"]
      BY <1>4 DEF End
    <2>1. SessionType'
      BY <1>2, <2>0 DEF SessionType, SessionPCs, Outcomes
    <2>2. SessionInv'
      <3>1. \A k \in Attempts : ~conn'[s][k].go
        BY <1>2 DEF SessionInv
      <3> QED BY <1>0, <1>2, <2>0, <3>1 DEF SessionType, SessionInv
    <2>3. EpochInv'
      <3>1. /\ spc' = [spc EXCEPT ![s] = "done"] /\ outcome' = [outcome EXCEPT ![s] = "unacked"]
            /\ UNCHANGED <<epoch, bumped, resumed, base, born>>
        BY <1>4 DEF End, creatorVars
      <3> QED BY ONLY <3>1, BoundaryInv DEF BoundaryInv, SessionType, EpochInv
    <2> QED BY <2>1, <2>2, <2>3
  <1> QED BY <1>3, <1>4 DEF NextAttempt

LEMMA SendSessions ==
    ASSUME BoundaryInv, NEW s \in Sessions, SendRequest(s) \/ NotAcked(s)
    PROVE  SessionType' /\ SessionInv' /\ EpochInv'
  <1> USE DEF BoundaryInv
  <1>1. CASE NotAcked(s)
    BY <1>1, NextAttemptSessions DEF NotAcked
  <1>2. CASE SendRequest(s) /\ NextAttempt(s)
    BY <1>2, NextAttemptSessions DEF SendRequest
  <1>3. CASE /\ SendRequest(s) /\ UNCHANGED outcome
             /\ conn' = [conn EXCEPT ![s][attempt[s]].req = Current(s).link = "up"]
             /\ spc' = [spc EXCEPT ![s] = "ack"]
    <2>0. spc[s] = "send" /\ attempt[s] \in Attempts
      BY <1>3 DEF SendRequest, SessionInv
    <2> DEFINE c == [conn[s][attempt[s]] EXCEPT !.req = Current(s).link = "up"]
    <2>1. c \in Conns /\ c.go = conn[s][attempt[s]].go
      <3>1. conn[s][attempt[s]] \in Conns
        BY <2>0 DEF SessionType
      <3>2. (Current(s).link = "up") \in BOOLEAN
        OBVIOUS
      <3> QED BY ONLY <3>1, <3>2 DEF Conns
    <2>2. /\ conn' \in [Sessions -> [Attempts -> Conns]]
          /\ \A r \in Sessions, j \in Attempts : conn'[r][j].go = conn[r][j].go
      <3>1. conn' = [conn EXCEPT ![s][attempt[s]] = c]
        BY <1>3, <2>0 DEF SessionType, Conns
      <3> HIDE DEF c
      <3> QED BY <2>0, <2>1, <3>1, OneConn
    <2>3. UNCHANGED <<attempt, base, born, execs, epoch, bumped, resumed>>
      BY <1>3 DEF SendRequest, creatorVars
    <2>4. SessionType' /\ SessionInv'
      BY <1>3, <2>0, <2>2, <2>3 DEF SessionType, SessionInv, SessionPCs
    <2>5. EpochInv'
      BY <1>3, <2>0, <2>3 DEF SessionType, EpochInv
    <2> QED BY <2>4, <2>5
  <1> QED BY <1>1, <1>2, <1>3 DEF SendRequest

(* GO is written before the command has started, on the current connection. *)
LEMMA ReplySessions ==
    ASSUME BoundaryInv, NEW s \in Sessions, RecvReply(s)
    PROVE  SessionType' /\ SessionInv' /\ EpochInv'
  <1> USE DEF BoundaryInv
  <1>0. spc[s] = "ack" /\ attempt[s] \in Attempts /\ execs[s] = 0
    BY DEF RecvReply, SessionInv
  <1> DEFINE g == Current(s).reply = "ACK" /\ Current(s).link = "up"
             c == [conn[s][attempt[s]] EXCEPT !.reply = "none", !.go = g]
  <1>1. c \in Conns /\ (c.go => g)
    <2>1. conn[s][attempt[s]] \in Conns
      BY <1>0 DEF SessionType
    <2>2. g \in BOOLEAN
      OBVIOUS
    <2> HIDE DEF g
    <2> QED BY ONLY <2>1, <2>2 DEF Conns, c
  <1>2. /\ conn' \in [Sessions -> [Attempts -> Conns]]
        /\ \A r \in Sessions, j \in Attempts :
               conn'[r][j] = IF r = s /\ j = attempt[s] THEN c ELSE conn[r][j]
    <2>1. conn' = [conn EXCEPT ![s][attempt[s]] = c]
      BY <1>0 DEF RecvReply, SessionType, Conns
    <2> HIDE DEF c
    <2> QED BY <1>0, <1>1, <2>1, OneConn
  <1>3. \A r \in Sessions, j \in Attempts :
            conn'[r][j].go => conn[r][j].go \/ (r = s /\ j = attempt[s] /\ g)
    <2> HIDE DEF c, g
    <2> QED BY <1>1, <1>2
  <1>4. UNCHANGED <<attempt, base, born, execs, epoch, bumped, resumed>>
    BY DEF RecvReply, creatorVars
  <1>5. PICK o \in {"none", "closed", "rejected"} :
            /\ outcome' = [outcome EXCEPT ![s] = o]
            /\ spc' = [spc EXCEPT ![s] = IF o = "none" THEN "wait" ELSE "done"]
    <2>1. outcome[s] = "none" /\ outcome = [outcome EXCEPT ![s] = "none"]
      BY <1>0 DEF SessionInv, SessionType
    <2> QED BY <2>1 DEF RecvReply, End
  <1> HIDE DEF g, c
  <1>6. SessionType'
    BY <1>2, <1>4, <1>5 DEF SessionType, SessionPCs, Outcomes
  <1>7. SessionInv'
    BY <1>0, <1>3, <1>4, <1>5 DEF SessionType, SessionInv
  <1>8. EpochInv'
    BY <1>0, <1>4, <1>5 DEF SessionType, EpochInv
  <1> QED BY <1>6, <1>7, <1>8

LEMMA AwaitSessions ==
    ASSUME BoundaryInv, NEW s \in Sessions, AwaitExit(s)
    PROVE  SessionType' /\ SessionInv' /\ EpochInv'
  <1> USE DEF BoundaryInv
  <1>0. /\ spc[s] = "wait"
        /\ UNCHANGED <<attempt, base, born, conn, execs, epoch, bumped, resumed>>
    BY DEF AwaitExit, creatorVars
  <1>1. PICK o \in {"exited", "closed", "orphaned"} :
            End(s, o) /\ (o = "orphaned" => epoch # base[s])
    BY DEF AwaitExit, Orphaned
  <1>2. SessionType' /\ SessionInv'
    BY <1>0, <1>1 DEF End, SessionType, SessionInv, SessionPCs, Outcomes
  <1>3. EpochInv'
    <2>1. o = "orphaned" => born[s] < bumped
      <3>1. base[s] \in Nat /\ epoch \in Nat /\ base[s] <= epoch
        BY DEF EpochInv, SessionType, CreatorInv, CounterInv
      <3>2. o = "orphaned" => base[s] < epoch
        BY ONLY <1>1, <3>1
      <3> QED BY <1>0, <3>2 DEF EpochInv
    <2> QED BY <1>0, <1>1, <2>1 DEF End, SessionType, EpochInv
  <1> QED BY <1>2, <1>3

(* The guest starts the command when it takes GO, and writes none. *)
LEMMA GuestSessions ==
    ASSUME BoundaryInv, NEW s \in Sessions, NEW k \in Attempts, Guest(s, k)
    PROVE  SessionType' /\ SessionInv' /\ EpochInv'
  <1> USE DEF BoundaryInv
  <1>0. /\ conn[s][k] \in Conns
        /\ UNCHANGED <<sessionVars, epoch, bumped, resumed>>
    BY DEF SessionType, Guest, GuestReadRequest, GuestRejects, GuestReadGo, GuestGivesUp,
           GuestExit, Handler, creatorVars
  <1>1. PICK c \in Conns :
            /\ conn' = [conn EXCEPT ![s][k] = c]
            /\ \/ UNCHANGED execs /\ (c.go => conn[s][k].go)
               \/ conn[s][k].go /\ ~c.go /\ execs' = [execs EXCEPT ![s] = @ + 1]
    <2>1. CASE GuestReadRequest(s, k)
      <3> DEFINE c == [conn[s][k] EXCEPT !.guest = "acked", !.req = FALSE,
                                             !.reply = Line(conn[s][k], "ACK")]
      <3>1. c \in Conns /\ (c.go => conn[s][k].go)
        BY ONLY <1>0 DEF Line, Conns
      <3>2. conn' = [conn EXCEPT ![s][k] = c]
        BY <2>1 DEF GuestReadRequest, Handler
      <3> HIDE DEF c
      <3> QED BY <2>1, <3>1, <3>2 DEF GuestReadRequest
    <2>2. CASE GuestRejects(s, k)
      <3> DEFINE c == [conn[s][k] EXCEPT !.guest = "ended", !.req = FALSE,
                                             !.reply = Line(conn[s][k], "Error"),
                                             !.link = IF @ = "up" THEN "closed" ELSE @]
      <3>1. c \in Conns /\ (c.go => conn[s][k].go)
        BY ONLY <1>0 DEF Line, Conns
      <3>2. conn' = [conn EXCEPT ![s][k] = c]
        BY <2>2 DEF GuestRejects, Handler
      <3> HIDE DEF c
      <3> QED BY <2>2, <3>1, <3>2 DEF GuestRejects
    <2>3. CASE GuestReadGo(s, k)
      <3> DEFINE c == [conn[s][k] EXCEPT !.guest = "running", !.go = FALSE]
      <3>1. c \in Conns /\ c.go = FALSE
        BY ONLY <1>0 DEF Conns
      <3>2. conn' = [conn EXCEPT ![s][k] = c]
        BY <2>3 DEF GuestReadGo, Handler
      <3> HIDE DEF c
      <3> QED BY <2>3, <3>1, <3>2 DEF GuestReadGo
    <2>4. CASE GuestGivesUp(s, k)
      <3> DEFINE c == [conn[s][k] EXCEPT !.guest = "ended",
                                             !.link = IF @ = "up" THEN "closed" ELSE @]
      <3>1. c \in Conns /\ (c.go => conn[s][k].go)
        BY ONLY <1>0 DEF Conns
      <3>2. conn' = [conn EXCEPT ![s][k] = c]
        BY <2>4 DEF GuestGivesUp, Handler
      <3> HIDE DEF c
      <3> QED BY <2>4, <3>1, <3>2 DEF GuestGivesUp
    <2>5. CASE GuestExit(s, k)
      <3> DEFINE c == [conn[s][k] EXCEPT !.guest = "ended", !.exit = conn[s][k].link = "up"]
      <3>1. c \in Conns /\ (c.go => conn[s][k].go)
        BY ONLY <1>0 DEF Conns
      <3>2. conn' = [conn EXCEPT ![s][k] = c]
        BY <2>5 DEF GuestExit, Handler
      <3> HIDE DEF c
      <3> QED BY <2>5, <3>1, <3>2 DEF GuestExit
    <2> QED BY <2>1, <2>2, <2>3, <2>4, <2>5 DEF Guest
  <1>2. /\ conn' \in [Sessions -> [Attempts -> Conns]]
        /\ \A r \in Sessions, j \in Attempts :
               conn'[r][j] = IF r = s /\ j = k THEN c ELSE conn[r][j]
    BY <1>1, OneConn
  <1>3. EpochInv'
    BY <1>0 DEF EpochInv, sessionVars
  <1>4. CASE UNCHANGED execs /\ (c.go => conn[s][k].go)
    <2>1. \A r \in Sessions, j \in Attempts : conn'[r][j].go => conn[r][j].go
      BY <1>2, <1>4
    <2> QED BY <1>0, <1>2, <1>3, <1>4, <2>1 DEF SessionType, SessionInv, sessionVars
  <1>5. CASE conn[s][k].go /\ ~c.go /\ execs' = [execs EXCEPT ![s] = @ + 1]
    <2>1. k = attempt[s] /\ execs[s] = 0 /\ spc[s] \in {"wait", "done"} /\ outcome[s] # "unacked"
      BY <1>5 DEF SessionInv
    <2>2. \A r \in Sessions, j \in Attempts : conn'[r][j].go => conn[r][j].go /\ r # s
      BY <1>2, <1>5, <2>1 DEF SessionInv
    <2>3. execs' = [execs EXCEPT ![s] = 1]
      BY <1>5, <2>1
    <2>4. SessionType'
      BY <1>0, <1>2, <2>3 DEF SessionType, sessionVars
    <2>5. SessionInv'
      BY <1>0, <2>1, <2>2, <2>3 DEF SessionType, SessionInv, sessionVars
    <2> QED BY <1>3, <2>4, <2>5
  <1> QED BY <1>1, <1>4, <1>5

LEMMA BoundaryStep == BoundaryInv /\ [Next]_vars => BoundaryInv'
  <1> SUFFICES ASSUME BoundaryInv, [Next]_vars PROVE BoundaryInv'
    OBVIOUS
  <1> USE DEF BoundaryInv
  <1>1. CASE GuestWork \/ \E d \in Dispositions : create_snapshot_core(d)
    <2>1. /\ UNCHANGED <<sessionVars, conn, execs, epoch, bumped, resumed>>
          /\ resumed \in Nat
      BY <1>1 DEF GuestWork, create_snapshot_core, creatorVars, CreatorInv, CounterInv
    <2> QED BY <1>1, <2>1, CreatorSteps, SessionFrame
  <1>2. CASE Creator
    <2>1. CASE Save
      BY <1>2, <2>1, CreatorSteps, SaveSessions
    <2>2. CASE record_vsock_reset_for_snapshot
      BY <1>2, <2>2, CreatorSteps, BumpSessions
    <2>3. CASE Resume
      <3>1. /\ UNCHANGED <<sessionVars, conn, execs, epoch, bumped>>
            /\ resumed' \in Nat /\ resumed <= resumed'
        BY <2>3 DEF Resume, CreatorInv, CounterInv
      <3> QED BY <1>2, <3>1, CreatorSteps, SessionFrame
    <2>4. CASE Prepare \/ Pause \/ CopyDisks \/ Reopen \/ Combine \/ Publish
      <3>1. /\ UNCHANGED <<sessionVars, conn, execs, epoch, bumped, resumed>>
            /\ resumed \in Nat
        BY <2>4 DEF Prepare, Pause, CopyDisks, Reopen, Combine, Publish, CreatorInv, CounterInv
      <3> QED BY <1>2, <3>1, CreatorSteps, SessionFrame
    <2> QED BY <1>2, <2>1, <2>2, <2>3, <2>4 DEF Creator
  <1>3. ASSUME NEW s \in Sessions, run_exec_in_vm(s) \/ Client(s) PROVE BoundaryInv'
    <2>1. UNCHANGED <<run, gate, work, epoch, creatorVars>>
      BY <1>3 DEF run_exec_in_vm, Client, connect_to_exec_server, CaptureEpoch, SendRequest,
                  RecvReply, NotAcked, AwaitExit
    <2>2. SessionType' /\ SessionInv' /\ EpochInv'
      BY <1>3, StartSessions, ConnectSessions, SendSessions, ReplySessions, AwaitSessions
      DEF Client
    <2> QED BY <2>1, <2>2, CreatorFrame
  <1>4. ASSUME NEW s \in Sessions, NEW k \in Attempts, Guest(s, k) PROVE BoundaryInv'
    <2>1. UNCHANGED <<run, gate, work, epoch, creatorVars>>
      BY <1>4 DEF Guest, GuestReadRequest, GuestRejects, GuestReadGo, GuestGivesUp, GuestExit,
                  Handler
    <2> QED BY <1>4, <2>1, GuestSessions, CreatorFrame
  <1>5. CASE UNCHANGED vars
    <2>1. /\ UNCHANGED <<run, gate, work, epoch, creatorVars, sessionVars, conn, execs>>
          /\ UNCHANGED <<bumped, resumed>> /\ resumed \in Nat
      BY <1>5 DEF vars, creatorVars, CreatorInv, CounterInv
    <2> QED BY <2>1, CreatorFrame, SessionFrame
  <1> QED BY <1>1, <1>2, <1>3, <1>4, <1>5 DEF Next

LEMMA BoundaryInvHolds == Spec => []BoundaryInv
  BY BoundaryInit, BoundaryStep, PTL DEF Spec

(* The bound on failures is kept by every step. *)
FaultInv == faults \in 0 .. MaxFaults

LEMMA FaultInvHolds == Spec => []FaultInv
  <1>1. Init => FaultInv
    BY BoundaryAssumption DEF Init, FaultInv
  <1>2. FaultInv /\ [Next]_vars => FaultInv'
    <2> SUFFICES ASSUME FaultInv, [Next]_vars PROVE Succeeds \/ Fails
      BY BoundaryAssumption DEF FaultInv, Succeeds, Fails
    <2> USE DEF Succeeds
    <2>1. CASE UNCHANGED vars
      BY <2>1 DEF vars, creatorVars
    <2>2. CASE GuestWork \/ \E d \in Dispositions : create_snapshot_core(d)
      BY <2>2 DEF GuestWork, create_snapshot_core, creatorVars
    <2>3. CASE Creator
      BY <2>3 DEF Creator, Prepare, Pause, Save, CopyDisks, record_vsock_reset_for_snapshot,
                  Resume, Reopen, Combine, Publish
    <2>4. CASE \E s \in Sessions : run_exec_in_vm(s) \/ Client(s)
      BY <2>4 DEF run_exec_in_vm, Client, connect_to_exec_server, CaptureEpoch, SendRequest,
                  RecvReply, NotAcked, AwaitExit, creatorVars
    <2>5. CASE \E s \in Sessions, k \in Attempts : Guest(s, k)
      BY <2>5 DEF Guest, GuestReadRequest, GuestRejects, GuestReadGo, GuestGivesUp, GuestExit,
                  Handler, creatorVars
    <2> QED BY <2>1, <2>2, <2>3, <2>4, <2>5 DEF Next
  <1> QED BY <1>1, <1>2, PTL DEF Spec

(* The variables stay in their types: the epoch never passes the number of creates,
   and no session makes more than MaxAttempts connections. *)
THEOREM BoundaryTypes == Spec => []TypeOK
  <1>1. BoundaryInv /\ FaultInv => TypeOK
    <2> SUFFICES ASSUME BoundaryInv, FaultInv PROVE TypeOK
      OBVIOUS
    <2> USE DEF BoundaryInv
    <2>1. /\ MaxAttempts \in Nat \ {0} /\ MaxCreates \in Nat /\ creates \in 0 .. MaxCreates
          /\ epoch \in 0 .. creates /\ bumped \in 0 .. creates /\ resumed \in 0 .. creates
      BY BoundaryAssumption DEF CreatorInv, CounterInv
    <2>2. epoch \in 0 .. MaxCreates /\ bumped \in 0 .. MaxCreates /\ resumed \in 0 .. MaxCreates
      BY ONLY <2>1
    <2>3. ASSUME NEW s \in Sessions
          PROVE  /\ base[s] \in 0 .. MaxCreates /\ born[s] \in 0 .. MaxCreates
                 /\ execs[s] \in 0 .. MaxAttempts
      <3>1. /\ base[s] \in Nat /\ born[s] \in Nat /\ execs[s] \in {0, 1}
            /\ base[s] <= epoch /\ born[s] <= resumed
        BY <2>3 DEF SessionType, EpochInv
      <3> QED BY ONLY <2>1, <2>2, <3>1
    <2> QED BY <2>1, <2>2, <2>3 DEF TypeOK, SessionType, CreatorInv, CreatorType, FaultInv
  <1> QED BY <1>1, BoundaryInvHolds, FaultInvHolds, PTL

(* An exec call starts its command at most once, for any number of attempts, cuts and
   snapshots: GO is sent once, and the guest takes it once. *)
THEOREM ExecAtMostOnce == Spec => []AtMostOnce
  <1>1. BoundaryInv => AtMostOnce
    BY DEF BoundaryInv, SessionType, AtMostOnce
  <1> QED BY <1>1, BoundaryInvHolds, PTL

(* A call that reports that its request was never acknowledged has not run it and
   never will: connect_and_start_exec's "resends are safe". *)
THEOREM UnackedIsSafe == Spec => []UnackedNeverRan
  <1>1. BoundaryInv => UnackedNeverRan
    BY DEF BoundaryInv, SessionInv, UnackedNeverRan
  <1> QED BY <1>1, BoundaryInvHolds, PTL

(* Both together: a call's command has run as often as connect_and_start_exec lets
   its caller conclude. *)
THEOREM ExecRunsAsReported == Spec => []RunsAsReported
  BY ExecAtMostOnce, UnackedIsSafe, PTL DEF RunsAsReported

(* No session is aborted for a snapshot that was resumed before its connection was
   made: bump_vsock_epoch's contract, with bumps that may fail. *)
THEOREM AbortsAreTrue == Spec => []NoFalseAbort
  <1>1. BoundaryInv => NoFalseAbort
    BY DEF BoundaryInv, EpochInv, NoFalseAbort
  <1> QED BY <1>1, BoundaryInvHolds, PTL

(* The memory and disks of every published snapshot are of one instant behind the
   closed gate. *)
THEOREM SnapshotsAreConsistent == Spec => []OneInstant
  <1>1. BoundaryInv => OneInstant
    BY DEF BoundaryInv, CreatorInv
  <1> QED BY <1>1, BoundaryInvHolds, PTL

(* Whatever step fails, and however ambiguously, a create that reports no recovery
   error leaves a source it was to resume running behind an open gate. *)
THEOREM SourceIsRestored == Spec => []SourceRestored
  <1>1. BoundaryInv => SourceRestored
    BY DEF BoundaryInv, CreatorInv
  <1> QED BY <1>1, BoundaryInvHolds, PTL
=============================================================================
