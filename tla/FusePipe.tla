------------------------------ MODULE FusePipe ------------------------------
(***************************************************************************)
(* fuse-pipe: the guest's FUSE readers share one connection to the volume  *)
(* server of the host.                                                     *)
(*                                                                         *)
(* src/fuse-pipe/src/client/multiplexer.rs (the multiplexer's writer and   *)
(* reader threads, with and without reconnection) and                      *)
(* src/fuse-pipe/src/server/pipelined.rs (one reader, one task per request *)
(* and one batching response writer per connection).                       *)
(*                                                                         *)
(* A request is its unique id.  A connection carries the frame of a        *)
(* request at most once, so at[g][r] is where that frame, or its answer,   *)
(* is.  The order of frames is left out: the server runs requests in any   *)
(* order and answers are routed by id.                                     *)
(***************************************************************************)
EXTENDS Integers, FiniteSets

CONSTANTS Requests,      \* calls of send_request
          Forgets,       \* calls of send_request_no_reply
          Capacity,      \* of the request channel
          BatchSize,     \* responses written before a flush
          MaxGen,        \* bound: reconnections of any mode
          Modes          \* the kinds of multiplexer, and what may go wrong

Calls == Requests \union Forgets
Gens == 0 .. MaxGen
None == "none"
NoGen == -1

ASSUME FuseAssumption ==
    /\ Requests \intersect Forgets = {} /\ None \notin Calls
    /\ MaxGen \in Nat /\ Capacity \in Nat /\ BatchSize \in Nat /\ IsFiniteSet(Calls)

ASSUME ModesAssumption ==
    Modes \subseteq [callers : SUBSET Calls, reconnects : BOOLEAN, times : Gens,
                     givesUp : BOOLEAN, badFrames : BOOLEAN]

VARIABLES mode,          \* which it is; it never changes
          call,          \* of a caller: "new", "waiting", "reply", "eio" or "done"
          queue,         \* the request channel
          pending,       \* the map of requests that wait for an answer
          writer, cur,   \* the writer thread: its place and its request
          left,          \* the keys that a re-send or fail_all_pending goes through
          gen,           \* reader_generation: the current connection
          died,          \* the death notice in its channel
          reader,        \* the reader thread of each connection
          link,          \* of a connection: "none", "up" or "down"
          at,            \* of a connection: the place of each request's frame
          runs           \* history: how often the file system ran a request

callVars == <<call, queue>>
muxVars == <<pending, left>>
writerVars == <<writer, cur, gen>>
readerVars == <<died, reader>>
serverVars == <<link, at, runs>>
steps == <<callVars, muxVars, writerVars, readerVars, serverVars>>
vars == <<mode, steps>>

Callers == mode.callers           \* who calls
Reconnectable == mode.reconnects  \* new_reconnectable, or the plain multiplexer
GivesUp == mode.givesUp           \* whether do_reconnect may run out of attempts
Times == mode.times               \* bound: how often do_reconnect succeeds
BadFrames == mode.badFrames       \* whether an answer may fail to be parsed

Places == {"no", "sent", "task", "reply", "buffered", "back", "gone"}

TypeOK ==
    /\ mode \in Modes
    /\ call \in [Calls -> {"new", "waiting", "reply", "eio", "done"}]
    /\ queue \subseteq Calls /\ pending \subseteq Requests /\ left \subseteq Requests
    /\ writer \in {"select", "write", "connect", "resend", "fail", "retry", "ended"}
    /\ cur \in Calls \union {None}
    /\ gen \in Gens /\ died \in Gens \union {NoGen}
    /\ reader \in [Gens -> {"none", "run", "notify", "fail", "ended"}]
    /\ link \in [Gens -> {"none", "up", "down"}]
    /\ at \in [Gens -> [Calls -> Places]]
    /\ runs \in [Calls -> Nat]

Init ==
    /\ mode \in Modes
    /\ call = [r \in Calls |-> "new"]
    /\ queue = {} /\ pending = {} /\ left = {}
    /\ writer = "select" /\ cur = None
    /\ gen = 0 /\ died = NoGen
    /\ reader = [g \in Gens |-> IF g = 0 THEN "run" ELSE "none"]
    /\ link = [g \in Gens |-> IF g = 0 THEN "up" ELSE "none"]
    /\ at = [g \in Gens |-> [r \in Calls |-> "no"]]
    /\ runs = [r \in Calls |-> 0]

Move(g, r, place) == at' = [at EXCEPT ![g][r] = place]

-----------------------------------------------------------------------------
(* The callers.                                                            *)

Submit(r, then) ==
    /\ r \in Callers /\ call[r] = "new" /\ writer # "ended" /\ Cardinality(queue) < Capacity
    /\ queue' = queue \union {r}
    /\ call' = [call EXCEPT ![r] = then]
    /\ UNCHANGED <<muxVars, writerVars, readerVars, serverVars>>

send_request(r) == r \in Requests /\ Submit(r, "waiting")
send_request_no_reply(r) == r \in Forgets /\ Submit(r, "done")

(* The entry of r is taken from the map, if it is there, and its caller gets
   the answer. *)
Answer(r, answer) ==
    /\ pending' = pending \ {r}
    /\ call' = IF r \in pending THEN [call EXCEPT ![r] = answer] ELSE call

-----------------------------------------------------------------------------
(* The writer thread: writer_loop_reconnectable, or writer_loop.           *)

(* A request with an answer is registered before it is written. *)
TakeRequest(r) ==
    /\ writer = "select" /\ r \in queue
    /\ queue' = queue \ {r}
    /\ pending' = IF r \in Requests THEN pending \union {r} ELSE pending
    /\ cur' = r /\ writer' = "write"
    /\ UNCHANGED <<call, left, gen, readerVars, serverVars>>

(* Mutant: the request in hand is kept after its write. *)
WriteOk_KeepsRequest ==
    /\ writer = "write" /\ link[gen] = "up"
    /\ Move(gen, cur, "sent")
    /\ writer' = "select" /\ UNCHANGED cur
    /\ UNCHANGED <<callVars, muxVars, gen, readerVars, link, runs>>

WriteOk ==
    /\ writer = "write" /\ link[gen] = "up"
    /\ Move(gen, cur, "sent")
    /\ writer' = "select" /\ cur' = None
    /\ UNCHANGED <<callVars, muxVars, gen, readerVars, link, runs>>

(* The plain multiplexer answers the caller with EIO. *)
WriteFails ==
    /\ writer = "write" /\ link[gen] = "down"
    /\ IF Reconnectable
       THEN writer' = "connect" /\ UNCHANGED <<cur, call, pending>>
       ELSE writer' = "select" /\ cur' = None /\ Answer(cur, "eio")
    /\ UNCHANGED <<queue, left, gen, readerVars, serverVars>>

(* Mutant: a notice of any reader is acted on. *)
NoticeIsCurrent_Always == TRUE

(* A notice of a connection that was replaced is ignored. *)
NoticeIsCurrent == died = gen

DeathNotice ==
    /\ writer = "select" /\ died # NoGen
    /\ died' = NoGen
    /\ writer' = IF NoticeIsCurrent THEN "connect" ELSE "select"
    /\ UNCHANGED <<callVars, muxVars, cur, gen, reader, serverVars>>

(* Mutant: the request in hand is not sent with the others. *)
ResendKeys_Others == pending \ {cur}

(* Everything in the map is sent again. *)
ResendKeys == pending

(* do_reconnect: the new connection and its reader.  The old one is closed;
   what was written to it may still be read. *)
Connect ==
    /\ writer = "connect" /\ gen < Times
    /\ gen' = gen + 1
    /\ link' = [link EXCEPT ![gen] = "down", ![gen + 1] = "up"]
    /\ reader' = [reader EXCEPT ![gen + 1] = "run"]
    /\ left' = ResendKeys
    /\ writer' = "resend"
    /\ UNCHANGED <<callVars, pending, cur, died, at, runs>>

(* An entry that was answered meanwhile is not sent again, and a re-send that
   fails is left to the next reconnection. *)
Resend(r) ==
    /\ writer = "resend" /\ r \in left
    /\ left' = left \ {r}
    /\ IF r \in pending /\ link[gen] = "up" THEN Move(gen, r, "sent") ELSE UNCHANGED at
    /\ UNCHANGED <<callVars, pending, writerVars, readerVars, link, runs>>

(* The attempts are used up, or the new socket cannot be cloned. *)
GiveUp ==
    /\ writer = "connect" /\ GivesUp
    /\ left' = pending
    /\ writer' = "fail"
    /\ UNCHANGED <<callVars, pending, cur, gen, readerVars, serverVars>>

(* fail_all_pending, by the writer or by the plain multiplexer's reader. *)
fail_all_pending(r) ==
    /\ writer = "fail" \/ reader[gen] = "fail"
    /\ r \in left
    /\ left' = left \ {r}
    /\ Answer(r, "eio")
    /\ UNCHANGED <<queue, writerVars, readerVars, serverVars>>

(* The request in hand is in the map, and was sent with it, unless it is a
   forget. *)
Retries == cur \in Forgets

Reconnected ==
    /\ writer \in {"resend", "fail"} /\ left = {}
    /\ writer' = IF Retries THEN "retry" ELSE "select"
    /\ cur' = IF Retries THEN cur ELSE None
    /\ UNCHANGED <<callVars, muxVars, gen, readerVars, serverVars>>

(* The forget is written once more, and dropped if that fails. *)
RetryForget ==
    /\ writer = "retry"
    /\ IF link[gen] = "up" THEN Move(gen, cur, "sent") ELSE UNCHANGED at
    /\ writer' = "select" /\ cur' = None
    /\ UNCHANGED <<callVars, muxVars, gen, readerVars, link, runs>>

(* The multiplexer is dropped, which nobody does while a caller waits. *)
WriterEnds ==
    /\ writer = "select" /\ queue = {} /\ \A r \in Requests : call[r] # "waiting"
    /\ writer' = "ended"
    /\ UNCHANGED <<callVars, muxVars, cur, gen, readerVars, serverVars>>

-----------------------------------------------------------------------------
(* The reader thread of connection g.                                      *)

(* An answer whose entry is gone is dropped. *)
ReaderReceives(g, r) ==
    /\ reader[g] = "run" /\ at[g][r] = "back"
    /\ Move(g, r, "gone")
    /\ Answer(r, "reply")
    /\ UNCHANGED <<queue, left, writerVars, readerVars, link, runs>>

(* Mutant: the reader stops without a word. *)
ReaderStops_Silent(g) == reader' = [reader EXCEPT ![g] = "ended"] /\ UNCHANGED left

(* reader_loop fails all requests in the map; reader_loop_reconnectable leaves
   them to the writer, which it notifies. *)
ReaderStops(g) ==
    IF Reconnectable
    THEN reader' = [reader EXCEPT ![g] = "notify"] /\ UNCHANGED left
    ELSE reader' = [reader EXCEPT ![g] = "fail"] /\ left' = pending

ReaderDies(g) ==
    /\ reader[g] = "run" /\ link[g] = "down"
    /\ ReaderStops(g)
    /\ UNCHANGED <<callVars, pending, writerVars, died, serverVars>>

(* An answer is too large or cannot be parsed.  The connection stays open. *)
BadFrame(g, r) ==
    /\ BadFrames /\ (g < Times \/ ~Reconnectable)
    /\ reader[g] = "run" /\ at[g][r] = "back"
    /\ Move(g, r, "gone")
    /\ ReaderStops(g)
    /\ UNCHANGED <<callVars, pending, writerVars, died, link, runs>>

(* The channel holds one notice, and a second reader waits. *)
Notify(g) ==
    /\ reader[g] = "notify"
    /\ \/ writer = "ended" /\ UNCHANGED died
       \/ writer # "ended" /\ died = NoGen /\ died' = g
    /\ reader' = [reader EXCEPT ![g] = "ended"]
    /\ UNCHANGED <<callVars, muxVars, writerVars, serverVars>>

ReaderEnds(g) ==
    /\ reader[g] = "fail" /\ left = {}
    /\ reader' = [reader EXCEPT ![g] = "ended"]
    /\ UNCHANGED <<callVars, muxVars, writerVars, died, serverVars>>

-----------------------------------------------------------------------------
(* The server, for connection g.                                           *)

(* request_reader makes a task of every frame, also after the client is gone. *)
request_reader(g, r) ==
    /\ at[g][r] = "sent"
    /\ Move(g, r, "task")
    /\ UNCHANGED <<callVars, muxVars, writerVars, readerVars, link, runs>>

(* The task runs the request, and passes its answer on unless it is a forget. *)
handle_request(g, r) ==
    /\ at[g][r] = "task"
    /\ runs' = [runs EXCEPT ![r] = @ + 1]
    /\ Move(g, r, IF r \in Forgets THEN "gone" ELSE "reply")
    /\ UNCHANGED <<callVars, muxVars, writerVars, readerVars, link>>

In(g, place) == {r \in Calls : at[g][r] = place}

(* The frames of the set fs go out, or are lost with the connection. *)
Flush(g, fs) ==
    at' = [at EXCEPT ![g] = [r \in Calls |->
              IF r \notin fs THEN @[r] ELSE IF link[g] = "up" THEN "back" ELSE "gone"]]

(* A full batch is flushed, and so is the last response there is. *)
FlushDue(g, r) ==
    Cardinality(In(g, "buffered")) + 1 >= BatchSize \/ In(g, "reply") = {r}

response_writer(g, r) ==
    /\ at[g][r] = "reply"
    /\ IF FlushDue(g, r)
       THEN Flush(g, In(g, "buffered") \union {r})
       ELSE Move(g, r, "buffered")
    /\ UNCHANGED <<callVars, muxVars, writerVars, readerVars, link, runs>>

BatchTimeout(g) ==
    /\ In(g, "buffered") # {}
    /\ Flush(g, In(g, "buffered"))
    /\ UNCHANGED <<callVars, muxVars, writerVars, readerVars, link, runs>>

(* The connection is reset, by a snapshot of the VM for one: what is on its way
   may be lost. *)
LinkDown(g) ==
    /\ link[g] = "up" /\ (g < Times \/ GivesUp \/ ~Reconnectable)
    /\ link' = [link EXCEPT ![g] = "down"]
    /\ \E lost \in SUBSET {r \in Calls : at[g][r] \in {"sent", "back"}} :
          at' = [at EXCEPT ![g] = [r \in Calls |-> IF r \in lost THEN "gone" ELSE @[r]]]
    /\ UNCHANGED <<callVars, muxVars, writerVars, readerVars, runs>>

-----------------------------------------------------------------------------
Writer ==
    \/ \E r \in Calls : TakeRequest(r) \/ Resend(r) \/ fail_all_pending(r)
    \/ WriteOk \/ WriteFails \/ DeathNotice \/ Connect \/ GiveUp \/ Reconnected \/ RetryForget

Reader(g) ==
    \/ \E r \in Calls : ReaderReceives(g, r)
    \/ ReaderDies(g) \/ Notify(g) \/ ReaderEnds(g)

Server(g) ==
    \/ \E r \in Calls : request_reader(g, r) \/ handle_request(g, r) \/ response_writer(g, r)
    \/ BatchTimeout(g)

Next ==
    /\ \/ \E r \in Calls : send_request(r) \/ send_request_no_reply(r)
       \/ Writer \/ WriterEnds
       \/ \E g \in Gens :
           \/ Reader(g) \/ Server(g) \/ LinkDown(g)
           \/ \E r \in Calls : BadFrame(g, r)
    /\ UNCHANGED mode

Spec == Init /\ [][Next]_vars

(* The threads and tasks of client and server go on: a step that one of them can
   take is followed by one of theirs.  Nobody need call, and connections need not
   fail. *)
LiveSpec == Spec /\ WF_steps(Writer \/ \E g \in Gens : Reader(g) \/ Server(g))

-----------------------------------------------------------------------------
(* PROPERTIES                                                              *)

OnItsWay(r) == at[gen][r] \in {"sent", "task", "reply", "buffered", "back"}

(* No request is lost: while its caller waits it is in the channel or in the
   map, and one in the map is about to be written, sent again or failed, or is on
   its way on the current connection with a reader to take the answer, or the
   death of that connection is still to be noticed by the writer. *)
WaitersServed ==
    \A r \in Requests : call[r] = "waiting" =>
        \/ r \in queue
        \/ /\ r \in pending
           /\ \/ writer = "connect" \/ r \in left
              \/ writer = "write" /\ cur = r
              \/ reader[gen] = "run" /\ (OnItsWay(r) \/ link[gen] = "down")
              \/ reader[gen] = "notify" \/ died = gen

(* A forget is applied at most once, although the writer writes it again after
   a failure: twice would drop a reference that the kernel still has. *)
ForgetsOnce == \A r \in Forgets : runs[r] <= 1

(* A working connection is never replaced: not for the late notice of an earlier
   reader, which may come after the write that failed for the same reason. *)
HealthyKept == [][gen' # gen => link[gen] = "down" \/ reader[gen] = "ended"]_vars

(* Every caller gets an answer or an error. *)
AllAnswered == \A r \in Requests : call[r] = "waiting" ~> call[r] \in {"reply", "eio"}
=============================================================================
