--------------------------- MODULE FusePipeProofs ---------------------------
(***************************************************************************)
(* Proofs about FusePipe, for any callers, batches and number of           *)
(* reconnections: type correctness, no request is lost (WaitersServed), no *)
(* forget is applied twice, and no working connection is replaced.         *)
(*                                                                         *)
(* The inductive invariant follows a request through the channel, the map  *)
(* and the connections, and says who will notice the death of the current  *)
(* connection: its reader, a notice on its way, or the writer itself.      *)
(***************************************************************************)
EXTENDS FusePipe, TLAPS

(* The connections up to the current one have been made, the others not. *)
ConnInv ==
    /\ \A g \in Gens : IF g <= gen THEN link[g] # "none" /\ reader[g] # "none"
                                   ELSE link[g] = "none" /\ reader[g] = "none"
    /\ died # NoGen => died <= gen /\ reader[died] = "ended"
    /\ writer = "connect" => link[gen] = "down" \/ reader[gen] = "ended"

(* The request in hand, and which parts the plain multiplexer does not have. *)
HandInv ==
    /\ writer \in {"select", "ended"} => cur = None
    /\ writer = "write" => cur # None
    /\ writer = "retry" => cur \in Forgets
    /\ writer = "fail" => GivesUp
    /\ writer \in {"connect", "resend", "fail", "retry"} => Reconnectable
    /\ \A g \in Gens : reader[g] = "fail" => ~Reconnectable
    /\ \A g \in Gens : reader[g] = "notify" => Reconnectable
    /\ ~Reconnectable => died = NoGen /\ gen = 0

(* A waiting request is in the channel or in the map. *)
PendingInv ==
    /\ \A r \in Requests : call[r] = "waiting" <=> r \in queue \union pending
    /\ queue \intersect pending = {}
    /\ cur \in Requests => cur \notin queue /\ call[cur] # "new"
    /\ writer = "ended" => queue = {} /\ pending = {}

(* While answers can be parsed a reader stops only on a dead connection; if
   the reader of a live or of a new one has stopped, the writer has yet to hear of
   it. *)
HearInv ==
    /\ ~BadFrames => \A g \in Gens : reader[g] \in {"notify", "fail", "ended"} => link[g] = "down"
    /\ writer = "resend" \/ (link[gen] = "up" /\ writer \notin {"connect", "ended"}) =>
        reader[gen] \in {"run", "notify"} \/ died = gen

(* A forget is in one place: with its caller, in the channel, in the writer's
   hand or on one connection, and has not run before it is there. *)
Unsent(r) == runs[r] = 0 /\ \A g \in Gens : at[g][r] = "no"
ForgetInv ==
    \A r \in Forgets :
        /\ call[r] = "new" => r \notin queue /\ r # cur /\ Unsent(r)
        /\ r \in queue \/ r = cur => Unsent(r)
        /\ r = cur => r \notin queue
        /\ \A g \in Gens : at[g][r] \in {"sent", "task"} =>
            runs[r] = 0 /\ \A h \in Gens \ {g} : at[h][r] \notin {"sent", "task"}
        /\ runs[r] <= 1

PipeInv == TypeOK /\ ConnInv /\ HandInv /\ ForgetInv

(* Either frames are sound, or bad ones make the writer reconnect for sure. *)
FramesHandled == \A m \in Modes : m.badFrames => m.reconnects /\ ~m.givesUp

ServedInv == PendingInv /\ HearInv /\ WaitersServed
-----------------------------------------------------------------------------
(* The mode of a run and what it says. *)
LEMMA ModeStays ==
    ASSUME PipeInv, Next
    PROVE  /\ mode' = mode /\ mode \in Modes /\ Times \in Gens /\ Reconnectable' = Reconnectable
           /\ GivesUp' = GivesUp /\ BadFrames' = BadFrames /\ Times' = Times
  BY ModesAssumption DEF PipeInv, TypeOK, Next, Times, Reconnectable, GivesUp, BadFrames

(* What Move and Flush do to the places of the frames, one place at a time, and
   the same for the actions that choose between them or do neither. *)
LEMMA MovePlaces ==
    ASSUME TypeOK, NEW g \in Gens, NEW q \in Calls, NEW place \in Places, Move(g, q, place)
    PROVE  /\ at' \in [Gens -> [Calls -> Places]]
           /\ \A h \in Gens, p \in Calls :
                at'[h][p] = IF h = g /\ p = q THEN place ELSE at[h][p]
  BY DEF TypeOK, Move

LEMMA FlushPlaces ==
    ASSUME TypeOK, NEW g \in Gens, NEW fs \in SUBSET Calls, Flush(g, fs)
    PROVE  /\ at' \in [Gens -> [Calls -> Places]]
           /\ \A h \in Gens, p \in Calls :
                \/ at'[h][p] = at[h][p]
                \/ h = g /\ p \in fs /\ at'[h][p] = IF link[g] = "up" THEN "back" ELSE "gone"
  BY DEF TypeOK, Flush, Places

LEMMA ResendPlaces ==
    ASSUME TypeOK, NEW r \in Calls, Resend(r)
    PROVE  /\ r \in Requests /\ at' \in [Gens -> [Calls -> Places]]
           /\ \A h \in Gens, p \in Calls : p # r => at'[h][p] = at[h][p]
           /\ IF r \in pending /\ link[gen] = "up" THEN at'[gen][r] = "sent" ELSE at' = at
  <1>1. gen \in Gens /\ r \in Requests /\ "sent" \in Places
    BY DEF Resend, TypeOK, Places
  <1>2. CASE r \in pending /\ link[gen] = "up"
    <2>1. Move(gen, r, "sent")
      BY <1>2 DEF Resend
    <2> QED BY <1>1, <1>2, <2>1, MovePlaces
  <1>3. CASE ~(r \in pending /\ link[gen] = "up")
    BY <1>1, <1>3 DEF Resend, TypeOK
  <1> QED BY <1>2, <1>3

LEMMA RetryPlaces ==
    ASSUME TypeOK, HandInv, RetryForget
    PROVE  /\ cur \in Forgets /\ at' \in [Gens -> [Calls -> Places]]
           /\ \A h \in Gens, p \in Calls :
                at'[h][p] = at[h][p] \/ (h = gen /\ p = cur /\ at'[h][p] = "sent")
  <1>1. gen \in Gens /\ cur \in Forgets /\ cur \in Calls /\ "sent" \in Places
    BY DEF RetryForget, HandInv, TypeOK, Calls, Places
  <1>2. CASE link[gen] = "up"
    <2>1. Move(gen, cur, "sent")
      BY <1>2 DEF RetryForget
    <2> QED BY <1>1, <2>1, MovePlaces
  <1>3. CASE link[gen] # "up"
    BY <1>1, <1>3 DEF RetryForget, TypeOK
  <1> QED BY <1>2, <1>3

LEMMA ResponsePlaces ==
    ASSUME TypeOK, NEW g \in Gens, NEW r \in Calls, response_writer(g, r)
    PROVE  /\ at' \in [Gens -> [Calls -> Places]]
           /\ \A h \in Gens, p \in Calls :
                \/ at'[h][p] = at[h][p]
                \/ /\ at[h][p] \in {"reply", "buffered"}
                   /\ at'[h][p] \in {"buffered", "back"} \/ (at'[h][p] = "gone" /\ link[h] # "up")
  <1>1. CASE FlushDue(g, r)
    <2> DEFINE fs == In(g, "buffered") \union {r}
    <2>1. fs \in SUBSET Calls /\ \A p \in fs : at[g][p] \in {"reply", "buffered"}
      BY DEF response_writer, In
    <2>2. Flush(g, fs)
      BY <1>1 DEF response_writer
    <2> HIDE DEF fs
    <2> QED BY <2>1, <2>2, FlushPlaces
  <1>2. CASE ~FlushDue(g, r)
    <2>1. Move(g, r, "buffered") /\ at[g][r] = "reply" /\ "buffered" \in Places
      BY <1>2 DEF response_writer, Places
    <2> QED BY <2>1, MovePlaces
  <1> QED BY <1>1, <1>2

(* PipeInv is inductive. *)
LEMMA PipeInvStep ==
    ASSUME PipeInv, Next
    PROVE  PipeInv'
  <1> USE FuseAssumption DEF PipeInv, TypeOK, Calls, Gens, None, NoGen, Places, callVars,
      muxVars, writerVars, readerVars, serverVars
  <1>mode. /\ mode' = mode /\ mode \in Modes /\ Times \in 0 .. MaxGen
           /\ Reconnectable' = Reconnectable
           /\ GivesUp' = GivesUp /\ BadFrames' = BadFrames /\ Times' = Times
    BY ModeStays
  <1> USE <1>mode
  <1>1. ASSUME NEW r \in Calls, send_request(r) PROVE PipeInv'
    <2>1. TypeOK'
      BY <1>1 DEF send_request, Submit, HandInv
    <2>2. ConnInv'
      BY <1>1 DEF send_request, Submit, ConnInv
    <2>3. HandInv'
      BY <1>1 DEF send_request, Submit, HandInv
    <2>4. ForgetInv'
      BY <1>1 DEF send_request, Submit, ForgetInv, Unsent
    <2> QED BY <2>1, <2>2, <2>3, <2>4 DEF PipeInv
  <1>2. ASSUME NEW r \in Calls, send_request_no_reply(r) PROVE PipeInv'
    <2>1. TypeOK'
      BY <1>2 DEF send_request_no_reply, Submit, HandInv
    <2>2. ConnInv'
      BY <1>2 DEF send_request_no_reply, Submit, ConnInv
    <2>3. HandInv'
      BY <1>2 DEF send_request_no_reply, Submit, HandInv
    <2>4. ForgetInv'
      BY <1>2 DEF send_request_no_reply, Submit, ForgetInv, Unsent
    <2> QED BY <2>1, <2>2, <2>3, <2>4 DEF PipeInv
  <1>3. ASSUME NEW r \in Calls, TakeRequest(r) PROVE PipeInv'
    <2>1. TypeOK'
      BY <1>3 DEF TakeRequest, HandInv
    <2>2. ConnInv'
      BY <1>3 DEF TakeRequest, ConnInv
    <2>3. HandInv'
      BY <1>3 DEF TakeRequest, HandInv
    <2>4. ForgetInv'
      BY <1>3 DEF TakeRequest, ForgetInv, Unsent
    <2> QED BY <2>1, <2>2, <2>3, <2>4 DEF PipeInv
  <1>4. ASSUME WriteOk PROVE PipeInv'
    <2>1. /\ cur \in Calls /\ at' \in [Gens -> [Calls -> Places]]
          /\ \A h \in Gens, p \in Calls :
                at'[h][p] = IF h = gen /\ p = cur THEN "sent" ELSE at[h][p]
      <3>1. gen \in Gens /\ cur \in Calls /\ "sent" \in Places
        BY <1>4 DEF WriteOk, HandInv
      <3> HIDE DEF TypeOK, Calls, Gens, Places
      <3> QED BY ONLY <1>4, <3>1, MovePlaces, PipeInv DEF WriteOk, PipeInv
    <2>2. TypeOK'
      BY <1>4 DEF WriteOk, Move, HandInv
    <2>3. ConnInv'
      BY <1>4 DEF WriteOk, Move, ConnInv
    <2>4. HandInv'
      BY <1>4 DEF WriteOk, Move, HandInv
    <2>5. ForgetInv'
      <3> SUFFICES ASSUME NEW q \in Forgets
                   PROVE  /\ call'[q] = "new" => q \notin queue' /\ q # cur' /\ Unsent(q)'
                          /\ q \in queue' \/ q = cur' => Unsent(q)'
                          /\ q = cur' => q \notin queue'
                          /\ \A g \in Gens : at'[g][q] \in {"sent", "task"} =>
                              /\ runs'[q] = 0
                              /\ \A h \in Gens \ {g} : at'[h][q] \notin {"sent", "task"}
                          /\ runs'[q] <= 1
        BY DEF ForgetInv
      <3>1. q \in Calls
        OBVIOUS
      <3> HIDE DEF TypeOK, Calls, Gens, Places
      <3> QED BY <1>4, <2>1, <3>1 DEF WriteOk, ForgetInv, Unsent
    <2> QED BY <2>2, <2>3, <2>4, <2>5 DEF PipeInv
  <1>5. ASSUME WriteFails PROVE PipeInv'
    <2>1. TypeOK'
      BY <1>5 DEF WriteFails, Answer, HandInv
    <2>2. ConnInv'
      BY <1>5 DEF WriteFails, Answer, ConnInv
    <2>3. HandInv'
      BY <1>5 DEF WriteFails, Answer, HandInv
    <2>4. ForgetInv'
      BY <1>5 DEF WriteFails, Answer, ForgetInv, Unsent
    <2> QED BY <2>1, <2>2, <2>3, <2>4 DEF PipeInv
  <1>6. ASSUME DeathNotice PROVE PipeInv'
    <2>1. TypeOK'
      BY <1>6 DEF DeathNotice, NoticeIsCurrent, HandInv
    <2>2. ConnInv'
      BY <1>6 DEF DeathNotice, NoticeIsCurrent, ConnInv
    <2>3. HandInv'
      BY <1>6 DEF DeathNotice, NoticeIsCurrent, HandInv
    <2>4. ForgetInv'
      BY <1>6 DEF DeathNotice, NoticeIsCurrent, ForgetInv, Unsent
    <2> QED BY <2>1, <2>2, <2>3, <2>4 DEF PipeInv
  <1>7. ASSUME Connect PROVE PipeInv'
    <2>1. TypeOK'
      BY <1>7 DEF Connect, ResendKeys, HandInv
    <2>2. ConnInv'
      BY <1>7 DEF Connect, ResendKeys, ConnInv
    <2>3. HandInv'
      BY <1>7 DEF Connect, ResendKeys, HandInv
    <2>4. ForgetInv'
      BY <1>7 DEF Connect, ResendKeys, ForgetInv, Unsent
    <2> QED BY <2>1, <2>2, <2>3, <2>4 DEF PipeInv
  <1>8. ASSUME NEW r \in Calls, Resend(r) PROVE PipeInv'
    <2>1. /\ r \in Requests /\ at' \in [Gens -> [Calls -> Places]]
          /\ \A h \in Gens, p \in Calls : p # r => at'[h][p] = at[h][p]
      <3> HIDE DEF TypeOK, Calls, Gens, Places
      <3> QED BY <1>8, ResendPlaces
    <2>2. TypeOK'
      BY <1>8, <2>1 DEF Resend, Move, HandInv, ConnInv
    <2>3. ConnInv'
      BY <1>8 DEF Resend, Move, ConnInv
    <2>4. HandInv'
      BY <1>8 DEF Resend, Move, HandInv
    <2>5. ForgetInv'
      <3> SUFFICES ASSUME NEW q \in Forgets
                   PROVE  /\ call'[q] = "new" => q \notin queue' /\ q # cur' /\ Unsent(q)'
                          /\ q \in queue' \/ q = cur' => Unsent(q)'
                          /\ q = cur' => q \notin queue'
                          /\ \A g \in Gens : at'[g][q] \in {"sent", "task"} =>
                              /\ runs'[q] = 0
                              /\ \A h \in Gens \ {g} : at'[h][q] \notin {"sent", "task"}
                          /\ runs'[q] <= 1
        BY DEF ForgetInv
      <3>1. q \in Calls
        OBVIOUS
      <3> HIDE DEF TypeOK, Calls, Gens, Places
      <3> QED BY <1>8, <2>1, <3>1 DEF Resend, ForgetInv, Unsent
    <2> QED BY <2>2, <2>3, <2>4, <2>5 DEF PipeInv
  <1>9. ASSUME GiveUp PROVE PipeInv'
    <2>1. TypeOK'
      BY <1>9 DEF GiveUp, HandInv
    <2>2. ConnInv'
      BY <1>9 DEF GiveUp, ConnInv
    <2>3. HandInv'
      BY <1>9 DEF GiveUp, HandInv
    <2>4. ForgetInv'
      BY <1>9 DEF GiveUp, ForgetInv, Unsent
    <2> QED BY <2>1, <2>2, <2>3, <2>4 DEF PipeInv
  <1>10. ASSUME NEW r \in Calls, fail_all_pending(r) PROVE PipeInv'
    <2>1. TypeOK'
      BY <1>10 DEF fail_all_pending, Answer, HandInv
    <2>2. ConnInv'
      BY <1>10 DEF fail_all_pending, Answer, ConnInv
    <2>3. HandInv'
      BY <1>10 DEF fail_all_pending, Answer, HandInv
    <2>4. ForgetInv'
      BY <1>10 DEF fail_all_pending, Answer, ForgetInv, Unsent
    <2> QED BY <2>1, <2>2, <2>3, <2>4 DEF PipeInv
  <1>11. ASSUME Reconnected PROVE PipeInv'
    <2>1. TypeOK'
      BY <1>11 DEF Reconnected, Retries, HandInv
    <2>2. ConnInv'
      BY <1>11 DEF Reconnected, Retries, ConnInv
    <2>3. HandInv'
      BY <1>11 DEF Reconnected, Retries, HandInv
    <2>4. ForgetInv'
      BY <1>11 DEF Reconnected, Retries, ForgetInv, Unsent
    <2> QED BY <2>1, <2>2, <2>3, <2>4 DEF PipeInv
  <1>12. ASSUME RetryForget PROVE PipeInv'
    <2>1. /\ cur \in Forgets /\ at' \in [Gens -> [Calls -> Places]]
          /\ \A h \in Gens, p \in Calls :
                at'[h][p] = at[h][p] \/ (h = gen /\ p = cur /\ at'[h][p] = "sent")
      <3> HIDE DEF TypeOK, Calls, Gens, Places
      <3> QED BY <1>12, RetryPlaces
    <2>2. TypeOK'
      BY <1>12, <2>1 DEF RetryForget, Move, HandInv, ConnInv
    <2>3. ConnInv'
      BY <1>12 DEF RetryForget, Move, ConnInv
    <2>4. HandInv'
      BY <1>12 DEF RetryForget, Move, HandInv
    <2>5. ForgetInv'
      <3> SUFFICES ASSUME NEW q \in Forgets
                   PROVE  /\ call'[q] = "new" => q \notin queue' /\ q # cur' /\ Unsent(q)'
                          /\ q \in queue' \/ q = cur' => Unsent(q)'
                          /\ q = cur' => q \notin queue'
                          /\ \A g \in Gens : at'[g][q] \in {"sent", "task"} =>
                              /\ runs'[q] = 0
                              /\ \A h \in Gens \ {g} : at'[h][q] \notin {"sent", "task"}
                          /\ runs'[q] <= 1
        BY DEF ForgetInv
      <3>1. q \in Calls
        OBVIOUS
      <3> HIDE DEF TypeOK, Calls, Gens, Places
      <3> QED BY <1>12, <2>1, <3>1, SMTT(30) DEF RetryForget, HandInv, ForgetInv, Unsent
    <2> QED BY <2>2, <2>3, <2>4, <2>5 DEF PipeInv
  <1>13. ASSUME WriterEnds PROVE PipeInv'
    <2>1. TypeOK'
      BY <1>13 DEF WriterEnds, HandInv
    <2>2. ConnInv'
      BY <1>13 DEF WriterEnds, ConnInv
    <2>3. HandInv'
      BY <1>13 DEF WriterEnds, HandInv
    <2>4. ForgetInv'
      BY <1>13 DEF WriterEnds, ForgetInv, Unsent
    <2> QED BY <2>1, <2>2, <2>3, <2>4 DEF PipeInv
  <1>14. ASSUME NEW g \in Gens, NEW r \in Calls, ReaderReceives(g, r) PROVE PipeInv'
    <2>1. TypeOK'
      BY <1>14 DEF ReaderReceives, Move, Answer, HandInv
    <2>2. ConnInv'
      BY <1>14 DEF ReaderReceives, Move, Answer, ConnInv
    <2>3. HandInv'
      BY <1>14 DEF ReaderReceives, Move, Answer, HandInv
    <2>4. ForgetInv'
      BY <1>14 DEF ReaderReceives, Move, Answer, ForgetInv, Unsent
    <2> QED BY <2>1, <2>2, <2>3, <2>4 DEF PipeInv
  <1>15. ASSUME NEW g \in Gens, ReaderDies(g) PROVE PipeInv'
    <2>1. TypeOK'
      BY <1>15 DEF ReaderDies, ReaderStops, HandInv
    <2>2. ConnInv'
      BY <1>15 DEF ReaderDies, ReaderStops, ConnInv
    <2>3. HandInv'
      BY <1>15 DEF ReaderDies, ReaderStops, HandInv
    <2>4. ForgetInv'
      BY <1>15 DEF ReaderDies, ReaderStops, ForgetInv, Unsent
    <2> QED BY <2>1, <2>2, <2>3, <2>4 DEF PipeInv
  <1>16. ASSUME NEW g \in Gens, NEW r \in Calls, BadFrame(g, r) PROVE PipeInv'
    <2>1. TypeOK'
      BY <1>16 DEF BadFrame, ReaderStops, Move, HandInv
    <2>2. ConnInv'
      BY <1>16 DEF BadFrame, ReaderStops, Move, ConnInv
    <2>3. HandInv'
      BY <1>16 DEF BadFrame, ReaderStops, Move, HandInv
    <2>4. ForgetInv'
      BY <1>16 DEF BadFrame, ReaderStops, Move, ForgetInv, Unsent
    <2> QED BY <2>1, <2>2, <2>3, <2>4 DEF PipeInv
  <1>17. ASSUME NEW g \in Gens, Notify(g) PROVE PipeInv'
    <2>1. TypeOK'
      BY <1>17 DEF Notify, HandInv
    <2>2. ConnInv'
      BY <1>17 DEF Notify, ConnInv
    <2>3. HandInv'
      BY <1>17 DEF Notify, HandInv
    <2>4. ForgetInv'
      BY <1>17 DEF Notify, ForgetInv, Unsent
    <2> QED BY <2>1, <2>2, <2>3, <2>4 DEF PipeInv
  <1>18. ASSUME NEW g \in Gens, ReaderEnds(g) PROVE PipeInv'
    <2>1. TypeOK'
      BY <1>18 DEF ReaderEnds, HandInv
    <2>2. ConnInv'
      BY <1>18 DEF ReaderEnds, ConnInv
    <2>3. HandInv'
      BY <1>18 DEF ReaderEnds, HandInv
    <2>4. ForgetInv'
      BY <1>18 DEF ReaderEnds, ForgetInv, Unsent
    <2> QED BY <2>1, <2>2, <2>3, <2>4 DEF PipeInv
  <1>19. ASSUME NEW g \in Gens, NEW r \in Calls, request_reader(g, r) PROVE PipeInv'
    <2>1. TypeOK'
      BY <1>19 DEF request_reader, Move, HandInv
    <2>2. ConnInv'
      BY <1>19 DEF request_reader, Move, ConnInv
    <2>3. HandInv'
      BY <1>19 DEF request_reader, Move, HandInv
    <2>4. ForgetInv'
      BY <1>19 DEF request_reader, Move, ForgetInv, Unsent
    <2> QED BY <2>1, <2>2, <2>3, <2>4 DEF PipeInv
  <1>20. ASSUME NEW g \in Gens, NEW r \in Calls, handle_request(g, r) PROVE PipeInv'
    <2>1. TypeOK'
      BY <1>20 DEF handle_request, Move, HandInv
    <2>2. ConnInv'
      BY <1>20 DEF handle_request, Move, ConnInv
    <2>3. HandInv'
      BY <1>20 DEF handle_request, Move, HandInv
    <2>4. ForgetInv'
      BY <1>20 DEF handle_request, Move, ForgetInv, Unsent
    <2> QED BY <2>1, <2>2, <2>3, <2>4 DEF PipeInv
  <1>21. ASSUME NEW g \in Gens, NEW r \in Calls, response_writer(g, r) PROVE PipeInv'
    <2>1. /\ at' \in [Gens -> [Calls -> Places]]
          /\ \A h \in Gens, p \in Calls :
                \/ at'[h][p] = at[h][p]
                \/ /\ at[h][p] \in {"reply", "buffered"}
                   /\ at'[h][p] \in {"buffered", "back", "gone"}
      <3> HIDE DEF TypeOK, Calls, Gens, Places
      <3> QED BY <1>21, ResponsePlaces
    <2>2. TypeOK'
      BY <1>21, <2>1 DEF response_writer, Move, Flush, In, HandInv, ConnInv
    <2>3. ConnInv'
      BY <1>21 DEF response_writer, Move, Flush, In, ConnInv
    <2>4. HandInv'
      BY <1>21 DEF response_writer, Move, Flush, In, HandInv
    <2>5. ForgetInv'
      <3> SUFFICES ASSUME NEW q \in Forgets
                   PROVE  /\ call'[q] = "new" => q \notin queue' /\ q # cur' /\ Unsent(q)'
                          /\ q \in queue' \/ q = cur' => Unsent(q)'
                          /\ q = cur' => q \notin queue'
                          /\ \A f \in Gens : at'[f][q] \in {"sent", "task"} =>
                              /\ runs'[q] = 0
                              /\ \A h \in Gens \ {f} : at'[h][q] \notin {"sent", "task"}
                          /\ runs'[q] <= 1
        BY DEF ForgetInv
      <3>1. q \in Calls
        OBVIOUS
      <3> HIDE DEF TypeOK, Calls, Gens, Places
      <3>2. \A h \in Gens :
              /\ at[h][q] = "no" => at'[h][q] = "no"
              /\ at'[h][q] \in {"sent", "task"} => at[h][q] \in {"sent", "task"}
        BY <2>1, <3>1
      <3> QED BY <1>21, <3>1, <3>2 DEF response_writer, ForgetInv, Unsent
    <2> QED BY <2>2, <2>3, <2>4, <2>5 DEF PipeInv
  <1>22. ASSUME NEW g \in Gens, BatchTimeout(g) PROVE PipeInv'
    <2>1. TypeOK'
      BY <1>22 DEF BatchTimeout, Flush, In, HandInv
    <2>2. ConnInv'
      BY <1>22 DEF BatchTimeout, Flush, In, ConnInv
    <2>3. HandInv'
      BY <1>22 DEF BatchTimeout, Flush, In, HandInv
    <2>4. ForgetInv'
      BY <1>22 DEF BatchTimeout, Flush, In, ForgetInv, Unsent
    <2> QED BY <2>1, <2>2, <2>3, <2>4 DEF PipeInv
  <1>23. ASSUME NEW g \in Gens, LinkDown(g) PROVE PipeInv'
    <2>1. TypeOK'
      BY <1>23 DEF LinkDown, HandInv
    <2>2. ConnInv'
      BY <1>23 DEF LinkDown, ConnInv
    <2>3. HandInv'
      BY <1>23 DEF LinkDown, HandInv
    <2>4. ForgetInv'
      BY <1>23 DEF LinkDown, ForgetInv, Unsent
    <2> QED BY <2>1, <2>2, <2>3, <2>4 DEF PipeInv
  <1> HIDE DEF PipeInv, TypeOK, Calls, Gens, None, NoGen, Places, callVars, muxVars, writerVars,
      readerVars, serverVars
  <1> QED BY <1>1, <1>2, <1>3, <1>4, <1>5, <1>6, <1>7, <1>8, <1>9, <1>10, <1>11, <1>12, <1>13,
      <1>14, <1>15, <1>16, <1>17, <1>18, <1>19, <1>20, <1>21, <1>22, <1>23 DEF Next, Writer, Reader, Server

(* ServedInv is inductive where bad frames are handled. *)
LEMMA ServedInvStep ==
    ASSUME FramesHandled, PipeInv, PipeInv', ServedInv, Next
    PROVE  ServedInv'
  <1> USE FuseAssumption DEF PipeInv, ServedInv, TypeOK, Calls, Gens, None, NoGen, callVars,
      muxVars, writerVars, readerVars, serverVars
  <1>mode. /\ mode' = mode /\ mode \in Modes /\ Times \in 0 .. MaxGen
           /\ Reconnectable' = Reconnectable
           /\ GivesUp' = GivesUp /\ BadFrames' = BadFrames /\ Times' = Times
    BY ModeStays
  <1>frames. BadFrames => Reconnectable /\ ~GivesUp
    BY <1>mode DEF FramesHandled, BadFrames, Reconnectable, GivesUp
  <1> USE <1>mode, <1>frames
  <1>1. ASSUME NEW r \in Calls, send_request(r) PROVE ServedInv'
    <2>1. PendingInv'
      BY <1>1 DEF send_request, Submit, PendingInv, HandInv, ForgetInv
    <2>2. HearInv'
      BY <1>1 DEF send_request, Submit, HearInv
    <2>3. WaitersServed'
      BY <1>1 DEF send_request, Submit, WaitersServed, OnItsWay
    <2> QED BY <2>1, <2>2, <2>3 DEF ServedInv
  <1>2. ASSUME NEW r \in Calls, send_request_no_reply(r) PROVE ServedInv'
    <2>1. PendingInv'
      BY <1>2, PipeInv DEF send_request_no_reply, Submit, PendingInv, HandInv, ForgetInv
    <2>2. HearInv'
      BY <1>2 DEF send_request_no_reply, Submit, HearInv
    <2>3. WaitersServed'
      BY <1>2 DEF send_request_no_reply, Submit, WaitersServed, OnItsWay
    <2> QED BY <2>1, <2>2, <2>3 DEF ServedInv
  <1>3. ASSUME NEW r \in Calls, TakeRequest(r) PROVE ServedInv'
    <2>1. PendingInv'
      BY <1>3 DEF TakeRequest, PendingInv
    <2>2. HearInv'
      BY <1>3 DEF TakeRequest, HearInv
    <2>3. WaitersServed'
      BY <1>3 DEF TakeRequest, WaitersServed, OnItsWay
    <2> QED BY <2>1, <2>2, <2>3 DEF ServedInv
  <1>4. ASSUME WriteOk PROVE ServedInv'
    <2>1. PendingInv'
      BY <1>4 DEF WriteOk, Move, PendingInv
    <2>2. HearInv'
      BY <1>4 DEF WriteOk, Move, HearInv
    <2>3. WaitersServed'
      BY <1>4 DEF WriteOk, Move, WaitersServed, OnItsWay, PendingInv, HearInv, HandInv, ConnInv
    <2> QED BY <2>1, <2>2, <2>3 DEF ServedInv
  <1>5. ASSUME WriteFails PROVE ServedInv'
    <2>1. PendingInv'
      BY <1>5 DEF WriteFails, Answer, PendingInv, HandInv, ForgetInv
    <2>2. HearInv'
      BY <1>5 DEF WriteFails, Answer, HearInv
    <2>3. WaitersServed'
      BY <1>5 DEF WriteFails, Answer, WaitersServed, OnItsWay
    <2> QED BY <2>1, <2>2, <2>3 DEF ServedInv
  <1>6. ASSUME DeathNotice PROVE ServedInv'
    <2>1. PendingInv'
      BY <1>6 DEF DeathNotice, NoticeIsCurrent, PendingInv
    <2>2. HearInv'
      BY <1>6 DEF DeathNotice, NoticeIsCurrent, HearInv
    <2>3. WaitersServed'
      BY <1>6 DEF DeathNotice, NoticeIsCurrent, WaitersServed, OnItsWay
    <2> QED BY <2>1, <2>2, <2>3 DEF ServedInv
  <1>7. ASSUME Connect PROVE ServedInv'
    <2>1. PendingInv'
      BY <1>7 DEF Connect, ResendKeys, PendingInv
    <2>2. HearInv'
      BY <1>7 DEF Connect, ResendKeys, HearInv
    <2>3. WaitersServed'
      BY <1>7 DEF Connect, ResendKeys, WaitersServed, OnItsWay
    <2> QED BY <2>1, <2>2, <2>3 DEF ServedInv
  <1>8. ASSUME NEW r \in Calls, Resend(r) PROVE ServedInv'
    <2>1. PendingInv'
      BY <1>8 DEF Resend, Move, PendingInv
    <2>2. HearInv'
      BY <1>8 DEF Resend, Move, HearInv
    <2>3. WaitersServed'
      <3> SUFFICES ASSUME NEW q \in Requests, call'[q] = "waiting", q \notin queue'
                   PROVE  /\ q \in pending'
                          /\ \/ writer' = "connect" \/ q \in left'
                             \/ writer' = "write" /\ cur' = q
                             \/ reader'[gen'] = "run" /\ (OnItsWay(q)' \/ link'[gen'] = "down")
                             \/ reader'[gen'] = "notify" \/ died' = gen'
        BY DEF WaitersServed
      <3>1. q \in Calls /\ gen \in Gens /\ link[gen] \in {"up", "down"}
        BY DEF ConnInv
      <3> HIDE DEF TypeOK, Calls, Gens
      <3>2. /\ q # r => at'[gen][q] = at[gen][q]
            /\ IF r \in pending /\ link[gen] = "up" THEN at'[gen][r] = "sent" ELSE at' = at
        BY <1>8, <3>1, ResendPlaces
      <3> QED BY <1>8, <3>1, <3>2 DEF Resend, WaitersServed, OnItsWay, HearInv, HandInv
    <2> QED BY <2>1, <2>2, <2>3 DEF ServedInv
  <1>9. ASSUME GiveUp PROVE ServedInv'
    <2>1. PendingInv'
      BY <1>9 DEF GiveUp, PendingInv
    <2>2. HearInv'
      BY <1>9 DEF GiveUp, HearInv, ConnInv, HandInv
    <2>3. WaitersServed'
      BY <1>9 DEF GiveUp, WaitersServed, OnItsWay
    <2> QED BY <2>1, <2>2, <2>3 DEF ServedInv
  <1>10. ASSUME NEW r \in Calls, fail_all_pending(r) PROVE ServedInv'
    <2>1. PendingInv'
      BY <1>10 DEF fail_all_pending, Answer, PendingInv
    <2>2. HearInv'
      BY <1>10 DEF fail_all_pending, Answer, HearInv
    <2>3. WaitersServed'
      BY <1>10 DEF fail_all_pending, Answer, WaitersServed, OnItsWay
    <2> QED BY <2>1, <2>2, <2>3 DEF ServedInv
  <1>11. ASSUME Reconnected PROVE ServedInv'
    <2>1. PendingInv'
      BY <1>11 DEF Reconnected, Retries, PendingInv
    <2>2. HearInv'
      BY <1>11 DEF Reconnected, Retries, HearInv
    <2>3. WaitersServed'
      BY <1>11 DEF Reconnected, Retries, WaitersServed, OnItsWay
    <2> QED BY <2>1, <2>2, <2>3 DEF ServedInv
  <1>12. ASSUME RetryForget PROVE ServedInv'
    <2>1. PendingInv'
      BY <1>12 DEF RetryForget, Move, PendingInv
    <2>2. HearInv'
      BY <1>12 DEF RetryForget, Move, HearInv
    <2>3. WaitersServed'
      <3> SUFFICES ASSUME NEW q \in Requests, call'[q] = "waiting", q \notin queue'
                   PROVE  /\ q \in pending'
                          /\ \/ writer' = "connect" \/ q \in left'
                             \/ writer' = "write" /\ cur' = q
                             \/ reader'[gen'] = "run" /\ (OnItsWay(q)' \/ link'[gen'] = "down")
                             \/ reader'[gen'] = "notify" \/ died' = gen'
        BY DEF WaitersServed
      <3>1. q \in Calls /\ gen \in Gens /\ link[gen] \in {"up", "down"}
        BY DEF ConnInv
      <3> HIDE DEF TypeOK, Calls, Gens
      <3>2. at'[gen][q] = at[gen][q] \/ at'[gen][q] = "sent"
        BY <1>12, <3>1, RetryPlaces
      <3> QED BY <1>12, <3>1, <3>2 DEF RetryForget, WaitersServed, OnItsWay, HearInv, HandInv
    <2> QED BY <2>1, <2>2, <2>3 DEF ServedInv
  <1>13. ASSUME WriterEnds PROVE ServedInv'
    <2>1. PendingInv'
      BY <1>13 DEF WriterEnds, PendingInv
    <2>2. HearInv'
      BY <1>13 DEF WriterEnds, HearInv
    <2>3. WaitersServed'
      BY <1>13 DEF WriterEnds, WaitersServed, OnItsWay
    <2> QED BY <2>1, <2>2, <2>3 DEF ServedInv
  <1>14. ASSUME NEW g \in Gens, NEW r \in Calls, ReaderReceives(g, r) PROVE ServedInv'
    <2>1. PendingInv'
      BY <1>14 DEF ReaderReceives, Move, Answer, PendingInv
    <2>2. HearInv'
      BY <1>14 DEF ReaderReceives, Move, Answer, HearInv
    <2>3. WaitersServed'
      BY <1>14 DEF ReaderReceives, Move, Answer, WaitersServed, OnItsWay
    <2> QED BY <2>1, <2>2, <2>3 DEF ServedInv
  <1>15. ASSUME NEW g \in Gens, ReaderDies(g) PROVE ServedInv'
    <2>1. PendingInv'
      BY <1>15 DEF ReaderDies, ReaderStops, PendingInv
    <2>2. HearInv'
      BY <1>15 DEF ReaderDies, ReaderStops, HearInv, ConnInv, HandInv
    <2>3. WaitersServed'
      BY <1>15 DEF ReaderDies, ReaderStops, WaitersServed, OnItsWay
    <2> QED BY <2>1, <2>2, <2>3 DEF ServedInv
  <1>16. ASSUME NEW g \in Gens, NEW r \in Calls, BadFrame(g, r) PROVE ServedInv'
    <2>1. PendingInv'
      BY <1>16 DEF BadFrame, ReaderStops, Move, PendingInv
    <2>2. HearInv'
      BY <1>16 DEF BadFrame, ReaderStops, Move, HearInv, ConnInv, HandInv
    <2>3. WaitersServed'
      BY <1>16, SMTT(30) DEF BadFrame, ReaderStops, Move, WaitersServed, OnItsWay
    <2> QED BY <2>1, <2>2, <2>3 DEF ServedInv
  <1>17. ASSUME NEW g \in Gens, Notify(g) PROVE ServedInv'
    <2>1. PendingInv'
      BY <1>17 DEF Notify, PendingInv
    <2>2. HearInv'
      BY <1>17 DEF Notify, HearInv
    <2>3. WaitersServed'
      BY <1>17 DEF Notify, WaitersServed, OnItsWay, PendingInv, HearInv, HandInv, ConnInv
    <2> QED BY <2>1, <2>2, <2>3 DEF ServedInv
  <1>18. ASSUME NEW g \in Gens, ReaderEnds(g) PROVE ServedInv'
    <2>1. PendingInv'
      BY <1>18 DEF ReaderEnds, PendingInv
    <2>2. HearInv'
      BY <1>18 DEF ReaderEnds, HearInv
    <2>3. WaitersServed'
      BY <1>18 DEF ReaderEnds, WaitersServed, OnItsWay
    <2> QED BY <2>1, <2>2, <2>3 DEF ServedInv
  <1>19. ASSUME NEW g \in Gens, NEW r \in Calls, request_reader(g, r) PROVE ServedInv'
    <2>1. PendingInv'
      BY <1>19 DEF request_reader, Move, PendingInv
    <2>2. HearInv'
      BY <1>19 DEF request_reader, Move, HearInv
    <2>3. WaitersServed'
      BY <1>19 DEF request_reader, Move, WaitersServed, OnItsWay
    <2> QED BY <2>1, <2>2, <2>3 DEF ServedInv
  <1>20. ASSUME NEW g \in Gens, NEW r \in Calls, handle_request(g, r) PROVE ServedInv'
    <2>1. PendingInv'
      BY <1>20 DEF handle_request, Move, PendingInv
    <2>2. HearInv'
      BY <1>20 DEF handle_request, Move, HearInv
    <2>3. WaitersServed'
      BY <1>20 DEF handle_request, Move, WaitersServed, OnItsWay
    <2> QED BY <2>1, <2>2, <2>3 DEF ServedInv
  <1>21. ASSUME NEW g \in Gens, NEW r \in Calls, response_writer(g, r) PROVE ServedInv'
    <2>1. PendingInv'
      BY <1>21 DEF response_writer, Move, Flush, In, PendingInv
    <2>2. HearInv'
      BY <1>21 DEF response_writer, Move, Flush, In, HearInv
    <2>3. WaitersServed'
      <3> SUFFICES ASSUME NEW q \in Requests, call'[q] = "waiting", q \notin queue'
                   PROVE  /\ q \in pending'
                          /\ \/ writer' = "connect" \/ q \in left'
                             \/ writer' = "write" /\ cur' = q
                             \/ reader'[gen'] = "run" /\ (OnItsWay(q)' \/ link'[gen'] = "down")
                             \/ reader'[gen'] = "notify" \/ died' = gen'
        BY DEF WaitersServed
      <3>1. q \in Calls /\ gen \in Gens /\ link[gen] \in {"up", "down"}
        BY DEF ConnInv
      <3> HIDE DEF TypeOK, Calls, Gens
      <3>2. \/ at'[gen][q] = at[gen][q]
            \/ at'[gen][q] \in {"buffered", "back"}
            \/ link[gen] = "down"
        BY <1>21, <3>1, ResponsePlaces
      <3> QED BY <1>21, <3>1, <3>2 DEF response_writer, WaitersServed, OnItsWay, HearInv, HandInv
    <2> QED BY <2>1, <2>2, <2>3 DEF ServedInv
  <1>22. ASSUME NEW g \in Gens, BatchTimeout(g) PROVE ServedInv'
    <2>1. PendingInv'
      BY <1>22 DEF BatchTimeout, Flush, In, PendingInv
    <2>2. HearInv'
      BY <1>22 DEF BatchTimeout, Flush, In, HearInv
    <2>3. WaitersServed'
      BY <1>22 DEF BatchTimeout, Flush, In, WaitersServed, OnItsWay, PendingInv, HearInv,
          HandInv, ConnInv
    <2> QED BY <2>1, <2>2, <2>3 DEF ServedInv
  <1>23. ASSUME NEW g \in Gens, LinkDown(g) PROVE ServedInv'
    <2>1. PendingInv'
      BY <1>23 DEF LinkDown, PendingInv
    <2>2. HearInv'
      BY <1>23 DEF LinkDown, HearInv
    <2>3. WaitersServed'
      BY <1>23 DEF LinkDown, WaitersServed, OnItsWay
    <2> QED BY <2>1, <2>2, <2>3 DEF ServedInv
  <1> HIDE DEF PipeInv, ServedInv, TypeOK, Calls, Gens, None, NoGen, callVars, muxVars,
      writerVars, readerVars, serverVars
  <1> QED BY <1>1, <1>2, <1>3, <1>4, <1>5, <1>6, <1>7, <1>8, <1>9, <1>10, <1>11, <1>12, <1>13,
      <1>14, <1>15, <1>16, <1>17, <1>18, <1>19, <1>20, <1>21, <1>22, <1>23 DEF Next, Writer, Reader, Server
LEMMA PipeInvInit == Init => PipeInv
  BY FuseAssumption DEF Init, PipeInv, TypeOK, ConnInv, HandInv, ForgetInv, Unsent, Calls, Gens,
      None, NoGen, Places

LEMMA PipeInvStutter == ASSUME PipeInv, UNCHANGED vars PROVE PipeInv'
  BY DEF vars, callVars, muxVars, writerVars, readerVars, serverVars, steps, PipeInv, TypeOK, ConnInv,
      HandInv, ForgetInv, Unsent, Reconnectable, GivesUp

LEMMA ServedInvInit == Init => ServedInv
  BY FuseAssumption DEF Init, ServedInv, PendingInv, HearInv, WaitersServed, Calls, Gens, None,
      NoGen

LEMMA ServedInvStutter == ASSUME ServedInv, UNCHANGED vars PROVE ServedInv'
  BY DEF vars, callVars, muxVars, writerVars, readerVars, serverVars, steps, ServedInv, PendingInv,
      HearInv, BadFrames, WaitersServed, OnItsWay

LEMMA SpecPipeInv == Spec => []PipeInv
  BY PipeInvInit, PipeInvStep, PipeInvStutter, PTL DEF Spec

(* Every variable of the multiplexer and of the server has its type (TypeOK)
   for any callers, batch size and number of reconnections. *)
THEOREM PipeTypes == Spec => []TypeOK
  BY SpecPipeInv, PTL DEF PipeInv

(* A forget is applied at most once (ForgetsOnce), whatever fails: the writer
   of the multiplexer writes it again only if the write failed, and it is not in
   the map that a reconnection goes through. *)
THEOREM ForgetsApplyOnce == Spec => []ForgetsOnce
  <1>1. PipeInv => ForgetsOnce
    BY DEF PipeInv, ForgetInv, ForgetsOnce
  <1> QED BY <1>1, SpecPipeInv, PTL

(* No step replaces a connection that is up and read (HealthyKept): do_reconnect
   is reached only after a failed write, or for the notice of the reader of the
   current connection, and generations keep the notices of earlier ones away. *)
THEOREM WorkingConnectionsStay == Spec => HealthyKept
  <1>1. PipeInv /\ [Next]_vars => [gen' # gen => link[gen] = "down" \/ reader[gen] = "ended"]_vars
    <2> SUFFICES ASSUME PipeInv, [Next]_vars, gen' # gen
                 PROVE  link[gen] = "down" \/ reader[gen] = "ended"
      BY DEF HealthyKept
    <2>1. writer = "connect"
      BY DEF Next, Writer, Reader, Server, send_request, send_request_no_reply, Submit,
          TakeRequest, WriteOk, WriteFails, DeathNotice, Connect, Resend, GiveUp,
          fail_all_pending, Reconnected, RetryForget, WriterEnds, ReaderReceives, ReaderDies,
          BadFrame, Notify, ReaderEnds, request_reader, handle_request, response_writer,
          BatchTimeout, LinkDown, vars, steps, callVars, muxVars, writerVars, readerVars, serverVars
    <2> QED BY <2>1 DEF PipeInv, ConnInv
  <1> QED BY <1>1, SpecPipeInv, PTL DEF Spec, HealthyKept

(* No request is lost (WaitersServed), for any number of callers and of
   reconnections, in both multiplexers, unless an answer that cannot be parsed
   meets a multiplexer that does not or may not reconnect: its reader is gone and
   its writer does not know. *)
THEOREM NoRequestIsLost == FramesHandled => (Spec => []WaitersServed)
  <1> SUFFICES ASSUME FramesHandled PROVE Spec => []WaitersServed
    OBVIOUS
  <1>1. PipeInv /\ PipeInv' /\ ServedInv /\ [Next]_vars => ServedInv'
    BY ServedInvStep, ServedInvStutter
  <1>2. ServedInv => WaitersServed
    BY DEF ServedInv
  <1> QED BY <1>1, <1>2, SpecPipeInv, ServedInvInit, PTL DEF Spec

=============================================================================
