-------------------------- MODULE WebSocketSession --------------------------
(***************************************************************************)
(* One client WebSocket of aiohttp: ClientWebSocketResponse (client_ws.py),  *)
(* with the queue its frames arrive in (WebSocketDataQueue of                *)
(* _websocket/reader_py.py) and its connection.                             *)
(*                                                                         *)
(* One task calls receive() again and again, it and others call close(), a  *)
(* heartbeat pings the peer, and any task may be cancelled or time out where *)
(* it waits.  A task waits at one of these places (pc):                     *)
(*   reading    receive(): the queue                                        *)
(*   handing    close(): until the task in receive() has left it            *)
(*   writing    close(): until the transport takes the Close frame          *)
(*   draining   close(): the queue, for the peer's Close frame               *)
(* and is idle or done otherwise; clash is the assertion of read().         *)
(* A step runs from one such place to the next.                             *)
(*                                                                         *)
(* Frames of data, pings and pongs are the message data: receive() returns  *)
(* it, or goes on, which its next call does too.  The heartbeat is on.      *)
(* A queue ends with eof or with one of the exceptions that receive() tells *)
(* apart: broken (WebSocketError), failed (any other exception of the       *)
(* reader, such as zlib.error), timeout (the connection's read timeout) and *)
(* disconnected (ClientError).  Nothing in aiohttp sets the last one:       *)
(* connection_lost feeds eof (client_proto.py:87).  But receive() handles   *)
(* it, as "likely" when the connection is lost (client_ws.py:348), and      *)
(* tests/test_client_ws.py:436 sets it, so LostAs may contain it.           *)
(* Flow control of the queue is left out (see StreamFlow for the stream).   *)
(*                                                                         *)
(* An operator whose name starts with Bad is a plausible bug, used only to  *)
(* show that the properties notice it.                                      *)
(***************************************************************************)
EXTENDS Integers, Sequences

CONSTANTS
  Receiver,    \* the task that receives
  Closers,     \* other tasks, each of which calls close() once
  Nobody,      \* no task
  Autoclose,   \* values of the option of that name
  LostAs,      \* what the queue gets when the connection is lost: eof, disconnected
  MaxQueue     \* bound: frames of the peer that wait in the queue

ASSUME SessionAssumption ==
  /\ Receiver \notin Closers /\ Nobody \notin Closers \cup {Receiver}
  /\ LostAs \subseteq {"eof", "disconnected"} /\ LostAs # {}
  /\ Autoclose \subseteq BOOLEAN /\ MaxQueue \in Nat

VARIABLES
  closing,      \* _closing
  closed,       \* _closed
  code,         \* _close_code: none, zero (an empty Close frame's), peer, ok, abnormal, error
  closeWait,    \* _close_wait: none, pending, set or cancelled
  released,     \* the response is closed
  link,         \* the transport: open, closing or lost
  queue,        \* _buffer
  qend,         \* the queue's eof and exception: no, eof, or one of Errors
  waiter,       \* the task whose future is the queue's _waiter
  fut,          \* task -> its future: none, pending, set, cancelled, or its exception
  pc,           \* task -> where it waits
  interrupted,  \* tasks that get CancelledError when they run next
  beat,         \* _heartbeat_cb: off, armed, or moved (to fire too early)
  pong,         \* _pong_response_cb is not None
  ping,         \* _ping_task: none, blocked, or failed (its callback is due)
  frames        \* Close frames written

flags == <<closing, closed, code, closeWait>>
net == <<released, link>>
data == <<queue, qend, waiter, fut>>
heart == <<beat, pong, ping>>
vars == <<closing, closed, code, closeWait, released, link, queue, qend, waiter,
          fut, pc, interrupted, beat, pong, ping, frames>>

Tasks == Closers \cup {Receiver}
Close == {"close", "empty"}
Messages == Close \cup {"data", "closing", "error"}
Errors == {"broken", "failed", "timeout", "disconnected"}

Init ==
  /\ closing = FALSE /\ closed = FALSE /\ code = "none" /\ closeWait = "none"
  /\ released = FALSE /\ link = "open"
  /\ queue = <<>> /\ qend = "no" /\ waiter = Nobody
  /\ fut = [t \in Tasks |-> "none"] /\ pc = [t \in Tasks |-> "idle"]
  /\ interrupted = {}
  /\ beat = "armed" /\ pong = FALSE /\ ping = "none"
  /\ frames = 0

Waiting == pc[Receiver] = "reading"      \* _waiting
Left(t) == [pc EXCEPT ![t] = IF t = Receiver THEN "idle" ELSE "done"]
CodeOf(m) == IF m = "close" THEN "peer" ELSE "zero"

\* Task t can run: what it waits for has happened, or it was interrupted.
Runs(t) == t \in interrupted \/ fut[t] \in {"set"} \cup Errors

-----------------------------------------------------------------------------
(* The heartbeat's timers and the queue's future. *)

\* A task that has ended is not cancelled, and its callback still runs.
CancelPing == ping' = IF ping = "failed" THEN "failed" ELSE "none"

CancelHeartbeat == beat' = "off" /\ pong' = FALSE /\ CancelPing

ResetHeartbeat ==
  /\ beat' = IF beat = "off" THEN "armed" ELSE "moved"
  /\ pong' = FALSE /\ UNCHANGED ping

\* _release_waiter, and set_exception: the future is told unless it is done.
Release(how) ==
  /\ waiter' = Nobody
  /\ fut' = IF waiter # Nobody /\ fut[waiter] = "pending"
              THEN [fut EXCEPT ![waiter] = how] ELSE fut

FeedData(m) == queue' = Append(queue, m) /\ Release("set") /\ UNCHANGED qend

-----------------------------------------------------------------------------
(* close(), with the close code c and the queue q of that moment. *)

\* The response is closed and the call returns or raises.
Settle(t, c) ==
  /\ code' = c /\ released' = TRUE
  /\ link' = IF link = "open" THEN "closing" ELSE link
  /\ pc' = Left(t)

\* read() finds nothing and waits; its assertion fails if another task does.
Await(t, place) ==
  IF waiter = Nobody
    THEN /\ waiter' = t /\ fut' = [fut EXCEPT ![t] = "pending"]
         /\ pc' = [pc EXCEPT ![t] = place]
    ELSE /\ pc' = [pc EXCEPT ![t] = "clash"]
         /\ fut' = [fut EXCEPT ![t] = "none"]
         /\ UNCHANGED waiter

Rests(t) == fut' = [fut EXCEPT ![t] = "none"] /\ UNCHANGED waiter

\* The loop at the end: messages are dropped up to a Close frame.
Drain(t, c, q) ==
  LET found == {i \in DOMAIN q : q[i] \in Close} IN
  \/ \E i \in found :
       /\ \A j \in found : i <= j
       /\ queue' = SubSeq(q, i + 1, Len(q))
       /\ Settle(t, CodeOf(q[i])) /\ Rests(t)
  \/ /\ found = {} /\ qend # "no"
     /\ queue' = <<>> /\ Settle(t, "abnormal") /\ Rests(t)
  \/ /\ found = {} /\ qend = "no"
     /\ queue' = <<>> /\ code' = c /\ Await(t, "draining")
     /\ UNCHANGED net

\* Bug: the code that receive() has set meanwhile is not looked at.
BadWrote(t, c, q) == Drain(t, c, q)

\* The Close frame is written.  A code of 0 counts as no code.
Wrote(t, c, q) ==
  IF c \in {"none", "zero"}
    THEN Drain(t, c, q)
    ELSE Settle(t, c) /\ queue' = q /\ Rests(t)

Write(t, c, q) ==
  \/ link = "open" /\ frames' = frames + 1 /\ Wrote(t, c, q)
  \/ /\ link = "open" /\ frames' = frames + 1
     /\ code' = c /\ queue' = q /\ pc' = [pc EXCEPT ![t] = "writing"] /\ Rests(t)
     /\ UNCHANGED net
  \/ link # "open" /\ Settle(t, "abnormal") /\ queue' = q /\ Rests(t) /\ UNCHANGED frames

\* Bug: the session counts as closed only when the handshake is over.
BadProceed(t, c, q) ==
  IF closed
    THEN /\ pc' = Left(t) /\ code' = c /\ queue' = q /\ Rests(t)
         /\ UNCHANGED <<closed, net, frames>>
    ELSE Write(t, c, q) /\ closed' = (pc' = Left(t))

\* After the hand-over: one call closes the session.
Proceed(t, c, q) ==
  IF closed
    THEN /\ pc' = Left(t) /\ code' = c /\ queue' = q /\ Rests(t)
         /\ UNCHANGED <<closed, net, frames>>
    ELSE closed' = TRUE /\ Write(t, c, q)

\* ... and stops the heartbeat.
Stop == IF closed THEN UNCHANGED heart ELSE CancelHeartbeat

\* Bug: the task in receive() is not told.
BadHandOver(t) ==
  /\ closing' = TRUE /\ closeWait' = "pending" /\ CancelHeartbeat
  /\ pc' = [pc EXCEPT ![t] = "handing"]
  /\ UNCHANGED <<data, closed, code, net, frames>>

\* receive() is made to return first.
HandOver(t) ==
  /\ closing' = TRUE /\ closeWait' = "pending" /\ CancelHeartbeat
  /\ FeedData("closing")
  /\ pc' = [pc EXCEPT ![t] = "handing"]
  /\ UNCHANGED <<closed, code, net, frames>>

\* Bug: close() does not care for a task in receive().
BadCallClose(t) ==
  /\ pc[t] = "idle"
  /\ Proceed(t, code, queue) /\ Stop /\ UNCHANGED <<closing, closeWait, qend>>
  /\ UNCHANGED interrupted

CallClose(t) ==
  /\ pc[t] = "idle"
  /\ IF Waiting /\ ~closing
       THEN HandOver(t)
       ELSE Proceed(t, code, queue) /\ Stop /\ UNCHANGED <<closing, closeWait, qend>>
  /\ UNCHANGED interrupted

\* After _close_wait; cancelled there, the call has no further effect.
HandedOver(t) ==
  /\ pc[t] = "handing"
  /\ \/ /\ t \in interrupted
        /\ pc' = Left(t)
        /\ closeWait' = IF closeWait = "pending" THEN "cancelled" ELSE closeWait
        /\ UNCHANGED <<closing, closed, code, net, data, heart, frames>>
     \/ /\ t \notin interrupted /\ closeWait = "set"
        /\ Proceed(t, code, queue) /\ Stop
        /\ UNCHANGED <<closing, closeWait, qend>>
  /\ interrupted' = interrupted \ {t}

\* The transport takes data again, or is lost.
Written(t) ==
  /\ pc[t] = "writing"
  /\ \/ /\ t \in interrupted \/ link = "lost"
        /\ Settle(t, "abnormal") /\ UNCHANGED <<queue, waiter, fut>>
     \/ t \notin interrupted /\ Wrote(t, code, queue)
  /\ interrupted' = interrupted \ {t}
  /\ UNCHANGED <<closing, closed, closeWait, qend, heart, frames>>

\* Bug: the response is not closed when the peer does not answer in time.
BadDrained(t) ==
  /\ pc[t] = "draining" /\ Runs(t)
  /\ \/ /\ t \in interrupted
        /\ code' = "abnormal" /\ pc' = Left(t)
        /\ waiter' = Nobody /\ fut' = [fut EXCEPT ![t] = "none"]
        /\ UNCHANGED <<queue, net>>
     \/ /\ t \notin interrupted /\ fut[t] = "set" /\ queue # <<>>
        /\ Drain(t, code, queue)
     \/ /\ t \notin interrupted /\ (fut[t] \in Errors \/ queue = <<>>)
        /\ Settle(t, "abnormal") /\ Rests(t) /\ UNCHANGED queue
  /\ interrupted' = interrupted \ {t}
  /\ UNCHANGED <<closing, closed, closeWait, qend, heart, frames>>

\* The queue has a message or an end, or its message is gone, which looks like
\* the end; or the timeout has elapsed, and _waiter is reset, whosever it is.
Drained(t) ==
  /\ pc[t] = "draining" /\ Runs(t)
  /\ \/ /\ t \in interrupted
        /\ Settle(t, "abnormal") /\ UNCHANGED queue
        /\ waiter' = Nobody /\ fut' = [fut EXCEPT ![t] = "none"]
     \/ /\ t \notin interrupted /\ fut[t] = "set" /\ queue # <<>>
        /\ Drain(t, code, queue)
     \/ /\ t \notin interrupted /\ (fut[t] \in Errors \/ queue = <<>>)
        /\ Settle(t, "abnormal") /\ Rests(t) /\ UNCHANGED queue
  /\ interrupted' = interrupted \ {t}
  /\ UNCHANGED <<closing, closed, closeWait, qend, heart, frames>>

-----------------------------------------------------------------------------
(* receive(). *)

\* What read() gives the receiver: a message first, then the queue's end.
Reads == IF queue # <<>> THEN Head(queue) ELSE qend

\* receive() goes on with a message, or with the end of the queue.  All of
\* its ways that close the session close the response, but the last.
Took(m) ==
  \/ /\ m \in {"data", "error"}
     /\ ResetHeartbeat
     /\ queue' = Tail(queue) /\ pc' = Left(Receiver) /\ Rests(Receiver)
     /\ UNCHANGED <<closing, closed, code, net, frames>>
  \/ /\ m = "closing"
     /\ closing' = TRUE /\ CancelHeartbeat
     /\ queue' = Tail(queue) /\ pc' = Left(Receiver) /\ Rests(Receiver)
     /\ UNCHANGED <<closed, code, net, frames>>
  \/ /\ m \in Close
     /\ closing' = TRUE /\ CancelHeartbeat
     /\ \/ TRUE \in Autoclose /\ Proceed(Receiver, CodeOf(m), Tail(queue))
        \/ /\ FALSE \in Autoclose
           /\ code' = CodeOf(m)
           /\ queue' = Tail(queue) /\ pc' = Left(Receiver) /\ Rests(Receiver)
           /\ UNCHANGED <<closed, net, frames>>
  \/ /\ m \in {"eof", "broken"}
     /\ Proceed(Receiver, IF m = "eof" THEN "ok" ELSE "error", queue) /\ Stop
     /\ UNCHANGED closing
  \/ /\ m = "failed"
     /\ closing' = TRUE /\ CancelHeartbeat
     /\ Proceed(Receiver, "abnormal", queue)
  \/ /\ m = "disconnected"
     /\ closed' = TRUE /\ CancelHeartbeat
     /\ code' = "abnormal" /\ pc' = Left(Receiver) /\ Rests(Receiver)
     /\ UNCHANGED <<closing, net, queue, frames>>
  \/ /\ m = "timeout"
     /\ code' = "abnormal" /\ pc' = Left(Receiver) /\ Rests(Receiver)
     /\ UNCHANGED <<closing, closed, net, queue, heart, frames>>

\* A call of receive(): of a closed session it returns at once.
Receive ==
  /\ pc[Receiver] = "idle" /\ ~closed
  /\ \/ closing /\ Proceed(Receiver, code, queue) /\ Stop /\ UNCHANGED closing
     \/ ~closing /\ Reads # "no" /\ Took(Reads)
     \/ /\ ~closing /\ Reads = "no" /\ Await(Receiver, "reading")
        /\ UNCHANGED <<closing, closed, code, net, queue, heart, frames>>
  /\ UNCHANGED <<closeWait, qend, interrupted>>

\* Whatever ends the wait of receive(), a close() that waits for it goes on.
Told == closeWait' = IF closeWait = "pending" THEN "set" ELSE closeWait

\* Bug: a close() that waits is told of messages only.
BadReceived ==
  /\ Waiting /\ Runs(Receiver)
  /\ \/ /\ Receiver \in interrupted
        /\ code' = "abnormal" /\ pc' = Left(Receiver)
        /\ waiter' = Nobody /\ fut' = [fut EXCEPT ![Receiver] = "none"]
        /\ UNCHANGED <<closing, closed, closeWait, net, queue, heart, frames>>
     \/ /\ Receiver \notin interrupted
        /\ Took(IF fut[Receiver] \in Errors THEN fut[Receiver] ELSE IF Reads = "no" THEN "eof" ELSE Reads)
        /\ Told
  /\ interrupted' = interrupted \ {Receiver}
  /\ UNCHANGED qend

\* receive() after its wait.  Its message may be gone: that looks like the end.
\* Interrupted, it resets the queue's _waiter, whosever it is.
Received ==
  /\ Waiting /\ Runs(Receiver)
  /\ \/ /\ Receiver \in interrupted
        /\ code' = "abnormal" /\ pc' = Left(Receiver)
        /\ waiter' = Nobody /\ fut' = [fut EXCEPT ![Receiver] = "none"]
        /\ UNCHANGED <<closing, closed, net, queue, heart, frames>>
     \/ /\ Receiver \notin interrupted
        /\ Took(IF fut[Receiver] \in Errors THEN fut[Receiver] ELSE IF Reads = "no" THEN "eof" ELSE Reads)
  /\ Told
  /\ interrupted' = interrupted \ {Receiver}
  /\ UNCHANGED qend

\* A task is cancelled, or its timeout for the queue elapses.
Interrupt(t) ==
  /\ pc[t] \in {"reading", "handing", "writing", "draining"}
  /\ t \notin interrupted
  /\ interrupted' = interrupted \cup {t}
  /\ fut' = IF fut[t] = "pending" THEN [fut EXCEPT ![t] = "cancelled"] ELSE fut
  /\ UNCHANGED <<flags, net, queue, qend, waiter, pc, heart, frames>>

-----------------------------------------------------------------------------
(* The heartbeat. *)

\* _handle_ping_pong_exception: the session is closed and receive() told.
GiveUp ==
  IF closed
    THEN UNCHANGED <<closed, code, net, data, pong, beat>>
    ELSE /\ closed' = TRUE /\ code' = "abnormal" /\ released' = TRUE
         /\ link' = IF link = "open" THEN "closing" ELSE link
         /\ beat' = "off" /\ pong' = FALSE
         /\ IF Waiting /\ ~closing THEN FeedData("error") ELSE UNCHANGED data

\* Bug: a timer that fires too early is not started again.
BadSendHeartbeat ==
  /\ beat # "off"
  /\ \/ /\ beat = "moved" /\ beat' = "off"
        /\ UNCHANGED <<closed, code, net, data, pong, ping>>
     \/ /\ beat = "armed"
        /\ beat' = "off" /\ pong' = TRUE
        /\ ping' \in {"blocked"} \cup {p \in {ping} : link = "open" \/ closed}
        /\ UNCHANGED <<closed, code, net, data>>
     \/ beat = "armed" /\ link # "open" /\ ~closed /\ GiveUp /\ CancelPing
  /\ UNCHANGED <<closing, closeWait, pc, interrupted, frames>>

\* Bug: the next ping is scheduled at once, whether this one is answered or not.
BadPeriodicHeartbeat ==
  /\ beat # "off"
  /\ \/ /\ beat = "moved" /\ beat' = "armed"
        /\ UNCHANGED <<closed, code, net, data, pong, ping>>
     \/ /\ beat = "armed"
        /\ beat' = "armed" /\ pong' = TRUE
        /\ ping' \in {"blocked"} \cup {p \in {ping} : link = "open" \/ closed}
        /\ UNCHANGED <<closed, code, net, data>>
     \/ beat = "armed" /\ link # "open" /\ ~closed /\ GiveUp /\ CancelPing
  /\ UNCHANGED <<closing, closeWait, pc, interrupted, frames>>

\* _send_heartbeat: a timer that was moved starts again; otherwise a ping is
\* sent, at once or by a task, and its answer awaited.
SendHeartbeat ==
  /\ beat # "off"
  /\ \/ /\ beat = "moved" /\ beat' = "armed"
        /\ UNCHANGED <<closed, code, net, data, pong, ping>>
     \/ /\ beat = "armed"
        /\ beat' = "off" /\ pong' = TRUE
        /\ ping' \in {"blocked"} \cup {p \in {ping} : link = "open" \/ closed}
        /\ UNCHANGED <<closed, code, net, data>>
     \/ beat = "armed" /\ link # "open" /\ ~closed /\ GiveUp /\ CancelPing
  /\ UNCHANGED <<closing, closeWait, pc, interrupted, frames>>

\* The task of a ping ends; its callback runs later.
PingEnds ==
  /\ ping = "blocked"
  /\ ping' \in {"none"} \cup IF link = "open" THEN {} ELSE {"failed"}
  /\ UNCHANGED <<flags, net, data, beat, pong, pc, interrupted, frames>>

PingTaskDone ==
  /\ ping = "failed" /\ GiveUp /\ ping' = "none"
  /\ UNCHANGED <<closing, closeWait, pc, interrupted, frames>>

PongNotReceived ==
  /\ pong
  /\ IF closed THEN pong' = FALSE /\ UNCHANGED <<closed, code, net, data, beat, ping>>
     ELSE GiveUp /\ CancelPing
  /\ UNCHANGED <<closing, closeWait, pc, interrupted, frames>>

-----------------------------------------------------------------------------
(* The peer and the connection. *)

PeerSends(m) ==
  /\ link = "open" /\ qend \in {"no", "timeout"} /\ Len(queue) < MaxQueue
  /\ FeedData(m)
  /\ UNCHANGED <<flags, net, heart, pc, interrupted, frames>>

\* The reader raises, or the connection has no data for its read timeout.
QueueFails ==
  /\ link = "open"
  /\ \/ qend \in {"no", "timeout"} /\ qend' \in {"broken", "failed"}
     \/ qend = "no" /\ qend' = "timeout"
  /\ Release(qend')
  /\ UNCHANGED <<flags, net, queue, heart, pc, interrupted, frames>>

\* The transport fails or the peer closes it; connection_lost comes later.
LinkBreaks ==
  /\ link = "open" /\ link' = "closing"
  /\ UNCHANGED <<flags, released, data, heart, pc, interrupted, frames>>

ConnectionLost ==
  /\ link = "closing" /\ link' = "lost"
  /\ \/ qend \in {"broken", "failed"} /\ UNCHANGED <<qend, waiter, fut>>
     \/ /\ qend \in {"no", "timeout"} /\ "eof" \in LostAs
        /\ qend' = (IF qend = "no" THEN "eof" ELSE qend) /\ Release("set")
     \/ /\ qend \in {"no", "timeout"} /\ "disconnected" \in LostAs
        /\ qend' = "disconnected" /\ Release("disconnected")
  /\ UNCHANGED <<flags, released, queue, heart, pc, interrupted, frames>>

TaskStep(t) == CallClose(t) \/ HandedOver(t) \/ Written(t) \/ Drained(t) \/ Interrupt(t)

Next ==
  \/ \E t \in Tasks : TaskStep(t)
  \/ Receive \/ Received
  \/ SendHeartbeat \/ PingEnds \/ PingTaskDone \/ PongNotReceived
  \/ \E m \in Close \cup {"data"} : PeerSends(m)
  \/ QueueFails \/ LinkBreaks \/ ConnectionLost

Spec == Init /\ [][Next]_vars

\* The event loop runs the tasks that can run and its timers fire: that of
\* close() starts again with every message.  A transport may never take more.
Fairness ==
  /\ \A t \in Tasks : WF_vars(HandedOver(t)) /\ WF_vars(Drained(t))
  /\ \A t \in Tasks : WF_vars(pc[t] = "draining" /\ ~Runs(t) /\ Interrupt(t))
  /\ WF_vars(Received)
  /\ WF_vars(SendHeartbeat) /\ WF_vars(PingTaskDone) /\ WF_vars(PongNotReceived)
  /\ WF_vars(ConnectionLost)

FairSpec == Spec /\ Fairness

-----------------------------------------------------------------------------
(* What a session must satisfy. *)

\* The values of the variables, and which tasks have a future.
TypeOK ==
  /\ {closing, closed, released, pong} \subseteq BOOLEAN
  /\ code \in {"none", "zero", "peer", "ok", "abnormal", "error"}
  /\ closeWait \in {"none", "pending", "set", "cancelled"}
  /\ link \in {"open", "closing", "lost"}
  /\ queue \in Seq(Messages) /\ qend \in {"no", "broken", "failed", "timeout"} \cup LostAs
  /\ waiter \in Tasks \cup {Nobody}
  /\ fut \in [Tasks -> {"none", "pending", "set", "cancelled"} \cup Errors]
  /\ pc \in [Tasks -> {"idle", "reading", "handing", "writing", "draining", "done", "clash"}]
  /\ interrupted \subseteq Tasks
  /\ beat \in {"off", "armed", "moved"} /\ ping \in {"none", "blocked", "failed"}
  /\ frames \in Nat
  /\ waiter # Nobody => pc[waiter] \in {"reading", "draining"}
  /\ \A t \in Tasks : fut[t] # "none" <=> pc[t] \in {"reading", "draining"}

\* receive() and close() never wait for the queue together: the assertion of
\* WebSocketDataQueue.read holds.
OneReader == \A t \in Tasks : pc[t] # "clash"

\* However many tasks close the session, one Close frame is written.
OneCloseFrame == frames <= 1

\* A close() that waits for receive() to return waits for a task that will run.
HandOverSeen == closeWait = "pending" => Waiting /\ Runs(Receiver)

\* A closed session whose calls of close() have returned has given its
\* connection back.
GivenBack == closed => released \/ \E t \in Tasks : pc[t] \in {"writing", "draining"}

\* This holds whatever failed or was cancelled, but for one exception: when the
\* queue's is a ClientError, receive() closes the session and not the response.
ClosedIsReleased == GivenBack \/ qend = "disconnected"

\* A session that is neither closed nor being closed is watched: a ping is due
\* or an answer is, although the timer is armed once and only moved later.
OpenIsWatched == ~closing /\ ~closed => beat # "off" \/ pong

\* The peer's close code is not replaced unless something failed, or two other
\* tasks close the session, of which one may take the other's message.
PeerCodeKept ==
  [][code = "peer" /\ code' # "peer" =>
       \/ interrupted # {} \/ link # "open"
       \/ \E c, d \in Closers : c # d /\ pc[c] # "idle" /\ pc[d] # "idle"]_vars

\* A call of receive() returns once the session is closing or closed.
ReceiveEnds == Waiting /\ (closing \/ closed) ~> ~Waiting

\* close() does not wait for receive() or for the peer's Close frame for ever,
\* unless the peer sends messages for ever: the timeout is one for each.
CloseEnds ==
  \/ \A t \in Tasks : pc[t] \in {"handing", "draining"} ~> pc[t] \notin {"handing", "draining"}
  \/ []<><<PeerSends("data")>>_vars

\* A closed session has its timers off in the end, also where a task in
\* receive() starts one again with a message it had not read yet.
HeartbeatStops == closed ~> [](beat = "off" /\ ~pong)
=============================================================================
