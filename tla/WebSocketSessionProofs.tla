----------------------- MODULE WebSocketSessionProofs -----------------------
(***************************************************************************)
(* A WebSocket session keeps its invariants and the peer's close code, for  *)
(* any number of tasks that close it and of frames that wait in its queue.  *)
(***************************************************************************)
EXTENDS WebSocketSession, SequenceTheorems, TLAPS

Codes == {"none", "zero", "peer", "ok", "abnormal", "error"}
Busy == {"writing", "draining"}          \* the places after the session is closed
Ends == {"no", "broken", "failed", "timeout"} \cup LostAs

\* The type invariant, without the tasks and their futures ...
Values ==
  /\ closing \in BOOLEAN /\ closed \in BOOLEAN /\ released \in BOOLEAN /\ pong \in BOOLEAN
  /\ code \in Codes
  /\ closeWait \in {"none", "pending", "set", "cancelled"}
  /\ link \in {"open", "closing", "lost"}
  /\ queue \in Seq(Messages) /\ qend \in Ends
  /\ beat \in {"off", "armed", "moved"} /\ ping \in {"none", "blocked", "failed"}
  /\ frames \in Nat

\* ... and for them.
Awaits ==
  /\ waiter \in Tasks \cup {Nobody}
  /\ fut \in [Tasks -> {"none", "pending", "set", "cancelled"} \cup Errors]
  /\ pc \in [Tasks -> {"idle", "reading", "handing", "writing", "draining", "done", "clash"}]
  /\ interrupted \subseteq Tasks
  /\ waiter # Nobody => pc[waiter] \in {"reading", "draining"}
  /\ \A t \in Tasks : fut[t] # "none" <=> pc[t] \in {"reading", "draining"}

\* One task at most closes the session: it set _closed and is not done yet.
OneCloses ==
  /\ \A t \in Tasks : pc[t] \in Busy => closed
  /\ \A t, u \in Tasks : pc[t] \in Busy /\ pc[u] \in Busy => t = u
  /\ frames <= 1 /\ (~closed => frames = 0)

\* Only the receiver reads; it never waits in its own close() for itself; a
\* hand-over has made the session closing.
Places ==
  /\ \A t \in Tasks : pc[t] = "reading" => t = Receiver
  /\ pc[Receiver] # "handing"
  /\ \A t \in Tasks : pc[t] = "handing" => closing
  /\ OneReader

\* The queue's waiter is a future that is not resolved, and once the session is
\* closing or closed a receiver that still waits is about to run.
Futures ==
  /\ waiter # Nobody => fut[waiter] \in {"pending", "cancelled"}
  /\ \A t \in Tasks : fut[t] = "cancelled" => t \in interrupted
  /\ Waiting /\ ~closing /\ ~closed /\ fut[Receiver] = "pending" => waiter = Receiver
  /\ Waiting /\ (closing \/ closed) => Runs(Receiver) /\ waiter # Receiver
  /\ closeWait = "pending" => Waiting /\ closing
  /\ \A t \in Tasks : fut[t] = "disconnected" => qend = "disconnected"

IInv ==
  /\ Values /\ Awaits /\ OneCloses /\ Places /\ Futures
  /\ ClosedIsReleased /\ OpenIsWatched

-----------------------------------------------------------------------------
(* The task that closes the session. *)

\* What it does in one step: its call ends with the response closed, or it
\* waits for the transport, or for the queue.
Outcome(t) ==
  /\ code' \in Codes /\ queue' \in Seq(Messages)
  /\ released' \in BOOLEAN /\ link' \in {"open", "closing", "lost"}
  /\ \/ /\ pc' = Left(t) /\ released' = TRUE
        /\ fut' = [fut EXCEPT ![t] = "none"] /\ waiter' = Nobody
     \/ /\ pc' = [pc EXCEPT ![t] = "writing"] /\ released' = released
        /\ fut' = [fut EXCEPT ![t] = "none"] /\ waiter' = Nobody
     \/ /\ pc' = [pc EXCEPT ![t] = "draining"] /\ released' = released
        /\ fut' = [fut EXCEPT ![t] = "pending"] /\ waiter' = t

\* A call of close(): nothing is left to do, or it closes the session.
Closes(t) ==
  \/ /\ closed /\ pc[t] \notin Busy \cup {"clash"} /\ waiter # t
     /\ closed' = TRUE /\ UNCHANGED <<net, frames>>
     /\ code' \in Codes /\ queue' \in Seq(Messages)
     /\ pc' = Left(t) /\ fut' = [fut EXCEPT ![t] = "none"] /\ waiter' = waiter
  \/ /\ closed' = TRUE /\ Outcome(t) /\ frames' \in {0, 1}
     /\ \A u \in Tasks \ {t} : pc[u] \notin Busy

\* What goes with it in the same step.
Around(t) ==
  /\ qend' = qend /\ closing' \in BOOLEAN /\ (closing => closing')
  /\ t # Receiver /\ Waiting => closing \/ closed
  /\ closeWait' \in {"none", "pending", "set", "cancelled"}
  /\ closeWait' = "pending" => closeWait = "pending" /\ pc[t] # "reading"
  /\ beat' \in {"off", "armed", "moved"} /\ pong' \in BOOLEAN
  /\ ping' \in {"none", "blocked", "failed"}
  /\ interrupted' \in {interrupted, interrupted \ {t}}

\* A message is added to the queue, and only messages are.
LEMMA AppendedMessage ==
  ASSUME queue \in Seq(Messages), NEW m \in Messages
  PROVE  Append(queue, m) \in Seq(Messages)
  BY AppendProperties

\* The last loop of close(), whatever it finds in the queue.
LEMMA DrainOutcome ==
  ASSUME Values, NEW t \in Tasks, NEW c \in Codes, NEW q \in Seq(Messages),
         waiter = Nobody, Drain(t, c, q)
  PROVE  Outcome(t)
<1>1. CASE \E i \in DOMAIN q :
             /\ queue' = SubSeq(q, i + 1, Len(q))
             /\ Settle(t, CodeOf(q[i])) /\ Rests(t)
  <2>1. PICK i \in DOMAIN q : /\ queue' = SubSeq(q, i + 1, Len(q))
                              /\ Settle(t, CodeOf(q[i])) /\ Rests(t)
    BY <1>1
  <2>2. queue' \in Seq(Messages)
    BY <2>1, SubSeqProperties
  <2>3. CodeOf(q[i]) \in Codes
    BY DEF CodeOf, Codes
  <2> QED
    BY <2>1, <2>2, <2>3 DEF Outcome, Settle, Rests, Values
<1>2. CASE queue' = <<>> /\ Settle(t, "abnormal") /\ Rests(t)
  BY <1>2 DEF Outcome, Settle, Rests, Values, Codes
<1>3. CASE queue' = <<>> /\ code' = c /\ Await(t, "draining") /\ UNCHANGED net
  BY <1>3 DEF Outcome, Await, Values, net
<1> QED
  BY <1>1, <1>2, <1>3 DEF Drain

\* What follows the Close frame.
LEMMA WroteOutcome ==
  ASSUME Values, NEW t \in Tasks, NEW c \in Codes, NEW q \in Seq(Messages),
         waiter = Nobody, Wrote(t, c, q)
  PROVE  Outcome(t)
<1>1. CASE Drain(t, c, q)
  BY <1>1, DrainOutcome
<1>2. CASE Settle(t, c) /\ queue' = q /\ Rests(t)
  BY <1>2 DEF Outcome, Settle, Rests, Values
<1> QED
  BY <1>1, <1>2 DEF Wrote

\* The Close frame is written, or cannot be.
LEMMA WriteOutcome ==
  ASSUME Values, NEW t \in Tasks, NEW c \in Codes, NEW q \in Seq(Messages),
         waiter = Nobody, Write(t, c, q)
  PROVE  Outcome(t) /\ frames' \in {frames, frames + 1}
<1>1. CASE frames' = frames + 1 /\ Wrote(t, c, q)
  BY <1>1, WroteOutcome
<1>2. CASE /\ frames' = frames + 1
           /\ code' = c /\ queue' = q /\ pc' = [pc EXCEPT ![t] = "writing"] /\ Rests(t)
           /\ UNCHANGED net
  BY <1>2 DEF Outcome, Rests, Values, net
<1>3. CASE Settle(t, "abnormal") /\ queue' = q /\ Rests(t) /\ UNCHANGED frames
  BY <1>3 DEF Outcome, Settle, Rests, Values, Codes
<1> QED
  BY <1>1, <1>2, <1>3 DEF Write

\* A task that goes on with close() finds no other task at the queue.
LEMMA NobodyReads ==
  ASSUME IInv, NEW t \in Tasks, waiter # Receiver, pc[t] \in Busy \/ ~closed,
         pc[t] # "draining" \/ waiter # t
  PROVE  waiter = Nobody /\ \A u \in Tasks \ {t} : pc[u] \notin Busy
  BY DEF IInv, Awaits, OneCloses, Places, Busy

\* close() after the hand-over.
LEMMA ProceedCloses ==
  ASSUME IInv, NEW t \in Tasks, NEW c \in Codes, NEW q \in Seq(Messages),
         closed \/ waiter # Receiver, waiter # t, pc[t] \notin Busy, Proceed(t, c, q)
  PROVE  Closes(t)
<1>1. CASE closed
  BY <1>1 DEF Proceed, Closes, Rests, IInv, Places, OneReader
<1>2. CASE ~closed
  <2>1. waiter = Nobody /\ \A u \in Tasks \ {t} : pc[u] \notin Busy
    BY <1>2, NobodyReads DEF Busy
  <2>2. closed' = TRUE /\ Write(t, c, q)
    BY <1>2 DEF Proceed
  <2>3. Outcome(t) /\ frames' \in {frames, frames + 1}
    BY <2>1, <2>2, WriteOutcome DEF IInv
  <2>4. frames = 0
    BY <1>2 DEF IInv, OneCloses
  <2> QED
    BY <2>1, <2>2, <2>3, <2>4 DEF Closes
<1> QED
  BY <1>1, <1>2

\* A step of the task that closes the session keeps the invariant.
LEMMA ClosesIInv ==
  ASSUME IInv, NEW t \in Tasks, Closes(t), Around(t)
  PROVE  IInv'
<1>1. Values'
  <2>1. code' \in Codes /\ queue' \in Seq(Messages) /\ closed' = TRUE
    BY DEF Closes, Outcome
  <2>2. released' \in BOOLEAN /\ link' \in {"open", "closing", "lost"} /\ frames' \in Nat
    BY DEF Closes, Outcome, net, IInv, Values
  <2> QED
    BY <2>1, <2>2 DEF Around, IInv, Values
<1>2. Awaits'
  BY DEF Closes, Around, Outcome, IInv, Awaits, Left
<1>3. OneCloses'
  BY DEF Closes, Outcome, IInv, Awaits, OneCloses, Busy, Left
<1>4. Places'
  BY DEF Closes, Around, Outcome, IInv, Awaits, Places, OneReader, Tasks, Left
<1>5. Futures'
  BY SessionAssumption
     DEF Closes, Around, Outcome, IInv, Awaits, Futures, Waiting, Runs, Tasks, Left
<1>6. ClosedIsReleased'
  BY DEF Around, Closes, Outcome, IInv, Awaits, ClosedIsReleased, GivenBack, Busy, Left, net
<1>7. OpenIsWatched'
  BY DEF Closes, OpenIsWatched
<1> QED
  BY <1>1, <1>2, <1>3, <1>4, <1>5, <1>6, <1>7 DEF IInv

\* A close() that makes receive() return first.
LEMMA HandOverIInv ==
  ASSUME IInv, NEW t \in Tasks, pc[t] = "idle", Waiting, ~closing, HandOver(t),
         UNCHANGED interrupted
  PROVE  IInv'
<1>1. Values'
  BY AppendedMessage
     DEF HandOver, FeedData, CancelHeartbeat, CancelPing, IInv, Values, net, Messages
<1>2. Awaits'
  BY DEF HandOver, FeedData, Release, IInv, Awaits
<1>3. OneCloses'
  BY DEF HandOver, IInv, OneCloses, Busy
<1>4. Places'
  BY DEF HandOver, IInv, Places, OneReader, Waiting
<1>5. Futures'
  BY SessionAssumption
     DEF HandOver, FeedData, Release, IInv, Awaits, Futures, Waiting, Runs, Tasks
<1>6. ClosedIsReleased'
  BY DEF HandOver, FeedData, IInv, ClosedIsReleased, GivenBack, net
<1>7. OpenIsWatched'
  BY DEF HandOver, OpenIsWatched
<1> QED
  BY <1>1, <1>2, <1>3, <1>4, <1>5, <1>6, <1>7 DEF IInv

\* close() is called.
LEMMA CallCloseIInv ==
  ASSUME IInv, NEW t \in Tasks, CallClose(t)
  PROVE  IInv'
<1>1. CASE Waiting /\ ~closing
  BY <1>1, HandOverIInv DEF CallClose
<1>2. CASE ~(Waiting /\ ~closing)
  <2>1. Proceed(t, code, queue) /\ Stop /\ UNCHANGED <<closing, closeWait, qend, interrupted>>
    BY <1>2 DEF CallClose
  <2>2. code \in Codes /\ queue \in Seq(Messages)
    BY DEF IInv, Values
  <2>3. pc[t] = "idle" /\ waiter # t /\ (closed \/ waiter # Receiver)
    BY <1>2, SessionAssumption
       DEF CallClose, IInv, Awaits, Futures, Waiting, OneCloses, Busy, Tasks
  <2>4. Closes(t)
    BY <2>1, <2>2, <2>3, ProceedCloses DEF Busy
  <2>5. Around(t)
    BY <1>2, <2>1, <2>3 DEF Around, Stop, CancelHeartbeat, CancelPing, heart, IInv, Values
  <2> QED
    BY <2>4, <2>5, ClosesIInv
<1> QED
  BY <1>1, <1>2

\* close() after the hand-over, or cancelled in it.
LEMMA HandedOverIInv ==
  ASSUME IInv, NEW t \in Tasks, HandedOver(t)
  PROVE  IInv'
<1>1. CASE t \in interrupted
  <2>1. Values'
    BY <1>1 DEF HandedOver, IInv, Values, net, data, heart
  <2>2. Awaits'
    BY <1>1 DEF HandedOver, IInv, Awaits, Left, data
  <2>3. OneCloses'
    BY <1>1 DEF HandedOver, IInv, Awaits, OneCloses, Busy, Left
  <2>4. Places'
    BY <1>1 DEF HandedOver, IInv, Awaits, Places, OneReader, Tasks, Left
  <2>5. Futures'
    BY <1>1 DEF HandedOver, IInv, Awaits, Futures, Waiting, Runs, Tasks, Left, data
  <2>6. ClosedIsReleased'
    BY <1>1 DEF HandedOver, IInv, Awaits, ClosedIsReleased, GivenBack, Busy, Left, net, data
  <2>7. OpenIsWatched'
    BY <1>1 DEF HandedOver, IInv, OpenIsWatched, heart
  <2> QED
    BY <2>1, <2>2, <2>3, <2>4, <2>5, <2>6, <2>7 DEF IInv
<1>2. CASE t \notin interrupted
  <2>1. /\ Proceed(t, code, queue) /\ Stop /\ UNCHANGED <<closing, closeWait, qend>>
        /\ interrupted' = interrupted \ {t}
    BY <1>2 DEF HandedOver
  <2>2. code \in Codes /\ queue \in Seq(Messages)
    BY DEF IInv, Values
  <2>3. pc[t] = "handing" /\ closing /\ waiter # t /\ (closed \/ waiter # Receiver)
    BY SessionAssumption
       DEF HandedOver, IInv, Awaits, Futures, Places, Waiting, OneCloses, Busy, Tasks
  <2>4. Closes(t)
    BY <2>1, <2>2, <2>3, ProceedCloses DEF Busy
  <2>5. Around(t)
    BY <2>1, <2>3 DEF Around, Stop, CancelHeartbeat, CancelPing, heart, IInv, Values
  <2> QED
    BY <2>4, <2>5, ClosesIInv
<1> QED
  BY <1>1, <1>2

\* A task that closes the session goes on from one of its two places.
LEMMA BusyIInv ==
  ASSUME IInv, NEW t \in Tasks, pc[t] \in Busy, Outcome(t),
         \A u \in Tasks \ {t} : pc[u] \notin Busy, interrupted' = interrupted \ {t},
         UNCHANGED <<closing, closed, closeWait, qend, heart, frames>>
  PROVE  IInv'
<1>1. closed /\ frames \in {0, 1}
  BY DEF IInv, OneCloses, Values
<1>2. Closes(t)
  BY <1>1 DEF Closes
<1>3. Around(t)
  BY <1>1 DEF Around, IInv, Values, heart, Busy
<1> QED
  BY <1>2, <1>3, ClosesIInv

\* The transport takes data again, or is lost, or the task is interrupted.
LEMMA WrittenIInv ==
  ASSUME IInv, NEW t \in Tasks, Written(t)
  PROVE  IInv'
<1>1. waiter = Nobody /\ \A u \in Tasks \ {t} : pc[u] \notin Busy
  BY NobodyReads DEF Written, Busy, IInv, Futures, OneCloses, Awaits, Waiting
<1>2. Outcome(t)
  <2>1. CASE Settle(t, "abnormal") /\ UNCHANGED <<queue, waiter, fut>>
    BY <2>1, <1>1 DEF Outcome, Settle, Written, IInv, Values, Awaits, Codes
  <2>2. CASE Wrote(t, code, queue)
    BY <2>2, <1>1, WroteOutcome DEF IInv, Values
  <2> QED
    BY <2>1, <2>2 DEF Written
<1> QED
  BY <1>1, <1>2, BusyIInv DEF Written, Busy

\* The queue has something for the task that drains it, or it is interrupted.
LEMMA DrainedIInv ==
  ASSUME IInv, NEW t \in Tasks, Drained(t)
  PROVE  IInv'
<1>1. \A u \in Tasks \ {t} : pc[u] \notin Busy
  BY DEF Drained, IInv, OneCloses, Busy
<1>2. Outcome(t)
  <2>1. CASE t \in interrupted
    BY <2>1 DEF Drained, Outcome, Settle, IInv, Values, Codes
  <2>2. CASE t \notin interrupted
    <3>1. waiter = Nobody
      BY <2>2, NobodyReads DEF Drained, Runs, Errors, IInv, Futures, OneCloses, Awaits, Busy, Waiting
    <3>2. CASE Drain(t, code, queue)
      BY <3>1, <3>2, DrainOutcome DEF IInv, Values
    <3>3. CASE Settle(t, "abnormal") /\ Rests(t) /\ UNCHANGED queue
      BY <3>1, <3>3 DEF Outcome, Settle, Rests, IInv, Values, Codes
    <3> QED
      BY <2>2, <3>2, <3>3 DEF Drained
  <2> QED
    BY <2>1, <2>2
<1> QED
  BY <1>1, <1>2, BusyIInv DEF Drained, Busy

\* A task is cancelled or times out.
LEMMA InterruptIInv ==
  ASSUME IInv, NEW t \in Tasks, Interrupt(t)
  PROVE  IInv'
<1>1. Values'
  BY DEF Interrupt, IInv, Values, net, flags, heart
<1>2. Awaits'
  BY DEF Interrupt, IInv, Awaits
<1>3. OneCloses'
  BY DEF Interrupt, IInv, OneCloses, flags
<1>4. Places'
  BY DEF Interrupt, IInv, Places, OneReader, flags
<1>5. Futures'
  BY DEF Interrupt, IInv, Futures, Waiting, Runs, flags
<1>6. ClosedIsReleased'
  BY DEF Interrupt, IInv, ClosedIsReleased, GivenBack, net, flags
<1>7. OpenIsWatched'
  BY DEF Interrupt, IInv, OpenIsWatched, flags, heart
<1> QED
  BY <1>1, <1>2, <1>3, <1>4, <1>5, <1>6, <1>7 DEF IInv

\* The heartbeat gives the session up.
LEMMA GiveUpIInv ==
  ASSUME IInv, GiveUp, ping' \in {"none", "blocked", "failed"},
         UNCHANGED <<closing, closeWait, pc, interrupted, frames>>
  PROVE  IInv'
<1>1. Values'
  <2>1. queue' \in Seq(Messages) /\ qend' = qend
    BY DEF GiveUp, FeedData, data, Messages, IInv, Values
  <2>2. CASE closed
    BY <2>1, <2>2 DEF GiveUp, net, IInv, Values
  <2>3. CASE ~closed
    BY <2>1, <2>3 DEF GiveUp, Codes, IInv, Values
  <2> QED
    BY <2>2, <2>3
<1>2. Awaits'
  BY DEF GiveUp, FeedData, Release, IInv, Awaits, data
<1>3. OneCloses'
  BY DEF GiveUp, IInv, OneCloses
<1>4. Places'
  BY DEF IInv, Places, OneReader
<1>5. Futures'
  BY SessionAssumption
     DEF GiveUp, FeedData, Release, IInv, Awaits, Futures, Waiting, Runs, Tasks, data
<1>6. ClosedIsReleased'
  BY DEF GiveUp, FeedData, IInv, ClosedIsReleased, GivenBack, net, data
<1>7. OpenIsWatched'
  BY DEF GiveUp, OpenIsWatched
<1> QED
  BY <1>1, <1>2, <1>3, <1>4, <1>5, <1>6, <1>7 DEF IInv

\* A ping is sent, or the timer starts again.
LEMMA SendHeartbeatIInv ==
  ASSUME IInv, SendHeartbeat
  PROVE  IInv'
<1>1. CASE GiveUp /\ CancelPing
  BY <1>1, GiveUpIInv DEF SendHeartbeat, CancelPing, IInv, Values
<1>2. CASE /\ UNCHANGED <<closed, code, net, data>>
           /\ beat' # "off" \/ pong'
           /\ beat' \in {"off", "armed", "moved"} /\ pong' \in BOOLEAN
           /\ ping' \in {"none", "blocked", "failed"}
  <2>1. Values'
    BY <1>2 DEF SendHeartbeat, IInv, Values, net, data
  <2>2. Awaits'
    BY <1>2 DEF SendHeartbeat, IInv, Awaits, data
  <2>3. OneCloses'
    BY <1>2 DEF SendHeartbeat, IInv, OneCloses
  <2>4. Places'
    BY <1>2 DEF SendHeartbeat, IInv, Places, OneReader
  <2>5. Futures'
    BY <1>2 DEF SendHeartbeat, IInv, Futures, Waiting, Runs, data
  <2>6. ClosedIsReleased'
    BY <1>2 DEF SendHeartbeat, IInv, ClosedIsReleased, GivenBack, net, data
  <2>7. OpenIsWatched'
    BY <1>2 DEF OpenIsWatched
  <2> QED
    BY <2>1, <2>2, <2>3, <2>4, <2>5, <2>6, <2>7 DEF IInv
<1> QED
  BY <1>1, <1>2 DEF SendHeartbeat, IInv, Values

\* The callback of a ping's task that failed.
LEMMA PingTaskDoneIInv ==
  ASSUME IInv, PingTaskDone
  PROVE  IInv'
  BY GiveUpIInv DEF PingTaskDone

\* No pong in time.
LEMMA PongNotReceivedIInv ==
  ASSUME IInv, PongNotReceived
  PROVE  IInv'
<1>1. CASE closed
  <2>1. Values'
    BY <1>1, SessionAssumption DEF PongNotReceived, data, net, IInv, Values
  <2>2. Awaits'
    BY <1>1 DEF PongNotReceived, IInv, Awaits, data
  <2>3. OneCloses'
    BY <1>1 DEF PongNotReceived, IInv, OneCloses
  <2>4. Places'
    BY <1>1 DEF PongNotReceived, IInv, Places, OneReader
  <2>5. Futures'
    BY <1>1 DEF PongNotReceived, IInv, Futures, Waiting, Runs, data
  <2>6. ClosedIsReleased'
    BY <1>1 DEF PongNotReceived, IInv, ClosedIsReleased, GivenBack, net, data
  <2>7. OpenIsWatched'
    BY <1>1 DEF PongNotReceived, OpenIsWatched
  <2> QED
    BY <2>1, <2>2, <2>3, <2>4, <2>5, <2>6, <2>7 DEF IInv
<1>2. CASE ~closed
  BY <1>2, GiveUpIInv DEF PongNotReceived, CancelPing, IInv, Values
<1> QED
  BY <1>1, <1>2

\* The task of a ping ends.
LEMMA PingEndsIInv ==
  ASSUME IInv, PingEnds
  PROVE  IInv'
<1>1. Values'
  BY DEF PingEnds, IInv, Values, net, flags, data
<1>2. Awaits'
  BY DEF PingEnds, IInv, Awaits, data
<1>3. OneCloses'
  BY DEF PingEnds, IInv, OneCloses, flags
<1>4. Places'
  BY DEF PingEnds, IInv, Places, OneReader, flags
<1>5. Futures'
  BY DEF PingEnds, IInv, Futures, Waiting, Runs, flags, data
<1>6. ClosedIsReleased'
  BY DEF PingEnds, IInv, ClosedIsReleased, GivenBack, net, flags, data
<1>7. OpenIsWatched'
  BY DEF PingEnds, IInv, OpenIsWatched, flags
<1> QED
  BY <1>1, <1>2, <1>3, <1>4, <1>5, <1>6, <1>7 DEF IInv

\* A frame arrives.
LEMMA PeerSendsIInv ==
  ASSUME IInv, NEW m \in Messages, PeerSends(m)
  PROVE  IInv'
<1>1. Values'
  BY DEF PeerSends, FeedData, IInv, Values, net, flags, heart
<1>2. Awaits'
  BY DEF PeerSends, FeedData, Release, IInv, Awaits
<1>3. OneCloses'
  BY DEF PeerSends, IInv, OneCloses, flags
<1>4. Places'
  BY DEF PeerSends, IInv, Places, OneReader, flags
<1>5. Futures'
  BY SessionAssumption
     DEF PeerSends, FeedData, Release, IInv, Awaits, Futures, Waiting, Runs, flags
<1>6. ClosedIsReleased'
  BY DEF PeerSends, IInv, ClosedIsReleased, GivenBack, net, flags
<1>7. OpenIsWatched'
  BY DEF PeerSends, IInv, OpenIsWatched, flags, heart
<1> QED
  BY <1>1, <1>2, <1>3, <1>4, <1>5, <1>6, <1>7 DEF IInv

\* The queue is broken, or the connection's read timeout elapses.
LEMMA QueueFailsIInv ==
  ASSUME IInv, QueueFails
  PROVE  IInv'
<1>1. Values'
  BY DEF QueueFails, IInv, Values, net, flags, heart, Ends
<1>2. Awaits'
  BY DEF QueueFails, Release, IInv, Awaits, Errors
<1>3. OneCloses'
  BY DEF QueueFails, IInv, OneCloses, flags
<1>4. Places'
  BY DEF QueueFails, IInv, Places, OneReader, flags
<1>5. Futures'
  BY SessionAssumption DEF QueueFails, Release, IInv, Awaits, Futures, Waiting, Runs, flags
<1>6. ClosedIsReleased'
  BY DEF QueueFails, IInv, ClosedIsReleased, GivenBack, net, flags
<1>7. OpenIsWatched'
  BY DEF QueueFails, IInv, OpenIsWatched, flags, heart
<1> QED
  BY <1>1, <1>2, <1>3, <1>4, <1>5, <1>6, <1>7 DEF IInv

\* The transport closes.
LEMMA LinkBreaksIInv ==
  ASSUME IInv, LinkBreaks
  PROVE  IInv'
<1>1. Values'
  BY DEF LinkBreaks, IInv, Values, flags, data, heart
<1>2. Awaits'
  BY DEF LinkBreaks, IInv, Awaits, data
<1>3. OneCloses'
  BY DEF LinkBreaks, IInv, OneCloses, flags
<1>4. Places'
  BY DEF LinkBreaks, IInv, Places, OneReader, flags
<1>5. Futures'
  BY DEF LinkBreaks, IInv, Futures, Waiting, Runs, flags, data
<1>6. ClosedIsReleased'
  BY DEF LinkBreaks, IInv, ClosedIsReleased, GivenBack, flags, data
<1>7. OpenIsWatched'
  BY DEF LinkBreaks, IInv, OpenIsWatched, flags, heart
<1> QED
  BY <1>1, <1>2, <1>3, <1>4, <1>5, <1>6, <1>7 DEF IInv

\* connection_lost ends the queue.
LEMMA ConnectionLostIInv ==
  ASSUME IInv, ConnectionLost
  PROVE  IInv'
<1>1. Values'
  BY DEF ConnectionLost, IInv, Values, flags, heart, Ends
<1>2. Awaits'
  BY DEF ConnectionLost, Release, IInv, Awaits, Errors
<1>3. OneCloses'
  BY DEF ConnectionLost, IInv, OneCloses, flags
<1>4. Places'
  BY DEF ConnectionLost, IInv, Places, OneReader, flags
<1>5. Futures'
  BY SessionAssumption
     DEF ConnectionLost, Release, IInv, Awaits, Futures, Waiting, Runs, Tasks, flags
<1>6. ClosedIsReleased'
  BY DEF ConnectionLost, IInv, ClosedIsReleased, GivenBack, flags
<1>7. OpenIsWatched'
  BY DEF ConnectionLost, IInv, OpenIsWatched, flags, heart
<1> QED
  BY <1>1, <1>2, <1>3, <1>4, <1>5, <1>6, <1>7 DEF IInv

-----------------------------------------------------------------------------
(* receive(). *)

\* receive() returns without closing the session: with a message, a timeout or
\* CancelledError, at once or after a wait.
Leaves ==
  /\ pc[Receiver] \in {"idle", "reading"}
  /\ pc' = Left(Receiver) /\ fut' = [fut EXCEPT ![Receiver] = "none"]
  /\ waiter' \in {waiter, Nobody} \ {Receiver}
  /\ UNCHANGED <<net, frames, qend>>
  /\ closed' \in BOOLEAN /\ (closed => closed')
  /\ closed' = closed \/ qend = "disconnected"
  /\ code' \in Codes /\ queue' \in Seq(Messages)
  /\ closing' \in BOOLEAN /\ (closing => closing')
  /\ beat' \in {"off", "armed", "moved"} /\ pong' \in BOOLEAN
  /\ ping' \in {"none", "blocked", "failed"}
  /\ beat # "off" \/ pong => closed' \/ closing' \/ beat' # "off" \/ pong'
  /\ closeWait' \in {"none", "pending", "set", "cancelled"}
  /\ closeWait' = "pending" => closeWait = "pending" /\ pc[Receiver] = "idle"
  /\ interrupted' \in {interrupted, interrupted \ {Receiver}}

\* receive() returns and the session stays as it is.
LEMMA LeavesIInv ==
  ASSUME IInv, Leaves
  PROVE  IInv'
<1>1. Values'
  BY DEF Leaves, IInv, Values, net
<1>2. Awaits'
  BY DEF Leaves, IInv, Awaits, Tasks, Left
<1>3. OneCloses'
  BY DEF Leaves, IInv, OneCloses, Busy, Left
<1>4. Places'
  BY DEF Leaves, IInv, Places, OneReader, Left
<1>5. Futures'
  BY DEF Leaves, IInv, Awaits, Futures, Waiting, Tasks, Left
<1>6. ClosedIsReleased'
  BY DEF Leaves, IInv, ClosedIsReleased, GivenBack, Left, net
<1>7. OpenIsWatched'
  BY DEF Leaves, IInv, OpenIsWatched
<1> QED
  BY <1>1, <1>2, <1>3, <1>4, <1>5, <1>6, <1>7 DEF IInv

\* receive() goes on with what read() gave.  A step that does so:
\* closing' and the queue's end are those of receive(), which is called or runs.
LEMMA TookIInv ==
  ASSUME IInv, pc[Receiver] \in {"idle", "reading"}, waiter # Receiver,
         NEW m \in Messages \cup Ends \cup Errors \cup {"eof"},
         m \in Messages => queue # <<>>, m = "disconnected" => qend = m,
         Took(m), qend' = qend,
         closeWait' \in {"none", "pending", "set", "cancelled"},
         closeWait' = "pending" => closeWait = "pending" /\ pc[Receiver] = "idle",
         interrupted' \in {interrupted, interrupted \ {Receiver}}
  PROVE  IInv'
<1>1. Receiver \in Tasks /\ code \in Codes /\ queue \in Seq(Messages)
  BY DEF IInv, Values, Tasks
<1>2. m \in Messages => Tail(queue) \in Seq(Messages)
  BY <1>1
<1>3. CASE /\ m \in Messages /\ queue' = Tail(queue)
           /\ pc' = Left(Receiver) /\ Rests(Receiver)
           /\ UNCHANGED <<closed, net, frames>>
           /\ \/ m \in {"data", "error"} /\ ResetHeartbeat /\ UNCHANGED <<closing, code>>
              \/ closing' = TRUE /\ CancelHeartbeat /\ code' \in Codes
  <2>1. Leaves
    <3>1. /\ waiter' \in {waiter, Nobody} \ {Receiver} /\ queue' \in Seq(Messages)
          /\ code' \in Codes /\ fut' = [fut EXCEPT ![Receiver] = "none"]
      BY <1>1, <1>2, <1>3 DEF Rests
    <3>2. CASE ResetHeartbeat /\ UNCHANGED <<closing, code>>
      BY <1>3, <3>1, <3>2 DEF Leaves, ResetHeartbeat, IInv, Values, net
    <3>3. CASE closing' = TRUE /\ CancelHeartbeat
      BY <1>3, <3>1, <3>3 DEF Leaves, CancelHeartbeat, CancelPing, IInv, Values, net
    <3> QED
      BY <1>3, <3>2, <3>3
  <2> QED
    BY <2>1, LeavesIInv
<1>4. CASE m = "timeout"
  <2>1. Leaves
    BY <1>1, <1>4 DEF Took, Leaves, Rests, Close, Codes, heart, IInv, Values, net
  <2> QED
    BY <2>1, LeavesIInv
<1>5. CASE /\ m \in Close /\ Proceed(Receiver, CodeOf(m), Tail(queue))
           /\ closing' = TRUE /\ CancelHeartbeat
  <2>1. Closes(Receiver)
    BY <1>1, <1>2, <1>5, ProceedCloses DEF CodeOf, Codes, Close, Messages, Busy
  <2>2. Around(Receiver)
    BY <1>5 DEF Around, CancelHeartbeat, CancelPing, IInv, Values
  <2> QED
    BY <1>1, <2>1, <2>2, ClosesIInv
<1>6. CASE m \in {"eof", "broken"}
  <2>1. /\ Proceed(Receiver, IF m = "eof" THEN "ok" ELSE "error", queue)
        /\ Stop /\ closing' = closing
    BY <1>6 DEF Took, Close
  <2>2. Closes(Receiver)
    BY <1>1, <2>1, ProceedCloses DEF Codes, Busy
  <2>3. Around(Receiver)
    BY <2>1 DEF Around, Stop, heart, CancelHeartbeat, CancelPing, IInv, Values
  <2> QED
    BY <1>1, <2>2, <2>3, ClosesIInv
<1>7. CASE m = "failed"
  <2>1. Proceed(Receiver, "abnormal", queue) /\ closing' = TRUE /\ CancelHeartbeat
    BY <1>7 DEF Took, Close
  <2>2. Closes(Receiver)
    BY <1>1, <2>1, ProceedCloses DEF Codes, Busy
  <2>3. Around(Receiver)
    BY <2>1 DEF Around, CancelHeartbeat, CancelPing, IInv, Values
  <2> QED
    BY <1>1, <2>2, <2>3, ClosesIInv
<1>8. CASE m = "disconnected"
  <2>1. Leaves
    BY <1>1, <1>8
       DEF Took, Leaves, Rests, Close, Codes, CancelHeartbeat, CancelPing, IInv, Values
  <2> QED
    BY <2>1, LeavesIInv
<1> QED
  BY <1>1, <1>3, <1>4, <1>5, <1>6, <1>7, <1>8 DEF Took, Close, CodeOf, Codes, Messages

\* receive() is called.
LEMMA ReceiveIInv ==
  ASSUME IInv, Receive
  PROVE  IInv'
<1>1. /\ pc[Receiver] = "idle" /\ waiter # Receiver /\ ~Waiting
      /\ closeWait' = closeWait /\ qend' = qend /\ interrupted' = interrupted
      /\ closeWait # "pending"
      /\ closeWait \in {"none", "pending", "set", "cancelled"}
  BY SessionAssumption DEF Receive, IInv, Values, Awaits, Futures, Waiting
<1>2. CASE closing
  <2>1. Proceed(Receiver, code, queue) /\ Stop /\ closing' = closing
    BY <1>2 DEF Receive
  <2>2. Receiver \in Tasks /\ code \in Codes /\ queue \in Seq(Messages)
    BY DEF IInv, Values, Tasks
  <2>3. Closes(Receiver)
    BY <1>1, <2>1, <2>2, ProceedCloses DEF Busy
  <2>4. Around(Receiver)
    BY <1>1, <2>1 DEF Around, Stop, heart, CancelHeartbeat, CancelPing, IInv, Values
  <2> QED
    BY <2>2, <2>3, <2>4, ClosesIInv
<1>3. CASE ~closing /\ Reads # "no" /\ Took(Reads)
  <2>1. /\ Reads \in Messages \cup Ends
        /\ Reads \in Messages => queue # <<>>
        /\ Reads = "disconnected" => qend = Reads
    BY <1>3, SessionAssumption DEF Reads, IInv, Values, Messages, Close, Ends
  <2> QED
    BY <1>1, <1>3, <2>1, TookIInv
<1>4. CASE /\ ~closing /\ Await(Receiver, "reading")
           /\ UNCHANGED <<closing, closed, code, net, queue, heart, frames>>
  <2>0. waiter = Nobody /\ ~closed
    BY <1>1, <1>4, NobodyReads DEF Receive, Tasks, Busy
  <2>1. Values'
    BY <1>1, <1>4, <2>0 DEF IInv, Values, net, heart
  <2>2. Awaits'
    BY <1>1, <1>4, <2>0 DEF Await, IInv, Awaits, Tasks
  <2>3. OneCloses'
    BY <1>1, <1>4, <2>0 DEF Await, IInv, Awaits, OneCloses, Busy
  <2>4. Places'
    BY <1>1, <1>4, <2>0 DEF Await, IInv, Awaits, Places, OneReader
  <2>5. Futures'
    BY <1>1, <1>4, <2>0 DEF Await, IInv, Awaits, Futures, Tasks
  <2>6. ClosedIsReleased'
    BY <1>1, <1>4, <2>0 DEF ClosedIsReleased, GivenBack
  <2>7. OpenIsWatched'
    BY <1>1, <1>4, <2>0 DEF IInv, OpenIsWatched, heart
  <2> QED
    BY <2>1, <2>2, <2>3, <2>4, <2>5, <2>6, <2>7 DEF IInv
<1> QED
  BY <1>2, <1>3, <1>4 DEF Receive

\* receive() goes on after its wait.
LEMMA ReceivedIInv ==
  ASSUME IInv, Received
  PROVE  IInv'
<1>1. /\ pc[Receiver] = "reading" /\ qend' = qend
      /\ interrupted' = interrupted \ {Receiver}
      /\ closeWait' \in {"none", "set", "cancelled"}
  BY DEF Received, Waiting, Told, IInv, Values
<1>2. CASE Receiver \in interrupted
  <2>1. Leaves
    BY <1>1, <1>2, SessionAssumption DEF Received, Leaves, Codes, heart, IInv, Values, net
  <2> QED
    BY <2>1, LeavesIInv
<1>3. CASE Receiver \notin interrupted
  <2> DEFINE m == IF fut[Receiver] \in Errors THEN fut[Receiver] ELSE IF Reads = "no" THEN "eof" ELSE Reads
  <2>1. Took(m)
    BY <1>3 DEF Received
  <2>2. waiter # Receiver
    BY <1>3, SessionAssumption DEF Received, Runs, IInv, Futures, Errors
  <2>3. /\ m \in Messages \cup Ends \cup Errors \cup {"eof"}
        /\ m \in Messages => queue # <<>>
        /\ m = "disconnected" => qend = m
    BY SessionAssumption
       DEF Reads, IInv, Values, Futures, Messages, Close, Ends, Errors, Tasks
  <2> HIDE DEF m
  <2> QED
    BY <1>1, <2>1, <2>2, <2>3, TookIInv
<1> QED
  BY <1>2, <1>3

-----------------------------------------------------------------------------
(* The specification. *)

\* A new session.
LEMMA InitIInv == Init => IInv
<1> SUFFICES ASSUME Init PROVE IInv
  OBVIOUS
<1>1. Values
  BY EmptySeq DEF Init, Values, Codes, Ends
<1>2. Awaits
  BY DEF Init, Awaits
<1>3. OneCloses /\ Places /\ Futures
  BY DEF Init, OneCloses, Places, OneReader, Futures, Busy, Tasks
<1>4. ClosedIsReleased /\ OpenIsWatched
  BY DEF Init, ClosedIsReleased, GivenBack, OpenIsWatched
<1> QED
  BY <1>1, <1>2, <1>3, <1>4 DEF IInv

\* Every step keeps the invariant.
LEMMA NextIInv == IInv /\ [Next]_vars => IInv'
<1> SUFFICES ASSUME IInv, [Next]_vars PROVE IInv'
  OBVIOUS
<1>1. CASE \E t \in Tasks : TaskStep(t)
  BY <1>1, CallCloseIInv, HandedOverIInv, WrittenIInv, DrainedIInv, InterruptIInv DEF TaskStep
<1>2. CASE Receive \/ Received
  BY <1>2, ReceiveIInv, ReceivedIInv
<1>3. CASE SendHeartbeat \/ PingEnds \/ PingTaskDone \/ PongNotReceived
  BY <1>3, SendHeartbeatIInv, PingEndsIInv, PingTaskDoneIInv, PongNotReceivedIInv
<1>4. CASE \E m \in Close \cup {"data"} : PeerSends(m)
  BY <1>4, PeerSendsIInv DEF Messages
<1>5. CASE QueueFails \/ LinkBreaks \/ ConnectionLost
  BY <1>5, QueueFailsIInv, LinkBreaksIInv, ConnectionLostIInv
<1>6. CASE UNCHANGED vars
  BY <1>6
     DEF vars, IInv, Values, Awaits, OneCloses, Places, OneReader, Futures, Waiting, Runs,
         ClosedIsReleased, GivenBack, OpenIsWatched
<1> QED
  BY <1>1, <1>2, <1>3, <1>4, <1>5, <1>6 DEF Next

\* The invariant holds always.
THEOREM Invariance == Spec => []IInv
  BY InitIInv, NextIInv, PTL DEF Spec

\* The values of the variables, and that exactly the tasks that wait for the
\* queue have a future there.
THEOREM TypeCorrect == Spec => []TypeOK
<1>1. IInv => TypeOK
  BY DEF IInv, Values, Awaits, Codes, Ends, TypeOK
<1> QED
  BY <1>1, Invariance, PTL

\* The assertion of WebSocketDataQueue.read never fails: receive() and the
\* calls of close() do not wait for the queue together.
THEOREM NeverTwoReaders == Spec => []OneReader
<1>1. IInv => OneReader
  BY DEF IInv, Places
<1> QED
  BY <1>1, Invariance, PTL

\* One Close frame is written, however many tasks close the session.
THEOREM CloseFrameOnce == Spec => []OneCloseFrame
<1>1. IInv => OneCloseFrame
  BY DEF IInv, OneCloses, OneCloseFrame
<1> QED
  BY <1>1, Invariance, PTL

\* close() waits for receive() only while its task is about to run.
THEOREM HandOverIsSeen == Spec => []HandOverSeen
<1>1. IInv => HandOverSeen
  BY DEF IInv, Futures, HandOverSeen
<1> QED
  BY <1>1, Invariance, PTL

\* A closed session gives its connection back, unless its queue ended with a
\* ClientError, after which receive() closes the session alone.
THEOREM ConnectionGivenBack == Spec => []ClosedIsReleased
<1>1. IInv => ClosedIsReleased
  BY DEF IInv
<1> QED
  BY <1>1, Invariance, PTL

\* As long as the queue of a lost connection gets eof, which is all that
\* connection_lost gives it, a closed session always gives its connection back.
THEOREM AlwaysGivenBack ==
  ASSUME "disconnected" \notin LostAs
  PROVE  Spec => []GivenBack
<1>1. IInv => GivenBack
  BY DEF IInv, Values, Ends, ClosedIsReleased
<1> QED
  BY <1>1, Invariance, PTL

\* A session that is open has a ping or its answer due.
THEOREM AlwaysWatched == Spec => []OpenIsWatched
<1>1. IInv => OpenIsWatched
  BY DEF IInv
<1> QED
  BY <1>1, Invariance, PTL

-----------------------------------------------------------------------------
(* The peer's close code. *)

\* At most one of the other tasks has called close().
Alone == \A c, d \in Closers : pc[c] # "idle" /\ pc[d] # "idle" => c = d

\* While the connection stands and at most one other task closes the session:
\* receive() waits only while no close() is past the hand-over, and the peer's
\* code is known only when nobody looks for it any more.
CodeSafe ==
  /\ closeWait = "set" => closing
  /\ link = "open" /\ Alone =>
       /\ ping # "failed"
       /\ closeWait = "set" => ~Waiting
       /\ Waiting => \A c \in Closers : pc[c] \notin Busy
       /\ Waiting /\ closing => \E c \in Closers : pc[c] # "idle"
       /\ code = "peer" =>
            /\ ~Waiting /\ (closing \/ closed)
            /\ \A t \in Tasks : pc[t] # "draining"
            /\ ~closed => beat = "off" /\ ~pong

\* The ways on with close() of task t, which has code c: the transport is
\* closed, or the task waits for the peer's code only if it has none.
WaysOn(t, c) ==
  \/ link' # "open"
  \/ /\ code' = c
     /\ \/ pc' = Left(t)
        \/ \E p \in {"writing", "clash"} : pc' = [pc EXCEPT ![t] = p]
        \/ c # "peer" /\ pc' = [pc EXCEPT ![t] = "draining"]

\* There is no other.
LEMMA ProceedWays ==
  ASSUME NEW t \in Tasks, NEW c, NEW q
  PROVE  /\ \A d : Settle(t, d) => WaysOn(t, c)
         /\ c # "peer" /\ Drain(t, c, q) => WaysOn(t, c)
         /\ Wrote(t, c, q) => WaysOn(t, c)
         /\ Proceed(t, c, q) => closed' /\ WaysOn(t, c)
<1>1. ASSUME NEW d, Settle(t, d) PROVE WaysOn(t, c)
  BY <1>1 DEF Settle, WaysOn
<1>2. ASSUME c # "peer", Drain(t, c, q) PROVE WaysOn(t, c)
  BY <1>1, <1>2 DEF Drain, Await, WaysOn
<1>3. ASSUME Wrote(t, c, q) PROVE WaysOn(t, c)
  BY <1>1, <1>2, <1>3 DEF Wrote
<1>4. ASSUME Write(t, c, q) PROVE WaysOn(t, c)
  <2>1. CASE Wrote(t, c, q)
    BY <1>3, <2>1
  <2>2. CASE ~Wrote(t, c, q)
    BY <1>1, <1>4, <2>2 DEF Write, WaysOn
  <2> QED
    BY <2>1, <2>2
<1>5. ASSUME Proceed(t, c, q) PROVE closed' /\ WaysOn(t, c)
  BY <1>4, <1>5 DEF Proceed, WaysOn
<1> QED
  BY <1>1, <1>2, <1>3, <1>5

\* A task that goes on with close() keeps what is known of the code.
LEMMA ProceedSafe ==
  ASSUME IInv, CodeSafe, NEW t \in Tasks, NEW c, NEW q, Proceed(t, c, q),
         Alone' /\ link = "open" => ~Waiting \/ t = Receiver,
         c = "peer" /\ Alone' /\ link = "open" => \A u \in Tasks \ {t} : pc[u] # "draining",
         Alone' => Alone, link' = "open" => link = "open",
         ping' = "failed" => ping = "failed", closing => closing',
         closeWait' = "set" => closeWait = "set" \/ closing'
  PROVE  CodeSafe'
<1>1. closeWait' = "set" => closing'
  BY DEF CodeSafe
<1>2. ASSUME link' = "open", Alone'
      PROVE  /\ ping' # "failed" /\ ~Waiting' /\ closed'
             /\ code' = "peer" => \A u \in Tasks : pc'[u] # "draining"
  <2>1. /\ closed' /\ code' = c
        /\ \/ pc' = Left(t)
           \/ \E p \in {"writing", "clash"} : pc' = [pc EXCEPT ![t] = p]
           \/ c # "peer" /\ pc' = [pc EXCEPT ![t] = "draining"]
    BY <1>2, ProceedWays DEF WaysOn
  <2>2. pc'[Receiver] # "reading" /\ \A u \in Tasks \ {t} : pc'[u] = pc[u]
    BY <1>2, <2>1 DEF Left, Waiting, IInv, Awaits, Tasks
  <2>3. c = "peer" => pc'[t] # "draining"
    BY <2>1 DEF Left, IInv, Awaits
  <2>4. ping' # "failed"
    BY <1>2 DEF CodeSafe
  <2> QED
    BY <1>2, <2>1, <2>2, <2>3, <2>4 DEF Waiting
<1> QED
  BY <1>1, <1>2 DEF CodeSafe

\* Tasks do not go back to before their close(), nor does the transport.
Onward ==
  /\ \A c \in Closers : pc[c] # "idle" => pc'[c] # "idle"
  /\ link' = "open" => link = "open"

\* Going on with close().
LEMMA ProceedOnward ==
  ASSUME IInv, NEW t \in Tasks, NEW c, NEW q,
         \/ Proceed(t, c, q) \/ Drain(t, c, q) \/ Wrote(t, c, q) \/ Settle(t, c)
  PROVE  Onward /\ (t \in Closers => pc'[t] # "idle")
<1> DEFINE Moved == Onward /\ (t \in Closers => pc'[t] # "idle")
<1> USE SessionAssumption DEF IInv, Awaits, Tasks, Onward
<1>1. ASSUME NEW d, Settle(t, d) PROVE Moved
  BY <1>1 DEF Settle, Left
<1>2. ASSUME NEW d, Drain(t, d, q) PROVE Moved
  BY <1>1, <1>2 DEF Drain, Await, net
<1>3. ASSUME NEW d, Wrote(t, d, q) PROVE Moved
  BY <1>1, <1>2, <1>3 DEF Wrote
<1>4. CASE Proceed(t, c, q)
  BY <1>1, <1>3, <1>4 DEF Proceed, Write, Left, net
<1> QED
  BY <1>1, <1>2, <1>3, <1>4

\* Every step.
LEMMA StepsOnward ==
  ASSUME IInv, [Next]_vars
  PROVE  Onward /\ (Alone' => Alone)
<1> SUFFICES Onward
  BY DEF Onward, Alone
<1> USE SessionAssumption DEF Tasks
<1>1. ASSUME NEW t \in Tasks, CallClose(t) PROVE Onward
  BY <1>1, ProceedOnward DEF CallClose, HandOver, Onward, IInv, Awaits, net
<1>2. ASSUME NEW t \in Tasks, HandedOver(t) PROVE Onward
  BY <1>2, ProceedOnward DEF HandedOver, Onward, Left, IInv, Awaits, net
<1>3. ASSUME NEW t \in Tasks, Written(t) \/ Drained(t) PROVE Onward
  BY <1>3, ProceedOnward DEF Written, Drained
<1>4. ASSUME NEW t \in Tasks, Interrupt(t) PROVE Onward
  BY <1>4 DEF Interrupt, Onward, net
<1>5. ASSUME NEW m, Took(m) PROVE Onward
  <2>1. CASE \/ Proceed(Receiver, CodeOf(m), Tail(queue))
             \/ Proceed(Receiver, IF m = "eof" THEN "ok" ELSE "error", queue)
             \/ Proceed(Receiver, "abnormal", queue)
    BY <2>1, ProceedOnward
  <2> QED
    BY <1>5, <2>1 DEF Took, Onward, Left, IInv, Awaits, net
<1>6. CASE Receive \/ Received
  BY <1>5, <1>6, ProceedOnward DEF Receive, Received, Await, Onward, Left, IInv, Awaits, net
<1>7. CASE SendHeartbeat \/ PingEnds \/ PingTaskDone \/ PongNotReceived
  BY <1>7 DEF SendHeartbeat, PingEnds, PingTaskDone, PongNotReceived, GiveUp, Onward, net
<1>8. CASE (\E m \in Close \cup {"data"} : PeerSends(m)) \/ QueueFails \/ LinkBreaks
           \/ ConnectionLost \/ UNCHANGED vars
  BY <1>8 DEF PeerSends, QueueFails, LinkBreaks, ConnectionLost, vars, Onward, net
<1> QED
  BY <1>1, <1>2, <1>3, <1>4, <1>6, <1>7, <1>8 DEF Next, TaskStep

\* The operations of close() keep what is known of the code.
LEMMA CloseSafe ==
  ASSUME IInv, CodeSafe, Onward, Alone' => Alone, NEW t \in Tasks,
         CallClose(t) \/ HandedOver(t) \/ Written(t) \/ Drained(t) \/ Interrupt(t)
  PROVE  CodeSafe'
<1> USE SessionAssumption DEF Tasks
<1>1. CASE CallClose(t) /\ Waiting /\ ~closing
  <2>1. closing' /\ closeWait' = "pending" /\ (ping' # "failed" \/ ping = "failed")
    BY <1>1 DEF CallClose, HandOver, CancelHeartbeat, CancelPing
  <2>2. pc' = [pc EXCEPT ![t] = "handing"] /\ code' = code /\ link' = link /\ t \in Closers
    BY <1>1 DEF CallClose, HandOver, Waiting, net
  <2> QED
    BY <1>1, <2>1, <2>2
       DEF CallClose, HandOver, CancelHeartbeat, CancelPing, CodeSafe, Waiting, Busy, IInv, Awaits
<1>2. CASE CallClose(t) /\ ~(Waiting /\ ~closing)
  <2>1. Alone' /\ link = "open" => ~Waiting \/ t = Receiver
    <3> SUFFICES ASSUME Alone', link = "open", Waiting, t \in Closers PROVE FALSE
      OBVIOUS
    <3>1. PICK c \in Closers : pc[c] # "idle"
      BY <1>2 DEF CodeSafe
    <3>2. pc'[c] # "idle" /\ pc'[t] # "idle" /\ c # t
      BY <1>2, <3>1, ProceedOnward DEF CallClose, Onward
    <3> QED
      BY <3>1, <3>2 DEF Alone
  <2>2. code = "peer" /\ Alone' /\ link = "open" => \A u \in Tasks \ {t} : pc[u] # "draining"
    BY DEF CodeSafe
  <2> QED
    BY <1>2, <2>1, <2>2, ProceedSafe
       DEF CallClose, Onward, Stop, CancelHeartbeat, CancelPing, heart
<1>3. CASE HandedOver(t) /\ t \in interrupted
  BY <1>3 DEF HandedOver, CodeSafe, Left, Waiting, Busy, heart, net, data, IInv, Awaits, Onward
<1>4. CASE HandedOver(t) /\ t \notin interrupted
  <2>1. link = "open" /\ Alone' => ~Waiting
    BY <1>4 DEF HandedOver, CodeSafe
  <2>2. code = "peer" /\ Alone' /\ link = "open" => \A u \in Tasks \ {t} : pc[u] # "draining"
    BY DEF CodeSafe
  <2> QED
    BY <1>4, <2>1, <2>2, ProceedSafe
       DEF HandedOver, Onward, Stop, CancelHeartbeat, CancelPing, heart
<1>5. CASE Written(t) \/ Drained(t)
  <2> SUFFICES ASSUME link' = "open", Alone' PROVE CodeSafe'
    BY <1>5 DEF Written, Drained, CodeSafe
  <2>1. link = "open" /\ Alone /\ pc[t] \in Busy /\ (pc[t] = "draining" => code # "peer")
    BY <1>5 DEF Onward, Written, Drained, Busy, CodeSafe
  <2>2. WaysOn(t, code)
    BY <1>5, <2>1, ProceedWays DEF Written, Drained
  <2>3. /\ code' = code
        /\ \/ pc' = Left(t)
           \/ \E p \in {"writing", "clash"} : pc' = [pc EXCEPT ![t] = p]
           \/ code # "peer" /\ pc' = [pc EXCEPT ![t] = "draining"]
    BY <2>2 DEF WaysOn
  <2>4. UNCHANGED <<closing, closed, closeWait, heart>>
    BY <1>5 DEF Written, Drained
  <2>5. /\ \A u \in Tasks \ {t} : pc'[u] = pc[u]
        /\ pc'[t] \in {"idle", "done", "writing", "clash", "draining"}
        /\ pc'[t] = "draining" => code # "peer"
        /\ t \in Closers => ~Waiting /\ pc'[t] # "idle"
    BY <2>1, <2>3 DEF Left, IInv, Awaits, CodeSafe
  <2> QED
    BY <2>1, <2>3, <2>4, <2>5 DEF CodeSafe, Waiting, Busy, heart, IInv, Awaits
<1>6. CASE Interrupt(t)
  BY <1>6 DEF Interrupt, CodeSafe, Alone, Waiting, Busy, flags, net, heart
<1> QED
  BY <1>1, <1>2, <1>3, <1>4, <1>5, <1>6

\* receive() keeps what is known of the code.
LEMMA ReceiveSafe ==
  ASSUME IInv, CodeSafe, Onward, Alone' => Alone, Receive \/ Received
  PROVE  CodeSafe'
<1> USE SessionAssumption DEF Tasks
<1>0. /\ ~closed => \A t \in Tasks : pc[t] \notin Busy
      /\ closeWait = "pending" => Waiting /\ closing
  BY DEF IInv, OneCloses, Futures
<1>1. /\ closing => closing'
      /\ closeWait' = "set" => closeWait = "set" \/ closing'
      /\ ping' = "failed" => ping = "failed"
  BY <1>0
     DEF Receive, Received, Told, Took, Stop, CancelHeartbeat, CancelPing, ResetHeartbeat, heart
\* It goes on with close().
<1>2. ASSUME NEW c, NEW q, Proceed(Receiver, c, q),
             c = "peer" => code = "peer" \/ ~closed \/ Waiting
      PROVE  CodeSafe'
  <2>1. c = "peer" /\ Alone' /\ link = "open" =>
          \A u \in Tasks \ {Receiver} : pc[u] # "draining"
    BY <1>0, <1>2 DEF CodeSafe, Busy
  <2> QED
    BY <1>1, <1>2, <2>1, ProceedSafe DEF Onward
\* It returns.
<1>3. ASSUME pc' = Left(Receiver), closed => closed',
             code' = "peer" /\ Alone /\ link = "open" =>
               closing' /\ beat' = "off" /\ ~pong' /\ (~closed \/ Waiting)
      PROVE  CodeSafe'
  <2> SUFFICES ASSUME link' = "open", Alone' PROVE CodeSafe'
    BY <1>1 DEF CodeSafe
  <2>1. link = "open" /\ Alone /\ ~Waiting'
    BY <1>3 DEF Onward, Waiting, Left, IInv, Awaits
  <2>2. \A c \in Closers : pc'[c] = pc[c]
    BY <1>3 DEF Left, IInv, Awaits
  <2>3. code' = "peer" => \A t \in Tasks : pc'[t] # "draining"
    BY <1>0, <1>3, <2>1, <2>2 DEF CodeSafe, Busy, Left, IInv, Awaits
  <2> QED
    BY <1>1, <1>3, <2>1, <2>3 DEF CodeSafe
\* It waits.
<1>4. ASSUME Receive, ~closing, Await(Receiver, "reading"),
             UNCHANGED <<closing, closed, code, net, queue, heart, frames>>
      PROVE  CodeSafe'
  <2>1. ~closed /\ UNCHANGED <<closing, closed, code, link, closeWait, beat, pong, ping>>
    BY <1>4 DEF Receive, net, heart
  <2>2. \A c \in Closers : pc'[c] = pc[c] /\ pc[c] \notin Busy
    BY <1>0, <1>4, <2>1 DEF Await, IInv, Awaits
  <2> QED
    BY <1>4, <2>1, <2>2 DEF CodeSafe
<1>5. ASSUME NEW m, Took(m), code = "peer" /\ Alone /\ link = "open" => FALSE,
             ~closed \/ Waiting
      PROVE  CodeSafe'
  <2>1. CASE m \in Close /\ Proceed(Receiver, CodeOf(m), Tail(queue))
    BY <1>2, <1>5, <2>1
  <2>2. CASE \/ Proceed(Receiver, IF m = "eof" THEN "ok" ELSE "error", queue)
             \/ Proceed(Receiver, "abnormal", queue)
    BY <1>2, <2>2
  <2>3. CASE m = "disconnected"
    <3>1. closed' /\ pc' = Left(Receiver) /\ code' = "abnormal"
      BY <1>5, <2>3 DEF Took, Close
    <3> QED
      BY <1>3, <3>1
  <2>4. CASE m # "disconnected" /\ closed' = closed /\ pc' = Left(Receiver)
    BY <1>3, <1>5, <2>1, <2>2, <2>4 DEF Took, CancelHeartbeat, Close
  <2> QED
    BY <1>5, <2>1, <2>2, <2>3, <2>4 DEF Took, Close
<1>6. CASE Receive
  <2>1. CASE closing
    BY <1>2, <1>6, <2>1 DEF Receive
  <2>2. CASE ~closing
    BY <1>4, <1>5, <1>6, <2>2 DEF Receive, CodeSafe
  <2> QED
    BY <2>1, <2>2
<1>7. CASE Received
  <2>1. CASE Receiver \in interrupted
    BY <1>3, <1>7, <2>1 DEF Received
  <2>2. CASE Receiver \notin interrupted
    BY <1>5, <1>7, <2>2 DEF Received, CodeSafe
  <2> QED
    BY <2>1, <2>2
<1> QED
  BY <1>6, <1>7

\* The heartbeat closes the session by closing the transport.
LEMMA HeartbeatSafe ==
  ASSUME CodeSafe, Onward, Alone' => Alone,
         SendHeartbeat \/ PingEnds \/ PingTaskDone \/ PongNotReceived
  PROVE  CodeSafe'
<1> SUFFICES ASSUME link' = "open", Alone' PROVE CodeSafe'
  BY DEF SendHeartbeat, PingEnds, PingTaskDone, PongNotReceived, CodeSafe, flags
<1>1. link = "open" /\ Alone /\ ping # "failed"
  BY DEF Onward, CodeSafe
<1>2. GiveUp => closed /\ UNCHANGED <<closed, code, link, beat, pong>>
  BY DEF GiveUp, net
<1>3. UNCHANGED <<closing, closeWait, closed, code, pc>>
  BY <1>1, <1>2 DEF SendHeartbeat, PingEnds, PingTaskDone, PongNotReceived, flags
<1>4. ping' # "failed" /\ (~closed /\ beat = "off" /\ ~pong => beat' = "off" /\ ~pong')
  BY <1>1, <1>2 DEF SendHeartbeat, PingEnds, PingTaskDone, PongNotReceived, CancelPing
<1> QED
  BY <1>1, <1>3, <1>4 DEF CodeSafe, Waiting, Busy

\* Every step keeps what is known of the code.
LEMMA NextSafe ==
  ASSUME IInv, CodeSafe, [Next]_vars
  PROVE  CodeSafe'
<1>1. Onward /\ (Alone' => Alone)
  BY StepsOnward
<1>2. CASE \E t \in Tasks : TaskStep(t)
  BY <1>1, <1>2, CloseSafe DEF TaskStep
<1>3. CASE Receive \/ Received
  BY <1>1, <1>3, ReceiveSafe
<1>4. CASE SendHeartbeat \/ PingEnds \/ PingTaskDone \/ PongNotReceived
  BY <1>1, <1>4, HeartbeatSafe
<1>5. CASE (\E m \in Close \cup {"data"} : PeerSends(m)) \/ QueueFails \/ LinkBreaks
           \/ ConnectionLost \/ UNCHANGED vars
  BY <1>1, <1>5
     DEF PeerSends, QueueFails, LinkBreaks, ConnectionLost, vars, CodeSafe, Onward, Waiting,
         Busy, flags, heart
<1> QED
  BY <1>2, <1>3, <1>4, <1>5 DEF Next

\* With the peer's code close() ends with it.
LEMMA ProceedKeepsCode ==
  ASSUME NEW t, NEW q, link = "open", Proceed(t, "peer", q) \/ Wrote(t, "peer", q)
  PROVE  code' = "peer"
BY DEF Proceed, Write, Wrote, Settle

\* Nothing replaces the peer's close code, unless a task was interrupted, the
\* transport failed, or two tasks besides the receiver close the session.
THEOREM PeerCodeStays == Spec => PeerCodeKept
<1>1. Init => CodeSafe
  BY SessionAssumption DEF Init, CodeSafe, Waiting, Tasks
<1> DEFINE Kept == code = "peer" /\ code' # "peer" =>
                     \/ interrupted # {} \/ link # "open"
                     \/ \E c, d \in Closers : c # d /\ pc[c] # "idle" /\ pc[d] # "idle"
<1>2. ASSUME IInv, CodeSafe, [Next]_vars PROVE Kept
  <2> SUFFICES ASSUME code = "peer", interrupted = {}, link = "open", Alone
               PROVE  code' = "peer"
    BY DEF Alone
  <2>1. /\ ping # "failed" /\ ~Waiting /\ (closing \/ closed)
        /\ \A t \in Tasks : pc[t] # "draining"
        /\ ~closed => beat = "off" /\ ~pong
    BY <1>2 DEF CodeSafe
  <2>2. ASSUME NEW t \in Tasks, TaskStep(t) PROVE code' = "peer"
    BY <2>1, <2>2, ProceedKeepsCode
       DEF TaskStep, CallClose, HandOver, HandedOver, Written, Drained, Interrupt, flags
  <2>3. CASE Receive \/ Received
    BY <2>1, <2>3, ProceedKeepsCode DEF Receive, Received
  <2>4. CASE SendHeartbeat \/ PingEnds \/ PingTaskDone \/ PongNotReceived
    BY <2>1, <2>4 DEF SendHeartbeat, PingEnds, PingTaskDone, PongNotReceived, GiveUp, flags
  <2>5. CASE (\E m \in Close \cup {"data"} : PeerSends(m)) \/ QueueFails \/ LinkBreaks
             \/ ConnectionLost \/ UNCHANGED vars
    BY <2>5 DEF PeerSends, QueueFails, LinkBreaks, ConnectionLost, vars, flags
  <2> QED
    BY <1>2, <2>2, <2>3, <2>4, <2>5 DEF Next
<1>3. IInv /\ CodeSafe /\ [Next]_vars => CodeSafe' /\ [Kept]_vars
  BY <1>2, NextSafe
<1> QED
  BY <1>1, <1>3, Invariance, PTL DEF Spec, PeerCodeKept
=============================================================================
