------------------------ MODULE RequestHandlerProofs ------------------------
(* The connection handler keeps its invariants, for any number of requests. *)
(* The invariant adds to the properties of RequestHandler what the states   *)
(* of shutdown, of the transport and of start() say about each other.       *)
EXTENDS RequestHandler, TLAPS

\* How far start() is: nothing arrives before it has begun, it is woken only
\* for a request, it sleeps between requests only to keep the connection alive,
\* and whoever cancels its waiter has closed the connection or is about to.
Serving ==
  /\ main = "begin" => accepted = 0 /\ started = 0
  /\ waiter = "pending" => started = accepted
  /\ waiter = "set" => started < accepted
  /\ main = "waiting" /\ started > 0 => keepalive
  /\ waiter = "cancelled" => closing \/ force

\* How the transport and the flags of the connection go together.
Connection ==
  /\ ~connected => force /\ transport = "gone"
  /\ force /\ transport = "open" => stage \in {"grace", "wait"}
  /\ ~task => ~connected \/ main \in Ended
  /\ IdleHasTimer

\* What each stage of shutdown has done already.
Stopping ==
  /\ stage # "no" => closing
  /\ stage \in {"grace", "wait", "done"} => force
  /\ late => stage \in {"grace", "wait", "done"}
  /\ stage = "grace" => grace # "none" /\ main \notin {"begin", "waiting"}
  /\ grace = "cancelled" => late
  /\ stage = "grace" /\ grace = "set" => handler \notin {"created", "running", "writing"}
  /\ stage = "done" => transport = "gone"

IInv ==
  /\ TypeOK /\ Serving /\ Connection /\ Stopping
  /\ GraceIsTold /\ GraceGiven /\ ShutdownLeavesNothing /\ DeafOnlyIfKept

\* The first step of start().
LEMMA BeginIInv ==
  ASSUME IInv, Begin
  PROVE  IInv'
<1>1. TypeOK'
  BY DEF Begin, Die, Leave, Sleep, requests, shut, IInv, TypeOK
<1>2. Serving'
  BY DEF Begin, Die, Leave, Sleep, requests, IInv, Serving
<1>3. Connection'
  BY DEF Begin, Die, Leave, Sleep, shut, IInv, Serving, Connection, IdleHasTimer, Ended
<1>4. Stopping'
  BY DEF Begin, Die, Leave, shut, IInv, Stopping
<1>5. GraceIsTold'
  BY DEF Begin, shut, IInv, TypeOK, GraceIsTold, InProgress
<1>6. GraceGiven'
  BY DEF Begin, shut, IInv, GraceGiven
<1>7. ShutdownLeavesNothing'
  BY DEF Begin, Die, Leave, shut, IInv, ShutdownLeavesNothing, Ended
<1>8. DeafOnlyIfKept'
  BY DEF Begin, Die, Leave, Sleep, shut, IInv, Connection, Stopping, GraceGiven,
         DeafOnlyIfKept, Ended
<1> QED
  BY <1>1, <1>2, <1>3, <1>4, <1>5, <1>6, <1>7, <1>8 DEF IInv

\* start() goes on after its waiter.
LEMMA WokenIInv ==
  ASSUME IInv, Woken
  PROVE  IInv'
<1>1. TypeOK'
  BY DEF Woken, Pop, Die, requests, shut, IInv, TypeOK, Serving
<1>2. Serving'
  BY DEF Woken, Pop, Die, IInv, Serving
<1>3. Connection'
  BY DEF Woken, Pop, Die, shut, IInv, Connection, IdleHasTimer, Ended
<1>4. Stopping'
  BY DEF Woken, Die, shut, IInv, Stopping
<1>5. GraceIsTold'
  BY DEF Woken, shut, IInv, TypeOK, GraceIsTold, InProgress
<1>6. GraceGiven'
  BY DEF Woken, shut, IInv, GraceGiven
<1>7. ShutdownLeavesNothing'
  BY DEF Woken, Die, shut, IInv, TypeOK, ShutdownLeavesNothing, Ended, Answered
<1>8. DeafOnlyIfKept'
  BY DEF Woken, Pop, Die, IInv, Serving, Connection, Stopping, GraceGiven, DeafOnlyIfKept,
         Ended
<1> QED
  BY <1>1, <1>2, <1>3, <1>4, <1>5, <1>6, <1>7, <1>8 DEF IInv

\* The answer was sent.
LEMMA RepliedIInv ==
  ASSUME IInv, Replied
  PROVE  IInv'
<1>1. TypeOK'
  BY DEF Replied, GoOn, ArmTimer, Pop, Sleep, Leave, requests, shut, IInv, TypeOK
<1>2. Serving'
  BY DEF Replied, GoOn, Arms, Pop, Sleep, Leave, requests, IInv, TypeOK, Serving
<1>3. Connection'
  BY DEF Replied, GoOn, ArmTimer, Leave, shut, IInv, Connection, IdleHasTimer, Ended
<1>4. Stopping'
  BY DEF Replied, GoOn, Arms, Leave, shut, IInv, Stopping
<1>5. GraceIsTold'
  BY DEF Replied, GoOn, shut, IInv, GraceIsTold, InProgress
<1>6. ShutdownLeavesNothing'
  BY DEF Replied, GoOn, Arms, Leave, shut, IInv, ShutdownLeavesNothing, Ended
<1>7. DeafOnlyIfKept'
  BY DEF Replied, GoOn, Pop, Sleep, Leave, shut, IInv, Connection, DeafOnlyIfKept, Ended
<1>8. GraceGiven'
  BY DEF Replied, shut, IInv, GraceGiven
<1> QED
  BY <1>1, <1>2, <1>3, <1>4, <1>5, <1>6, <1>7, <1>8 DEF IInv

\* The client went away during the answer.
LEMMA ResetIInv ==
  ASSUME IInv, Reset
  PROVE  IInv'
<1>1. TypeOK'
  BY DEF Reset, Break, ArmTimer, Leave, requests, shut, IInv, TypeOK
<1>2. Serving'
  BY DEF Reset, Break, Leave, IInv, Serving
<1>3. Connection'
  BY DEF Reset, Break, Leave, shut, IInv, Connection, IdleHasTimer, Ended
<1>4. Stopping'
  BY DEF Reset, Break, Leave, shut, IInv, Stopping
<1>5. GraceIsTold'
  BY DEF Reset, Break, shut, IInv, GraceIsTold, InProgress
<1>6. ShutdownLeavesNothing'
  BY DEF Reset, Break, Leave, shut, IInv, ShutdownLeavesNothing, Ended
<1>7. DeafOnlyIfKept'
  BY DEF Reset, Break, Leave, shut, IInv, Connection, DeafOnlyIfKept
<1>8. GraceGiven'
  BY DEF Reset, shut, IInv, GraceGiven
<1> QED
  BY <1>1, <1>2, <1>3, <1>4, <1>5, <1>6, <1>7, <1>8 DEF IInv

\* The handler, or start() after it, was cancelled.
LEMMA CancelledIInv ==
  ASSUME IInv, Cancelled
  PROVE  IInv'
<1>1. TypeOK'
  BY DEF Cancelled, Raise, ArmTimer, Die, Leave, requests, shut, IInv, TypeOK
<1>2. Serving'
  BY DEF Cancelled, Raise, Die, Leave, IInv, Serving
<1>3. Connection'
  BY DEF Cancelled, Raise, Die, Leave, shut, IInv, Connection, IdleHasTimer, Ended
<1>4. Stopping'
  BY DEF Cancelled, Raise, Die, shut, IInv, Stopping
<1>5. GraceIsTold'
  BY DEF Cancelled, Raise, shut, IInv, GraceIsTold, InProgress, Answered
<1>6. GraceGiven'
  BY DEF Cancelled, Raise, shut, IInv, GraceGiven
<1>7. ShutdownLeavesNothing'
  BY DEF Cancelled, Raise, Die, shut, IInv, ShutdownLeavesNothing, Ended
<1>8. DeafOnlyIfKept'
  BY DEF Cancelled, Raise, Arms, Die, Leave, shut, IInv, Connection, DeafOnlyIfKept
<1> QED
  BY <1>1, <1>2, <1>3, <1>4, <1>5, <1>6, <1>7, <1>8 DEF IInv

\* Another exception ends start().
LEMMA FailIInv ==
  ASSUME IInv, Fail
  PROVE  IInv'
<1>1. TypeOK'
  BY DEF Fail, CutOff, requests, shut, IInv, TypeOK
<1>2. Serving'
  BY DEF Fail, CutOff, requests, IInv, Serving
<1>3. Connection'
  BY DEF Fail, CutOff, IInv, Connection, IdleHasTimer, Ended
<1>4. Stopping'
  BY DEF Fail, CutOff, shut, IInv, Stopping
<1>5. GraceIsTold'
  BY DEF Fail, shut, IInv, TypeOK, GraceIsTold, InProgress
<1>6. ShutdownLeavesNothing'
  BY DEF Fail, CutOff, IInv, ShutdownLeavesNothing, Ended
<1>7. DeafOnlyIfKept'
  BY DEF Fail, CutOff, IInv, DeafOnlyIfKept
<1>8. GraceGiven'
  BY DEF Fail, shut, IInv, GraceGiven
<1> QED
  BY <1>1, <1>2, <1>3, <1>4, <1>5, <1>6, <1>7, <1>8 DEF IInv

\* The rest of the body was read, or the time for it is over.
LEMMA LingeredIInv ==
  ASSUME IInv, Lingered
  PROVE  IInv'
<1>1. TypeOK'
  BY DEF Lingered, GoOn, ArmTimer, Pop, Sleep, Leave, requests, shut, IInv, TypeOK
<1>2. Serving'
  BY DEF Lingered, GoOn, Arms, Pop, Sleep, Leave, requests, IInv, TypeOK, Serving
<1>3. Connection'
  BY DEF Lingered, GoOn, ArmTimer, Leave, shut, IInv, Connection, IdleHasTimer, Ended
<1>4. Stopping'
  BY DEF Lingered, GoOn, Arms, Leave, shut, IInv, TypeOK, Stopping
<1>5. GraceIsTold'
  BY DEF Lingered, GoOn, shut, IInv, TypeOK, GraceIsTold, InProgress
<1>6. ShutdownLeavesNothing'
  BY DEF Lingered, GoOn, Arms, Leave, shut, IInv, ShutdownLeavesNothing, Ended
<1>7. DeafOnlyIfKept'
  BY DEF Lingered, GoOn, Pop, Sleep, Leave, shut, IInv, Connection, DeafOnlyIfKept, Ended
<1>8. GraceGiven'
  BY DEF Lingered, shut, IInv, GraceGiven
<1> QED
  BY <1>1, <1>2, <1>3, <1>4, <1>5, <1>6, <1>7, <1>8 DEF IInv

\* start() is cancelled while it reads the rest of a body.
LEMMA LingerCancelledIInv ==
  ASSUME IInv, LingerCancelled
  PROVE  IInv'
<1>1. TypeOK'
  BY DEF LingerCancelled, Raise, ArmTimer, Die, Leave, requests, shut, IInv, TypeOK
<1>2. Serving'
  BY DEF LingerCancelled, Raise, Die, Leave, IInv, Serving
<1>3. Connection'
  BY DEF LingerCancelled, Raise, Die, Leave, shut, IInv, Connection, IdleHasTimer, Ended
<1>4. Stopping'
  BY DEF LingerCancelled, Raise, Die, shut, IInv, Stopping
<1>5. GraceIsTold'
  BY DEF LingerCancelled, Raise, shut, IInv, TypeOK, GraceIsTold, InProgress
<1>6. GraceGiven'
  BY DEF LingerCancelled, Raise, shut, IInv, GraceGiven
<1>7. ShutdownLeavesNothing'
  BY DEF LingerCancelled, Raise, Die, shut, IInv, ShutdownLeavesNothing, Ended
<1>8. DeafOnlyIfKept'
  BY DEF LingerCancelled, Raise, Arms, Die, Leave, shut, IInv, Connection, DeafOnlyIfKept
<1> QED
  BY <1>1, <1>2, <1>3, <1>4, <1>5, <1>6, <1>7, <1>8 DEF IInv

\* The handler's task runs for the first time.
LEMMA HandlerBeginsIInv ==
  ASSUME IInv, HandlerBegins
  PROVE  IInv'
<1>1. TypeOK'
  BY DEF HandlerBegins, conn, requests, shut, IInv, TypeOK
<1>2. Stopping'
  BY DEF HandlerBegins, conn, shut, IInv, Stopping
<1>3. GraceIsTold'
  BY DEF HandlerBegins, shut, IInv, GraceIsTold, InProgress
<1>4. GraceGiven'
  BY DEF HandlerBegins, conn, shut, IInv, GraceGiven
<1>5. ShutdownLeavesNothing'
  BY DEF HandlerBegins, conn, shut, IInv, ShutdownLeavesNothing, Answered
<1>6. Serving' /\ Connection' /\ DeafOnlyIfKept'
  BY DEF HandlerBegins, conn, requests, shut, IInv, Serving, Connection, DeafOnlyIfKept,
         IdleHasTimer
<1> QED
  BY <1>1, <1>2, <1>3, <1>4, <1>5, <1>6 DEF IInv

\* The user's handler returns, or is cancelled.
LEMMA HandlerReturnsIInv ==
  ASSUME IInv, HandlerReturns
  PROVE  IInv'
<1>1. TypeOK'
  BY DEF HandlerReturns, Done, conn, requests, IInv, TypeOK
<1>2. Stopping'
  BY DEF HandlerReturns, Done, conn, IInv, Stopping
<1>3. GraceIsTold'
  BY DEF HandlerReturns, Done, IInv, GraceIsTold, InProgress
<1>4. GraceGiven'
  BY DEF HandlerReturns, Done, conn, IInv, GraceGiven
<1>5. ShutdownLeavesNothing'
  BY DEF HandlerReturns, Done, conn, IInv, ShutdownLeavesNothing, Answered
<1>6. Serving' /\ Connection' /\ DeafOnlyIfKept'
  BY DEF HandlerReturns, conn, requests, IInv, Serving, Connection, DeafOnlyIfKept,
         IdleHasTimer
<1> QED
  BY <1>1, <1>2, <1>3, <1>4, <1>5, <1>6 DEF IInv

\* The response is written.
LEMMA HandlerWritesIInv ==
  ASSUME IInv, HandlerWrites
  PROVE  IInv'
<1>1. TypeOK'
  BY DEF HandlerWrites, Done, conn, requests, IInv, TypeOK
<1>2. Stopping'
  BY DEF HandlerWrites, Done, conn, IInv, Stopping
<1>3. GraceIsTold'
  BY DEF HandlerWrites, Done, IInv, GraceIsTold
<1>4. GraceGiven'
  BY DEF HandlerWrites, Done, conn, IInv, GraceGiven
<1>5. ShutdownLeavesNothing'
  BY DEF HandlerWrites, Done, conn, IInv, ShutdownLeavesNothing, Answered
<1>6. Serving' /\ Connection' /\ DeafOnlyIfKept'
  BY DEF HandlerWrites, conn, requests, IInv, Serving, Connection, DeafOnlyIfKept,
         IdleHasTimer
<1> QED
  BY <1>1, <1>2, <1>3, <1>4, <1>5, <1>6 DEF IInv

\* A request arrives.
LEMMA DataReceivedIInv ==
  ASSUME IInv, DataReceived
  PROVE  IInv'
<1>1. TypeOK'
  <2>1. /\ accepted' \in 0 .. MaxRequests /\ accepted' = accepted + 1
        /\ started' \in 0 .. accepted' /\ parsing' \in 0 .. accepted'
    BY HandlerAssumption DEF DataReceived, loop, IInv, TypeOK
  <2>2. bad' \subseteq ended' /\ ended' \subseteq 1 .. accepted'
    <3>1. /\ accepted \in Nat /\ accepted' = accepted + 1
          /\ bad \subseteq ended /\ ended \subseteq 1 .. accepted
      BY DEF DataReceived, IInv, TypeOK
    <3>2. \/ bad' = bad /\ ended' \in {ended, ended \cup {accepted + 1}}
          \/ bad' = bad \cup {accepted + 1} /\ ended' = ended \cup {accepted + 1}
      BY DEF DataReceived
    <3>3. /\ 1 .. accepted \subseteq 1 .. accepted'
          /\ accepted + 1 \in 1 .. accepted'
      BY <3>1
    <3> QED
      BY <3>1, <3>2, <3>3, Zenon
  <2>3. /\ waiter' \in {"none", "pending", "set", "cancelled"}
        /\ main' = "waiting" <=> waiter' # "none"
    BY DEF DataReceived, loop, IInv, TypeOK
  <2> QED
    BY <2>1, <2>2, <2>3 DEF DataReceived, conn, loop, shut, IInv, TypeOK
<1>2. Serving'
  BY DEF DataReceived, loop, IInv, TypeOK, Serving
<1>3. Connection'
  BY DEF DataReceived, conn, loop, IInv, Connection, IdleHasTimer
<1>4. ShutdownLeavesNothing'
  BY DEF DataReceived, shut, IInv, ShutdownLeavesNothing
<1>5. Stopping' /\ GraceIsTold' /\ GraceGiven' /\ DeafOnlyIfKept'
  BY DEF DataReceived, loop, shut, IInv, Stopping, GraceIsTold, GraceGiven,
         DeafOnlyIfKept, InProgress
<1> QED
  BY <1>1, <1>2, <1>3, <1>4, <1>5 DEF IInv

\* The rest of a body arrives.
LEMMA BodyEndsIInv ==
  ASSUME IInv, BodyEnds
  PROVE  IInv'
<1>1. TypeOK'
  BY DEF BodyEnds, conn, loop, shut, IInv, TypeOK
<1>2. /\ Serving' /\ Connection' /\ Stopping' /\ GraceIsTold' /\ GraceGiven'
      /\ ShutdownLeavesNothing' /\ DeafOnlyIfKept'
  BY DEF BodyEnds, conn, loop, shut, IInv, Serving, Connection, Stopping, GraceIsTold,
         GraceGiven, ShutdownLeavesNothing, DeafOnlyIfKept, IdleHasTimer, InProgress
<1> QED
  BY <1>1, <1>2 DEF IInv

\* The transport is closed.
LEMMA ConnectionLostIInv ==
  ASSUME IInv, ConnectionLost
  PROVE  IInv'
<1>1. TypeOK'
  BY HandlerAssumption DEF ConnectionLost, CancelWaiter, Doom, requests, shut, IInv,
                           TypeOK
<1>2. Serving'
  BY DEF ConnectionLost, CancelWaiter, requests, IInv, Serving
<1>3. Connection'
  BY DEF ConnectionLost, IInv, Connection, IdleHasTimer
<1>4. Stopping'
  BY DEF ConnectionLost, shut, IInv, Stopping
<1>5. GraceGiven'
  BY DEF ConnectionLost, IInv, GraceGiven
<1>6. ShutdownLeavesNothing'
  BY DEF ConnectionLost, IInv, ShutdownLeavesNothing
<1>7. DeafOnlyIfKept'
  BY DEF ConnectionLost, IInv, DeafOnlyIfKept
<1>8. GraceIsTold'
  BY DEF ConnectionLost, shut, IInv, GraceIsTold, InProgress
<1> QED
  BY <1>1, <1>2, <1>3, <1>4, <1>5, <1>6, <1>7, <1>8 DEF IInv

\* The keep-alive timer fires.
LEMMA ProcessKeepaliveIInv ==
  ASSUME IInv, ProcessKeepalive
  PROVE  IInv'
<1>1. TypeOK'
  BY DEF ProcessKeepalive, CutOff, CancelWaiter, requests, loop, shut, IInv, TypeOK
<1>2. Serving'
  BY DEF ProcessKeepalive, CutOff, CancelWaiter, requests, loop, IInv, Serving
<1>3. Connection'
  BY DEF ProcessKeepalive, CutOff, loop, shut, IInv, TypeOK, Serving, Connection,
         IdleHasTimer
<1>4. Stopping'
  BY DEF ProcessKeepalive, loop, shut, IInv, Stopping
<1>5. ShutdownLeavesNothing'
  BY DEF ProcessKeepalive, loop, shut, IInv, ShutdownLeavesNothing, Answered
<1>6. DeafOnlyIfKept'
  BY DEF ProcessKeepalive, CutOff, loop, shut, IInv, DeafOnlyIfKept
<1>7. GraceIsTold' /\ GraceGiven'
  BY DEF ProcessKeepalive, loop, shut, IInv, GraceIsTold, GraceGiven, InProgress
<1> QED
  BY <1>1, <1>2, <1>3, <1>4, <1>5, <1>6, <1>7 DEF IInv

\* The server begins to stop.
LEMMA PreShutdownIInv ==
  ASSUME IInv, PreShutdown
  PROVE  IInv'
<1>1. TypeOK'
  BY DEF PreShutdown, CancelWaiter, requests, loop, IInv, TypeOK
<1>2. Serving'
  BY DEF PreShutdown, CancelWaiter, requests, loop, IInv, Serving
<1>3. Connection'
  BY DEF PreShutdown, loop, IInv, Connection, IdleHasTimer
<1>4. Stopping'
  BY DEF PreShutdown, IInv, Stopping
<1>5. ShutdownLeavesNothing'
  BY DEF PreShutdown, IInv, ShutdownLeavesNothing
<1>6. DeafOnlyIfKept'
  BY DEF PreShutdown, loop, IInv, DeafOnlyIfKept
<1>7. GraceIsTold' /\ GraceGiven'
  BY DEF PreShutdown, loop, IInv, GraceIsTold, GraceGiven, InProgress
<1> QED
  BY <1>1, <1>2, <1>3, <1>4, <1>5, <1>6, <1>7 DEF IInv

\* shutdown() is called.
LEMMA ShutdownIInv ==
  ASSUME IInv, Shutdown
  PROVE  IInv'
<1>1. TypeOK'
  BY DEF Shutdown, SecondPart, Finish, CutOff, CancelWaiter, Doom, requests, loop, IInv,
         TypeOK
<1>2. Serving'
  BY DEF Shutdown, SecondPart, Finish, CutOff, CancelWaiter, requests, loop, IInv, Serving
<1>3. Connection'
  BY DEF Shutdown, SecondPart, Finish, CutOff, loop, IInv, Connection, IdleHasTimer
<1>4. Stopping'
  BY DEF Shutdown, SecondPart, Finish, CutOff, loop, IInv, TypeOK, Stopping, InProgress
<1>5. GraceIsTold'
  BY DEF Shutdown, loop, IInv, GraceIsTold, InProgress
<1>6. GraceGiven'
  BY DEF Shutdown, SecondPart, Finish, Doom, IInv, GraceGiven, Ended, InProgress
<1>7. ShutdownLeavesNothing'
  BY DEF Shutdown, SecondPart, Finish, CutOff, loop, IInv, Connection,
         ShutdownLeavesNothing
<1>8. DeafOnlyIfKept'
  BY DEF Shutdown, SecondPart, Finish, CutOff, IInv, DeafOnlyIfKept
<1> QED
  BY <1>1, <1>2, <1>3, <1>4, <1>5, <1>6, <1>7, <1>8 DEF IInv

\* The timeout for the handler elapses.
LEMMA GraceExpiresIInv ==
  ASSUME IInv, GraceExpires
  PROVE  IInv'
<1>1. TypeOK'
  BY DEF GraceExpires, conn, requests, loop, IInv, TypeOK
<1>2. Stopping'
  BY DEF GraceExpires, conn, loop, IInv, Stopping
<1>3. GraceIsTold'
  BY DEF GraceExpires, IInv, GraceIsTold
<1>4. GraceGiven'
  BY DEF GraceExpires, IInv, GraceGiven
<1>5. Serving' /\ Connection' /\ ShutdownLeavesNothing' /\ DeafOnlyIfKept'
  BY DEF GraceExpires, conn, requests, loop, IInv, Serving, Connection,
         ShutdownLeavesNothing, DeafOnlyIfKept, IdleHasTimer
<1> QED
  BY <1>1, <1>2, <1>3, <1>4, <1>5 DEF IInv

\* shutdown() goes on after the handler.
LEMMA GraceOverIInv ==
  ASSUME IInv, GraceOver
  PROVE  IInv'
<1>1. TypeOK'
  BY DEF GraceOver, SecondPart, Finish, CutOff, CancelWaiter, Doom, requests, loop, IInv,
         TypeOK
<1>2. Serving'
  BY DEF GraceOver, SecondPart, Finish, CutOff, CancelWaiter, requests, loop, IInv,
         Serving
<1>3. Connection'
  BY DEF GraceOver, SecondPart, Finish, CutOff, loop, IInv, Connection, IdleHasTimer
<1>4. Stopping'
  BY DEF GraceOver, SecondPart, Finish, CutOff, IInv, Stopping
<1>5. GraceIsTold'
  BY DEF GraceOver, IInv, GraceIsTold
<1>6. GraceGiven'
  BY DEF GraceOver, SecondPart, Finish, Doom, IInv, Stopping, GraceGiven, Ended
<1>7. ShutdownLeavesNothing'
  BY DEF GraceOver, SecondPart, Finish, CutOff, loop, IInv, Connection,
         ShutdownLeavesNothing
<1>8. DeafOnlyIfKept'
  BY DEF GraceOver, SecondPart, Finish, CutOff, IInv, DeafOnlyIfKept
<1> QED
  BY <1>1, <1>2, <1>3, <1>4, <1>5, <1>6, <1>7, <1>8 DEF IInv

\* shutdown() goes on after start().
LEMMA WaitOverIInv ==
  ASSUME IInv, WaitOver
  PROVE  IInv'
<1>1. TypeOK'
  BY DEF WaitOver, Finish, CutOff, CancelWaiter, Doom, requests, loop, IInv, TypeOK
<1>2. Serving'
  BY DEF WaitOver, Finish, CutOff, CancelWaiter, requests, loop, IInv, Serving
<1>3. Connection'
  BY DEF WaitOver, Finish, CutOff, loop, IInv, Connection, IdleHasTimer
<1>4. Stopping'
  BY DEF WaitOver, Finish, CutOff, IInv, TypeOK, Stopping
<1>5. GraceGiven'
  BY DEF WaitOver, Finish, Doom, IInv, TypeOK, GraceGiven, Ended
<1>6. ShutdownLeavesNothing'
  BY DEF WaitOver, Finish, CutOff, CancelWaiter, Doom, loop, IInv, Connection,
         ShutdownLeavesNothing
<1>7. DeafOnlyIfKept'
  BY DEF WaitOver, Finish, CutOff, IInv, DeafOnlyIfKept
<1>8. GraceIsTold'
  BY DEF WaitOver, loop, IInv, GraceIsTold, InProgress
<1> QED
  BY <1>1, <1>2, <1>3, <1>4, <1>5, <1>6, <1>7, <1>8 DEF IInv

-----------------------------------------------------------------------------
(* The specification. *)

\* A new connection.
LEMMA InitIInv == Init => IInv
<1> SUFFICES ASSUME Init PROVE IInv
  OBVIOUS
<1>1. TypeOK
  <2>1. 0 \in 0 .. MaxRequests
    BY HandlerAssumption
  <2>2. accepted \in 0 .. MaxRequests /\ started \in 0 .. accepted /\ parsing \in 0 .. accepted
    BY <2>1 DEF Init
  <2> QED
    BY <2>2 DEF Init, TypeOK
<1>2. Serving /\ Connection /\ Stopping
  BY DEF Init, Serving, Connection, IdleHasTimer, Stopping
<1>3. GraceIsTold /\ GraceGiven /\ ShutdownLeavesNothing /\ DeafOnlyIfKept
  BY DEF Init, GraceIsTold, GraceGiven, ShutdownLeavesNothing, DeafOnlyIfKept, Ended
<1> QED
  BY <1>1, <1>2, <1>3 DEF IInv

\* Every step keeps the invariant.
LEMMA NextIInv == IInv /\ [Next]_vars => IInv'
<1> SUFFICES ASSUME IInv, [Next]_vars PROVE IInv'
  OBVIOUS
<1>1. CASE Begin \/ Woken \/ Replied \/ Reset \/ Cancelled \/ Fail \/ Lingered \/ LingerCancelled
  BY <1>1, BeginIInv, WokenIInv, RepliedIInv, ResetIInv, CancelledIInv, FailIInv,
     LingeredIInv, LingerCancelledIInv
<1>2. CASE HandlerBegins \/ HandlerReturns \/ HandlerWrites
  BY <1>2, HandlerBeginsIInv, HandlerReturnsIInv, HandlerWritesIInv
<1>3. CASE DataReceived \/ BodyEnds \/ ConnectionLost \/ ProcessKeepalive
  BY <1>3, DataReceivedIInv, BodyEndsIInv, ConnectionLostIInv, ProcessKeepaliveIInv
<1>4. CASE PreShutdown \/ Shutdown \/ GraceExpires \/ GraceOver \/ WaitOver
  BY <1>4, PreShutdownIInv, ShutdownIInv, GraceExpiresIInv, GraceOverIInv, WaitOverIInv
<1>5. CASE UNCHANGED vars
  <2>1. (TypeOK /\ Serving /\ Connection /\ Stopping)'
    BY <1>5 DEF vars, IInv, TypeOK, Serving, Connection, IdleHasTimer, Stopping, Ended
  <2>2. (GraceIsTold /\ GraceGiven /\ ShutdownLeavesNothing /\ DeafOnlyIfKept)'
    BY <1>5 DEF vars, IInv, GraceIsTold, InProgress, GraceGiven, ShutdownLeavesNothing,
                Answered, DeafOnlyIfKept, Ended
  <2> QED
    BY <2>1, <2>2 DEF IInv
<1> QED
  BY <1>1, <1>2, <1>3, <1>4, <1>5 DEF Next

\* The invariant holds always.
THEOREM Invariance == Spec => []IInv
  BY InitIInv, NextIInv, PTL DEF Spec

\* The values of the variables, that a parse error's body counts as read, and
\* where start() and the handler are together.
THEOREM TypeCorrect == Spec => []TypeOK
<1>1. IInv => TypeOK
  BY DEF IInv
<1> QED
  BY <1>1, Invariance, PTL

\* start() never sleeps while a request is in _messages: whoever adds one
\* resolves the waiter, also between the pop and the sleep.
THEOREM RequestsAreSeen == Spec => []NoRequestUnseen
<1>1. IInv => NoRequestUnseen
  BY DEF IInv, Serving, NoRequestUnseen
<1> QED
  BY <1>1, Invariance, PTL

\* A connection that is idle and kept alive has a keep-alive timer.
THEOREM IdleConnectionsAreTimed == Spec => []IdleHasTimer
<1>1. IInv => IdleHasTimer
  BY DEF IInv, Connection
<1> QED
  BY <1>1, Invariance, PTL

\* That timer never closes a connection whose next request has arrived.
THEOREM TimerClosesIdleOnly == Spec => TimerSparesRequests
<1>1. IInv /\ [Next]_vars =>
        [ProcessKeepalive /\ transport' # transport => started = accepted /\ main = "waiting"]_vars
  BY DEF ProcessKeepalive, IInv, TypeOK, Serving
<1> QED
  BY <1>1, Invariance, PTL DEF Spec, TimerSparesRequests

\* shutdown() waits for a handler only while there is one that will tell it.
THEOREM GraceAlwaysTold == Spec => []GraceIsTold
<1>1. IInv => GraceIsTold
  BY DEF IInv
<1> QED
  BY <1>1, Invariance, PTL

\* shutdown() cancels nothing before one of its timeouts has elapsed.
THEOREM GraceAlwaysGiven == Spec => []GraceGiven
<1>1. IInv => GraceGiven
  BY DEF IInv
<1> QED
  BY <1>1, Invariance, PTL

\* shutdown() leaves a closed transport and no task that was not cancelled.
THEOREM ShutdownIsComplete == Spec => []ShutdownLeavesNothing
<1>1. IInv => ShutdownLeavesNothing
  BY DEF IInv
<1> QED
  BY <1>1, Invariance, PTL

\* start() ends with an open connection in the two cases DeafOnlyIfKept names.
THEOREM DeafCasesAreKnown == Spec => []DeafOnlyIfKept
<1>1. IInv => DeafOnlyIfKept
  BY DEF IInv
<1> QED
  BY <1>1, Invariance, PTL
=============================================================================
