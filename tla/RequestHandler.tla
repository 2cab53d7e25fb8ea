--------------------------- MODULE RequestHandler ---------------------------
(***************************************************************************)
(* One connection of the aiohttp server: RequestHandler (web_protocol.py),  *)
(* which parses requests, answers them one after the other, keeps the       *)
(* connection alive between them and is shut down with its server           *)
(* (web_server.py, BaseRunner.cleanup of web_runner.py).                    *)
(*                                                                         *)
(* Requests are numbered in the order they arrive.  Three tasks meet:       *)
(*   main      start(): not begun, waiting for a request, handling one,     *)
(*             lingering (reading the rest of a body), over (it returned)   *)
(*             or died (it ended with CancelledError)                       *)
(*   handler   _handle_request of the request main works on: created,       *)
(*             running (user code), writing (finish_response); then how it   *)
(*             ended: keep or close (answered, keep-alive or not), reset     *)
(*             (the connection broke), failed (another exception) or        *)
(*             cancelled                                                    *)
(*   stage     shutdown of the server: no, closing (after pre_shutdown),    *)
(*             grace (the handler may finish), wait (for start to end), done *)
(*                                                                         *)
(* Upgraded connections, whose bytes go to a WebSocket parser, are left out.*)
(*                                                                         *)
(* An operator whose name starts with Bad is a plausible bug, used only to  *)
(* show that the properties notice it.                                      *)
(***************************************************************************)
EXTENDS Integers

CONSTANTS
  MaxRequests,          \* bound: requests on the connection
  HandlerCancellation   \* values of the server's option of that name

ASSUME HandlerAssumption ==
  MaxRequests \in Nat /\ HandlerCancellation \subseteq BOOLEAN

VARIABLES
  connected,   \* connection_lost has not been called
  transport,   \* self.transport: open, closing or gone (None)
  force,       \* _force_close
  closing,     \* _close
  accepted,    \* requests parsed so far; those after started are in _messages
  started,     \* requests popped from _messages so far
  bad,         \* requests that are parse errors
  ended,       \* requests whose body is at its end
  parsing,     \* the request whose body is arriving, or 0
  waiter,      \* _waiter: none, pending, set or cancelled
  main,        \* start()
  handler,     \* _handle_request
  keepalive,   \* _keepalive
  timer,       \* _keepalive_handle: off, armed, or moved (to fire too early)
  task,        \* _task_handler is not None
  doomed,      \* cancellations requested and not delivered yet
  stage,       \* shutdown
  grace,       \* _handler_waiter: none, pending, set or cancelled
  late         \* a timeout of shutdown has elapsed

conn == <<connected, transport, force, closing>>
requests == <<accepted, bad, ended, parsing>>
loop == <<started, main, handler, keepalive, task>>
shut == <<stage, grace, late>>
vars == <<connected, transport, force, closing, accepted, started, bad, ended,
          parsing, waiter, main, handler, keepalive, timer, task, doomed,
          stage, grace, late>>

Init ==
  /\ connected = TRUE /\ transport = "open" /\ force = FALSE /\ closing = FALSE
  /\ accepted = 0 /\ started = 0 /\ bad = {} /\ ended = {} /\ parsing = 0
  /\ waiter = "none" /\ main = "begin" /\ handler = "none"
  /\ keepalive = FALSE /\ timer = "off" /\ task = TRUE /\ doomed = {}
  /\ stage = "no" /\ grace = "none" /\ late = FALSE

Ended == {"over", "died"}
InProgress == handler \in {"running", "writing"}     \* _request_in_progress
Answered == handler \in {"keep", "close", "reset", "failed", "cancelled"}

\* The server still has this connection in its list.
Registered == connected \/ main \notin Ended

CancelWaiter == IF waiter = "pending" THEN "cancelled" ELSE waiter

\* What Task.cancel of start() reaches: the future it awaits (then waiter is
\* cancelled), the handler it awaits, or start() itself at its next step.
Doom ==
  IF main \in Ended \/ waiter = "pending" THEN {}
  ELSE IF main = "handling" /\ ~Answered THEN {"handler"} ELSE {"main"}

-----------------------------------------------------------------------------
(* start(), from one await to the next. *)

\* The next message is popped and a task for it is created, which runs at
\* once since Python 3.12.  The handler of a parse error has nothing to await.
Pop ==
  /\ started' = started + 1
  /\ main' = "handling"
  /\ handler' \in {"created", IF started + 1 \in bad THEN "writing" ELSE "running"}
  /\ waiter' = "none"

Sleep ==
  /\ main' = "waiting" /\ waiter' = "pending" /\ handler' = "none"
  /\ UNCHANGED started

\* The loop is left; start() closes the transport unless that was done.
Leave ==
  /\ main' = "over" /\ waiter' = "none" /\ handler' = "none"
  /\ task' = (task /\ force)
  /\ transport' = IF force THEN transport ELSE "closing"
  /\ UNCHANGED started

Die ==
  /\ main' = "died" /\ waiter' = "none" /\ handler' = "none"
  /\ UNCHANGED <<started, task, transport>>

\* The finally block arms the timer, or moves it if it runs already.
Arms == ~force /\ keepalive' /\ ~closing'
ArmTimer == timer' = IF ~Arms THEN timer ELSE IF timer = "off" THEN "armed" ELSE "moved"

\* A request is done with: the finally block, then the head of the loop.
GoOn ==
  /\ ArmTimer
  /\ IF Arms
       THEN /\ IF started < accepted THEN Pop ELSE Sleep
            /\ UNCHANGED <<task, transport>>
       ELSE Leave

\* A break, or a break of the finally block that swallows CancelledError.
Break == ArmTimer /\ Leave

\* CancelledError leaves the loop: not if the finally block breaks.
Raise == ArmTimer /\ IF force \/ Arms THEN Die ELSE Leave

\* The first step of start(), which runs before data is received.
Begin ==
  /\ main = "begin"
  /\ IF "main" \in doomed THEN Die
     ELSE IF force THEN Leave
     ELSE Sleep /\ UNCHANGED <<task, transport>>
  /\ doomed' = doomed \ {"main"}
  /\ UNCHANGED <<connected, force, closing, requests, keepalive, timer, shut>>

\* start() goes on after its _waiter; _force_close is not looked at again.
Woken ==
  /\ main = "waiting" /\ waiter \in {"set", "cancelled"}
  /\ IF waiter = "set" /\ "main" \notin doomed
       THEN Pop /\ UNCHANGED <<task, transport>>
       ELSE Die
  /\ doomed' = doomed \ {"main"}
  /\ UNCHANGED <<connected, force, closing, requests, keepalive, timer, shut>>

\* The answer was sent.  What is left of the request's body is read first.
Replied ==
  /\ main = "handling" /\ handler \in {"keep", "close"} /\ "main" \notin doomed
  /\ keepalive' = (handler = "keep")
  /\ \/ /\ started \in ended \/ force
        /\ UNCHANGED closing /\ GoOn
     \/ /\ started \notin ended /\ ~force
        /\ main' = "lingering" /\ handler' = "none"
        /\ UNCHANGED <<closing, started, waiter, timer, task, transport>>
  /\ UNCHANGED <<connected, force, requests, doomed, shut>>

\* The client went away.
Reset ==
  /\ main = "handling" /\ handler = "reset" /\ "main" \notin doomed
  /\ UNCHANGED <<keepalive, closing>> /\ Break
  /\ UNCHANGED <<connected, force, requests, doomed, shut>>

\* The handler was cancelled, or start() was after the handler's end.
Cancelled ==
  /\ main = "handling" /\ Answered /\ (handler = "cancelled" \/ "main" \in doomed)
  /\ UNCHANGED <<keepalive, closing>> /\ Raise
  /\ doomed' = doomed \ {"main"}
  /\ UNCHANGED <<connected, force, requests, shut>>

\* force_close; its cancellation of _waiter is added where there may be one.
CutOff ==
  /\ force' = TRUE /\ transport' = "gone"

\* Another exception: force_close, and the loop ends.
Fail ==
  /\ \/ main = "handling" /\ handler = "failed"
     \/ main = "lingering"
  /\ "main" \notin doomed
  /\ CutOff
  /\ main' = "over" /\ handler' = "none"
  /\ UNCHANGED <<connected, closing, requests, started, waiter, keepalive, timer,
                 task, doomed, shut>>

\* Lingering ends with the body, or after lingering_time, when the connection
\* is closed unless the body came to its end after all.
Lingered ==
  /\ main = "lingering" /\ "main" \notin doomed
  /\ closing' = (closing \/ (started \notin ended /\ ~force))
  /\ UNCHANGED keepalive /\ GoOn
  /\ UNCHANGED <<connected, force, requests, doomed, shut>>

LingerCancelled ==
  /\ main = "lingering" /\ "main" \in doomed
  /\ UNCHANGED <<keepalive, closing>> /\ Raise
  /\ doomed' = doomed \ {"main"}
  /\ UNCHANGED <<connected, force, requests, shut>>

-----------------------------------------------------------------------------
(* _handle_request, in a task of its own. *)

\* It ends, and tells a shutdown that waits for it; the future is one that
\* cannot be set any more if shutdown has given up but did not run since.
Done(how) ==
  /\ handler' = IF grace \in {"set", "cancelled"} THEN "failed" ELSE how
  /\ grace' = IF grace = "pending" THEN "set" ELSE grace
  /\ doomed' = doomed \ {"handler", "body"}

HandlerBegins ==
  /\ handler = "created"
  /\ IF "handler" \in doomed
       THEN handler' = "cancelled" /\ doomed' = doomed \ {"handler"}
       ELSE /\ handler' = IF started \in bad THEN "writing" ELSE "running"
            /\ UNCHANGED doomed
  /\ UNCHANGED <<conn, requests, started, waiter, main, keepalive, timer, task, shut>>

\* User code returns or raises something that becomes a response; or it had
\* sent part of one; or it ends with CancelledError, its own or requested.
HandlerReturns ==
  /\ handler = "running"
  /\ \/ handler' = "writing" /\ UNCHANGED <<doomed, grace>>
     \/ \E how \in {"reset", "cancelled"} : Done(how)
  /\ UNCHANGED <<conn, requests, started, waiter, main, keepalive, timer, task, stage, late>>

\* finish_response: the response is written, or the transport is closed, or
\* something raises.  The response to a parse error always closes.
HandlerWrites ==
  /\ handler = "writing"
  /\ \/ transport = "open" /\ Done("close")
     \/ transport = "open" /\ started \notin bad /\ Done("keep")
     \/ transport # "open" /\ Done("reset")
     \/ Done("failed")
     \/ "handler" \in doomed /\ Done("cancelled")
  /\ UNCHANGED <<conn, requests, started, waiter, main, keepalive, timer, task, stage, late>>

-----------------------------------------------------------------------------
(* The connection. *)

\* Bug: a parse error wakes nobody.
BadDataReceived ==
  /\ connected /\ transport = "open" /\ ~force /\ ~closing /\ main # "begin"
  /\ accepted < MaxRequests
  /\ accepted' = accepted + 1
  /\ \/ /\ parsing = 0
        /\ \/ ended' = ended \cup {accepted + 1} /\ parsing' = 0
           \/ parsing' = accepted + 1 /\ UNCHANGED ended
        /\ waiter' = IF waiter = "pending" THEN "set" ELSE waiter
        /\ UNCHANGED bad
     \/ /\ bad' = bad \cup {accepted + 1}
        /\ ended' = ended \cup {accepted + 1} /\ parsing' = 0
        /\ UNCHANGED waiter
  /\ UNCHANGED <<conn, loop, timer, doomed, shut>>

\* data_received with a request: complete, the beginning of one, or an error.
DataReceived ==
  /\ connected /\ transport = "open" /\ ~force /\ ~closing /\ main # "begin"
  /\ accepted < MaxRequests
  /\ accepted' = accepted + 1
  /\ \/ /\ parsing = 0
        /\ \/ ended' = ended \cup {accepted + 1} /\ parsing' = 0
           \/ parsing' = accepted + 1 /\ UNCHANGED ended
        /\ UNCHANGED bad
     \/ /\ bad' = bad \cup {accepted + 1}
        /\ ended' = ended \cup {accepted + 1} /\ parsing' = 0
  /\ waiter' = IF waiter = "pending" THEN "set" ELSE waiter
  /\ UNCHANGED <<conn, loop, timer, doomed, shut>>

\* data_received with the end of a body.
BodyEnds ==
  /\ connected /\ transport = "open" /\ ~force /\ ~closing
  /\ parsing # 0
  /\ ended' = ended \cup {parsing} /\ parsing' = 0
  /\ UNCHANGED <<conn, accepted, bad, loop, waiter, timer, doomed, shut>>

\* The transport is closed, by the peer or after a close of ours.  The event
\* loop runs a start() that was woken, or has not begun, before this.
ConnectionLost ==
  /\ connected /\ main # "begin" /\ ~(main = "waiting" /\ waiter = "set")
  /\ connected' = FALSE /\ transport' = "gone" /\ force' = TRUE
  /\ waiter' = CancelWaiter
  /\ timer' = "off"
  /\ \/ /\ TRUE \in HandlerCancellation /\ task
        /\ doomed' = doomed \cup Doom
     \/ FALSE \in HandlerCancellation /\ UNCHANGED doomed
  /\ task' = FALSE
  /\ UNCHANGED <<closing, requests, started, main, handler, keepalive, shut>>

\* Bug: a future that has its result counts as waiting.
BadProcessKeepalive ==
  /\ timer \in {"armed", "moved"}
  /\ IF timer = "moved" /\ ~force /\ keepalive
       THEN timer' = "armed" /\ UNCHANGED <<waiter, transport, force>>
       ELSE /\ timer' = "off"
            /\ IF ~force /\ keepalive /\ waiter # "none"
                 THEN CutOff /\ waiter' = CancelWaiter
                 ELSE UNCHANGED <<waiter, transport, force>>
  /\ UNCHANGED <<connected, closing, requests, loop, doomed, shut>>

\* Bug: a timer that fires too early is always started too early again.
BadMovedKeepalive ==
  /\ timer \in {"armed", "moved"}
  /\ IF timer = "moved" /\ ~force /\ keepalive
       THEN UNCHANGED <<timer, waiter, transport, force>>
       ELSE /\ timer' = "off"
            /\ IF ~force /\ keepalive /\ waiter = "pending"
                 THEN CutOff /\ waiter' = CancelWaiter
                 ELSE UNCHANGED <<waiter, transport, force>>
  /\ UNCHANGED <<connected, closing, requests, loop, doomed, shut>>

\* _process_keepalive: a timer that was moved starts again; an idle
\* connection is closed by force.
ProcessKeepalive ==
  /\ timer \in {"armed", "moved"}
  /\ IF timer = "moved" /\ ~force /\ keepalive
       THEN timer' = "armed" /\ UNCHANGED <<waiter, transport, force>>
       ELSE /\ timer' = "off"
            /\ IF ~force /\ keepalive /\ waiter = "pending"
                 THEN CutOff /\ waiter' = CancelWaiter
                 ELSE UNCHANGED <<waiter, transport, force>>
  /\ UNCHANGED <<connected, closing, requests, loop, doomed, shut>>

-----------------------------------------------------------------------------
(* The server shuts down. *)

\* BaseRunner.cleanup: pre_shutdown closes every connection that has not
\* begun its shutdown: close().
PreShutdown ==
  /\ stage = "no" /\ Registered
  /\ stage' = "closing" /\ closing' = TRUE
  /\ waiter' = CancelWaiter
  /\ UNCHANGED <<connected, transport, force, requests, loop, timer, doomed, grace, late>>

\* Bug: start() is not cancelled.
BadFinish ==
  /\ stage' = "done"
  /\ CutOff
  /\ waiter' = CancelWaiter
  /\ UNCHANGED doomed

\* The last part of shutdown: start() is cancelled, the transport closed.
Finish ==
  /\ stage' = "done"
  /\ CutOff
  /\ waiter' = CancelWaiter
  /\ doomed' = IF task THEN doomed \cup Doom ELSE doomed

\* Its second part: the request's body raises CancelledError, and start() may
\* still end by itself.
SecondPart ==
  IF task /\ main \notin Ended
    THEN /\ stage' = "wait" /\ force' = TRUE
         /\ doomed' = doomed \cup IF handler = "running" THEN {"body"} ELSE {}
         /\ UNCHANGED <<waiter, transport>>
    ELSE Finish

\* Bug: a request in progress is not waited for.
BadShutdown ==
  /\ stage = "closing" /\ Registered
  /\ timer' = "off"
  /\ SecondPart /\ UNCHANGED grace
  /\ UNCHANGED <<connected, closing, requests, loop, late>>

\* shutdown(), after the application's own shutdown handlers.
Shutdown ==
  /\ stage = "closing" /\ Registered
  /\ timer' = "off"
  /\ IF InProgress
       THEN /\ stage' = "grace" /\ grace' = "pending" /\ force' = TRUE
            /\ UNCHANGED <<waiter, transport, doomed>>
       ELSE SecondPart /\ UNCHANGED grace
  /\ UNCHANGED <<connected, closing, requests, loop, late>>

\* The timeout cancels the future of the handler; shutdown runs later.
GraceExpires ==
  /\ stage = "grace" /\ grace = "pending"
  /\ grace' = "cancelled" /\ late' = TRUE
  /\ UNCHANGED <<conn, requests, loop, waiter, timer, doomed, stage>>

\* Bug: the timeout is not caught.
BadGraceOver ==
  /\ stage = "grace" /\ grace = "set"
  /\ grace' = "set"
  /\ SecondPart
  /\ UNCHANGED <<connected, closing, requests, loop, timer, late>>

GraceOver ==
  /\ stage = "grace" /\ grace \in {"set", "cancelled"}
  /\ grace' = IF grace = "set" THEN "set" ELSE "none"
  /\ SecondPart
  /\ UNCHANGED <<connected, closing, requests, loop, timer, late>>

\* start() has ended, or the timeout has elapsed.
WaitOver ==
  /\ stage = "wait"
  /\ late' = (late \/ main \notin Ended)
  /\ Finish
  /\ UNCHANGED <<connected, closing, requests, loop, timer, grace>>

Next ==
  \/ Begin \/ Woken \/ Replied \/ Reset \/ Cancelled \/ Fail \/ Lingered \/ LingerCancelled
  \/ HandlerBegins \/ HandlerReturns \/ HandlerWrites
  \/ DataReceived \/ BodyEnds \/ ConnectionLost \/ ProcessKeepalive
  \/ PreShutdown \/ Shutdown \/ GraceExpires \/ GraceOver \/ WaitOver

Spec == Init /\ [][Next]_vars

\* The event loop runs what is ready and its timers fire.  A client need not
\* send anything, and user code need not return.
Fairness ==
  /\ WF_vars(Begin) /\ WF_vars(Woken) /\ WF_vars(Replied) /\ WF_vars(Reset)
  /\ WF_vars(Cancelled) /\ WF_vars(Fail) /\ WF_vars(Lingered) /\ WF_vars(LingerCancelled)
  /\ WF_vars(HandlerBegins) /\ WF_vars(ProcessKeepalive)
  /\ WF_vars(transport # "open" /\ ConnectionLost)
  /\ WF_vars(GraceExpires) /\ WF_vars(GraceOver) /\ WF_vars(WaitOver)

FairSpec == Spec /\ Fairness

-----------------------------------------------------------------------------
(* What a connection must satisfy. *)

\* The values of the variables, and how the await points of the tasks fit.
TypeOK ==
  /\ {connected, force, closing, keepalive, task, late} \subseteq BOOLEAN
  /\ transport \in {"open", "closing", "gone"}
  /\ accepted \in 0 .. MaxRequests /\ started \in 0 .. accepted
  /\ parsing \in 0 .. accepted
  /\ bad \subseteq ended /\ ended \subseteq 1 .. accepted
  /\ main \in {"begin", "waiting", "handling", "lingering", "over", "died"}
  /\ waiter \in {"none", "pending", "set", "cancelled"}
  /\ handler \in {"none", "created", "running", "writing",
                  "keep", "close", "reset", "failed", "cancelled"}
  /\ timer \in {"off", "armed", "moved"}
  /\ doomed \subseteq {"main", "handler", "body"}
  /\ stage \in {"no", "closing", "grace", "wait", "done"}
  /\ grace \in {"none", "pending", "set", "cancelled"}
  /\ main = "waiting" <=> waiter # "none"
  /\ main = "handling" <=> handler # "none"

\* start() never sleeps on its waiter while a request is in the queue.
NoRequestUnseen == waiter = "pending" => started = accepted

\* A connection that is kept alive and idle has a timer that will close it,
\* although a timer is armed once and moved by later requests.
IdleHasTimer ==
  waiter = "pending" /\ started > 0 /\ ~force /\ ~closing => timer # "off"

\* The keep-alive timer closes idle connections only: not one whose next
\* request has arrived and whose start() did not run yet.
TimerSparesRequests ==
  [][ProcessKeepalive /\ transport' # transport => started = accepted /\ main = "waiting"]_vars

\* A shutdown waits for a handler only while there is one that will tell it.
GraceIsTold == grace = "pending" => InProgress

\* A shutdown cancels nothing before one of its timeouts has elapsed.
GraceGiven == doomed # {} => late \/ ~connected

\* When shutdown has returned the transport is closed, and what still runs has
\* been cancelled, unless the client had gone before.
ShutdownLeavesNothing ==
  stage = "done" =>
    /\ force /\ transport = "gone"
    /\ connected /\ main \notin Ended =>
         doomed \cap {"main", "handler"} # {} \/ waiter = "cancelled" \/ Answered

\* start() leaves its connection open in two cases only, unless shutdown is
\* about to close it: close() cancelled its waiter, or a handler was cancelled
\* after an earlier answer of keep-alive.
DeafOnlyIfKept ==
  main \in Ended /\ transport = "open" =>
    stage \in {"grace", "wait"} \/ (main = "died" /\ (closing \/ keepalive))

\* An idle connection that is kept alive does not stay so for ever.
IdleEnds == waiter = "pending" /\ started > 0 ~> waiter # "pending"

\* shutdown() returns, whatever handlers and clients do.
ShutdownEnds == stage \in {"grace", "wait"} ~> stage = "done"

\* web_protocol.py:632, "remove handler, close transport if no handlers left":
\* a connection whose start() has ended is not left open.  (Stated for a
\* server that is not being shut down.)
NoDeafConnection == stage = "no" /\ main \in Ended => transport # "open"
=============================================================================
