# TLA+ models of aiohttp's connections and dask's local scheduler

This directory holds TLA+ modules that model parts of the programs in `src/`, the TLC
configurations that check them on small instances, and theorems about them with proofs that
TLAPS checks for every value of the constants. Modelled are aiohttp's connection pool and name
resolution, its streams, the handler of a server connection and the client's WebSocket, and
the scheduler that dask runs on one machine.

`src/` is a course repository. It vendors complete copies of aiohttp, airflow, dask, fastapi
and of a library of textbook algorithms, next to a few scripts, virtual environments, logs and
reports. The state that several actors share, and with it the behaviour that is hard to test,
is in the vendored programs. Paths below are relative to `src/lab7&8/` unless they say
otherwise.

## 1. Inventory

`PROJECT.json` lists every component with the reason for those left out. The ones with state
worth a model:

| Component | State | Operations | Hard behaviour | What makes it correct |
|---|---|---|---|---|
| client connection pool (`aiohttp/aiohttp/connector.py`, `BaseConnector`) | `_conns`, `_acquired`, `_acquired_per_host`, `_waiters`, `_cleanup_handle`, `_closed`, the transports | `connect`, `_get`, `_wait_for_available_connection`, `_release`, `_release_acquired`, `_release_waiter`, `_cleanup`, `close` | awaits between reservation and use; cancellation and timeouts of parked and woken callers; close at any await; transports lost by the peer; traces that raise | exclusive leases, exact slots, no lost wake-up, nothing open after close, idle transports leave |
| client name resolution (same file, `TCPConnector`) | `_cached_hosts`, `_throttle_dns_futures`, `_resolve_host_tasks` | `_resolve_host`, `_resolve_host_with_throttle`, `clear_dns_cache`, `close` | one lookup shared by many callers, shielded from their cancellation; entries that expire or are cleared; failing traces | one lookup per host, no forgotten waiter, no broadcast cancellation |
| dask scheduler for one machine (`dask/dask/local.py`) | `waiting`, `waiting_data`, `ready`, `running`, `finished`, `released`, `cache`, the futures and the queue | `start_state_from_dask`, `fire_tasks`, the main loop, `finish_task`, `release_data` | batches that end in any order, fail in part or die; early and late release; chunks and worker counts; a blocking queue | each task once, no input lost, memory bounded by need, termination |
| stream flow control (`aiohttp/aiohttp/streams.py`, `base_protocol.py`) | buffer, offset, size, cursor, chunk splits, `_eof`, `_exception`, `_waiter`, `_eof_waiter`, `_reading_paused` | `feed_data`, `feed_eof`, `begin_` and `end_http_chunk_receiving`, `set_exception`, the `read*` methods, `unread_data`, `wait_eof`, `drain` | pause and resume against the transport; eof, errors and cancellation racing a reader; one connection, several bodies | bytes once and in order, no reader sleeps on data, the transport is not paused for ever |
| server connection handler (`aiohttp/aiohttp/web_protocol.py`) | `_messages`, `_waiter`, `_current_request`, `_task_handler`, `_handler_waiter`, keep-alive timer, `_close`, `_force_close` | `data_received`, `start`, `_handle_request`, `finish_response`, `connection_lost`, `_process_keepalive`, `close`, `shutdown` | keep-alive timer against a new request; shutdown during a handler; a handler that fails, is cancelled or outlives its connection | every request is seen, idle connections close, shutdown gives time and ends |
| server start and stop (`aiohttp/aiohttp/web_runner.py`, `web_server.py`) | `_sites`, `_server`, the server's connections | `setup`, `cleanup`, `pre_shutdown`, `shutdown`, site `start` and `stop` | cleanup between the requests of a connection, or of a runner set up in part | every site stopped once, no connection left |
| WebSocket sessions (`aiohttp/aiohttp/client_ws.py`, `web_ws.py`) | `_closed`, `_closing`, `_waiting`, `_close_wait`, `_close_code`, the queue of frames, heartbeat timers, ping task | `receive`, `close`, `_send_heartbeat`, `_ping_task_done`, `_pong_not_received`, `feed_data` of the queue | close against a concurrent receive or close; cancellation between the steps of a close; timers of the heartbeat | one reader, one Close frame, every call ends, the connection is given back |
| airflow scheduler, executors, triggerer, DAG processing (`airflow/airflow/jobs`, `executors`, `dag_processing`) | database rows, queues of keys, event buffers, process tables | heartbeat, `critical section`, `trigger_tasks`, `sync`, event handling | several schedulers, lost processes, results out of order | slots respected, no task run twice or lost |

How they interact. A client call runs `connect`; inside it `_create_connection` calls
`_resolve_host`. Both run on one event loop, so that everything between two awaits is atomic,
and a call is fully described by the await it is suspended at plus what it owns. `close` of the
`TCPConnector` cancels the lookups and then closes the pool. The pool hands a transport to the
response, which gives it back by `Connection.release` or `close`. The pool learns of lost
transports only by looking at `is_connected()`. The stream of a body pauses and resumes the
transport of its connection, which the next body of the same pooled connection finds as the last
one left it. A WebSocket session owns its connection until `close` returns it. On the server
one task per connection runs `start`; the parser's callbacks, the keep-alive timer and the
runner's `cleanup` act on the same object between its awaits. In dask one scheduler thread owns all state and
talks to the workers through `submit` and a queue of ended futures. airflow and fastapi share no
state with the others.

The hazards, each at its line, are in `PROJECT.json` together with the properties that would
notice them.

## 2. Plan

The order was chosen by what several actors share. Built so far:

1. `LeasePool` (abstract), `ConnectionPool` (detailed), their proofs and the refinement.
2. `DnsThrottle` and its proofs.
3. `TaskGraph` (abstract), `LocalScheduler` (detailed), its proofs and the refinement.
4. `StreamFlow`: the reading half of a stream and the pausing of its transport; its proofs.
5. `RequestHandler`: one server connection with lingering, keep-alive and shutdown; its proofs.
6. `WebSocketSession`: the client's WebSocket, closing and heartbeat; its proofs.

Left, in this order:

7. `Connector`: the pool and the name resolution composed, with the attempts over several
   addresses in between, and the life of a response on top of pool and stream.
8. The writing half of a stream (`pause_writing`, `drain`), `DataQueue`, and the server's
   WebSocket (`web_ws.py`).
9. `ExecutorSlots`: airflow's `base_executor.py` and `local_executor.py`.
10. `StaticOrder`: `order` of dask and some of the algorithms library as operators checked
    against a definition on every small input.

## 3. The modules and the code

| Module | What it is |
|---|---|
| `ConnectionPool` | `BaseConnector`, one action per step between two awaits |
| `LeasePool` | what a pool promises: leases, spare transports, a bound per key |
| `DnsThrottle` | `_resolve_host`, its throttle, the cache and `close` |
| `LocalScheduler` | `get_async` and the state functions of `dask/local.py` |
| `TaskGraph` | what computing a graph means: compute, keep, discard, deliver |
| `StreamFlow` | `StreamReader` and the reading half of `BaseProtocol` |
| `RequestHandler` | one connection of the server, with the shutdown of its server |
| `WebSocketSession` | `ClientWebSocketResponse` with the queue its frames arrive in |
| `MCConnectionPool`, `MCDnsThrottle`, `MCLocalScheduler`, `MCStreamFlow`, `MCRequestHandler`, `MCWebSocketSession` | instances for TLC: symmetry, the sets a configuration cannot write, size checks |
| `SetCounting` | lemmas about cardinalities: one more, one less, an injection |
| `ConnectionPoolProofs`, `LeasePoolProofs`, `DnsThrottleProofs`, `LocalSchedulerProofs`, `StreamFlowProofs`, `RequestHandlerProofs`, `WebSocketSessionProofs` | the theorems |

An operator whose name starts with `Bad` is a plausible bug. It is not part of any
specification; each property is shown to fail when the operator replaces the one it imitates.

### ConnectionPool

A task is at one await: `queued`, `cancelled` and `woken` are the three conditions of
`_wait_for_available_connection`, `creating` is `_create_connection`, `created` and `reusing`
are the traces that follow it or follow `_get`, `holding` is a returned `Connection`.

| Code | Action |
|---|---|
| `connect` up to its first await | `Connect`: takes an idle transport, reserves a slot, or queues |
| resumption of a woken waiter | `Resume`: the same choice; a caller that finds no slot queues at the front |
| cancellation or timeout | `Cancel`, `Unwind`, `CancelAfterWake`, and the failing branch of the awaits |
| `_create_connection` returns or raises | `Establish`, `FailCreate` |
| trace returns or raises | `TraceDone`, `FailReuse`, `FailCreate` |
| `Connection.release` and `close`, `_release` | `Release` |
| `_cleanup` | `Cleanup` |
| `close` | `Close` |
| time, the peer | `Expire`, `Lose` |

The placeholder is the task, so `_acquired` is a set of tasks and transports as in the code. The
deque of idle transports is a set: entries expire oldest first, so which one is taken does not
matter to any property here. `Fresh` lets a transport's identity stand for a new one when nobody
refers to the old one.

### DnsThrottle

`cached` distinguishes an absent, a fresh and a stale entry: `_resolve_host` looks at the
expiry, `next_addrs` does not. `throttle` maps a host to the lookup whose set of futures the
dictionary holds. A waiter's future is `fut`, the lookup it depends on is `on`; the owner awaits
the shielded lookup through the same pair. `Eager` is Python 3.12 and later, where the lookup
task runs at once; before that it is `scheduled`, and a task that `close` cancels before its first step
never reaches its `finally`.

### LocalScheduler

Keys are the positions `order(dsk)` gives them, hence the numbers `0 .. N-1`, and a task depends on
smaller keys only. `FireTasks` is one whole round of the loop up to `queue_get`, `Collect` takes a
batch, `Apply` treats one result with all of `finish_task` and `release_data`. An entry missing from
`waiting` or `waiting_data` is an empty set here: the code deletes empty entries of `waiting`, and for an
entry missing from `waiting_data` it releases as for an empty one. `BatchEnds` is the executor:
batches end in any order, with failed tasks, or broken when a worker died.

### StreamFlow

A byte is its position in the body, so that what was read can be compared with what was sent.
The record `stream` holds the fields that reading changes; a read method is a function from
such a record to the next one and to how it goes on (done, or wait for a future). The loops of
`_read_nowait` and `readuntil` are recursive functions: `Rounds` is what a loop has reached after
each number of rounds, `TakePiece` and `TakeLine` are one round of each, and a loop is over when
every piece in the buffer had its round. The ends of HTTP chunks only grow, so that the list of
them is a set whose head is the least.

| Code | Action |
|---|---|
| `data_received` of the protocol, from its first callback until it returns | `FeedData`, `BeginChunk`, `EndChunk`, `FeedEof` while `parsing`, then `Return` |
| `read(n)`, `read_nowait`, `read(-1)`, `readexactly`, `readuntil`, `readchunk` up to an await | `Read`, and `Resume` when the future was resolved |
| a future that got an exception | `Raise` |
| cancellation of a reader, also after its future was resolved | `Cancel`, then `Raise` |
| `unread_data` | `UnreadData` |
| `wait_eof` | `WaitEof`, `EofWaited` |
| `set_exception` | `SetException` |
| `connection_lost` | `ConnectionLost` |
| the next message on the connection gets a new `StreamReader` | `NextMessage` |

`Discards` lets a body that is complete be left unread in the buffer, as a response may be.

### RequestHandler

Requests are numbered in the order they are parsed: those between `started` and `accepted` are in
`_messages`. `main` is where `start` waits, `handler` where `_handle_request` is or how it ended,
`stage` where the shutdown of the server is.

| Code | Action |
|---|---|
| `start` up to its first wait; after `_waiter` | `Begin`, `Woken` |
| `start` after the handler's task, by how it ended | `Replied`, `Reset`, `Cancelled`, `Fail` |
| the reading of the rest of a body | `Lingered`, `LingerCancelled` |
| `_handle_request` and `finish_response` | `HandlerBegins`, `HandlerReturns`, `HandlerWrites` |
| `data_received`, the end of a body | `DataReceived`, `BodyEnds` |
| `connection_lost` | `ConnectionLost` |
| `_process_keepalive` | `ProcessKeepalive` |
| `BaseRunner.cleanup`: `pre_shutdown`, then `shutdown` of the connection | `PreShutdown`, `Shutdown` |
| the two timeouts of `shutdown`, and its awaits that end | `GraceExpires`, `GraceOver`, `WaitOver` |

Two facts about the loop's first-in-first-out queue are guards: no bytes arrive before `start` has
taken its first step (`Begin`), and `connection_lost` does not come between the wake-up of `start` and its
resumption.

### WebSocketSession

| Code | Action |
|---|---|
| `receive` up to the queue, and after it | `Receive`, `Received` |
| `close` up to its first await | `CallClose` |
| `close` after `_close_wait`, after the Close frame, after the queue | `HandedOver`, `Written`, `Drained` |
| cancellation, and the timeout of a read | `Interrupt` |
| `_send_heartbeat`, its ping and `_ping_task_done` | `SendHeartbeat`, `PingEnds`, `PingTaskDone` |
| `_pong_not_received` | `PongNotReceived` |
| the reader and the queue: a frame, an exception, the read timeout | `PeerSends`, `QueueFails` |
| the transport | `LinkBreaks`, `ConnectionLost` |

A failed read of `close`, a message that is not a Close frame and a cancelled write are branches of
these actions. The queue holds kinds of frames, because nothing else about a frame changes a flag.
`Took` has a branch for each `except` of `receive`: eof, `WebSocketError` (`broken`), any other
exception of the reader (`failed`: `WebSocketReader.feed_data` passes on whatever it meets), the read
timeout, and `ClientError` (`disconnected`). The last is not what `connection_lost` gives the
queue, which is eof; the comment in `receive` expects it there and a test sets it. `LostAs` says
which of the two a lost connection gives, and the run allows both.

## 4. The runs

| Run | Instance | Shows |
|---|---|---|
| `PoolTotal` | 4 tasks, 2 keys, 4 transports, limit 2 | exclusive leases, no lost slot, nothing outlives `close`, no leaked transport |
| `PoolTraced` | 3 tasks, 2 keys, limit 3, 1 per host, traces, every cancellation | slots exact, parked callers queued once and nobody else but cancelled ones, the pool implements `LeasePool` (and with it the bound per key) |
| `PoolLive` | 3 tasks, 2 keys, limit 1 | idle transports leave; parked tasks are served once callers stop coming |
| `DnsEager` | 3 tasks, 1 host | exact throttle, no broadcast cancellation, every call ends |
| `DnsTraced` | 2 tasks, 2 hosts, traces, scheduled tasks | one lookup per host; resolved waiters find addresses |
| `SchedulerRuns` | every graph of 4 keys, 2 workers, chunks of 1 and 2 | each task once, inputs kept, nothing hoarded, tasks and full batches in flight bounded, termination, implements `TaskGraph` |
| `StreamReads` | 1 reader, low water mark 1, 2 bodies of up to 4 bytes in pieces of up to 3 | bytes in order, paused only while full, no sleep on data, `readuntil` and `readexactly` stop where they must, every read ends |
| `ServerRequests` | 1 connection, 3 requests | no request unseen, the keep-alive timer spares requests, the grace of a shutdown, nothing left after it, idling and shutting down end |
| `WebSocketClose` | a receiver, 2 other closers, 2 queued frames, both values of `autoclose`, every end of the queue | one reader, one Close frame, the peer's code kept, connection given back but after a `ClientError`, every call ends, the heartbeat stops |

Some properties are proved for all constants, follow from or accompany another property of a
run, and are not run again: the type invariants of the modules with proofs, and
`IdleGetsCleaned`, `PerKeyBound`, `NewConnectionWithinLimit`, `NobodyForgotten`, `IdleHasTimer`,
`GraceIsTold`, `DeafOnlyIfKept` and `HandOverSeen`.

Runs that find a disagreement between the code and what it says of itself:

| Run | What happens |
|---|---|
| `PoolCancelledWakeup` | a caller cancelled after its wake-up takes the wake-up with it; the next one stays parked with every slot free |
| `StreamReuse` | a body that arrived completely but was left unread above the high water mark leaves the transport of a pooled connection paused; nothing resumes it for the next response |
| `ServerDeaf` | a handler that ends with `CancelledError` on a connection that an earlier answer kept alive ends `start` with the transport open: nobody serves it any more |

### Bounds, and why they are enough

The pool needs three tasks for one that holds, one that is woken and one that overtakes it; the
fourth in `PoolTotal` lets two slots be given back while two tasks wait, the case in which a lost
wake-up shows. Two keys are the least for a slot of one endpoint to be given to another. Limits
are such that the total binds in `PoolTotal` and `PoolLive` and the limit per host in `PoolTraced`. Three callers of one host are an owner
and two waiters; a fourth adds no new relation, because waiters of a lookup do not see one
another. `MCDnsThrottle` assumes enough lookup identities that none is ever missing. Graphs of
four keys contain chains, forks, joins and diamonds; two workers and chunks of one and two give
full, partial and several chunks in flight. A low water mark of one byte makes pieces of three
cross the high one and leaves bytes above and below it after a read; separators next to each
other, at two and three, are those a `readuntil` could skip; a second body meets what the first
one left. Several readers are the subject of the theorems, which need no bound: `InOrder` and
`PausedOnlyWhileFull` hold for any number of them, the others for readers that take turns. Three requests are one in work, one that
waits, and one to keep the connection alive before them. In a WebSocket two closers and the
receiver are the least for a `close` that finds another `close` waiting for `receive`; the queue
holds a frame to be skipped and a Close frame. The safety properties listed in section 5 are proved
without bounds, so that there the runs only guard against a formula that is false or empty.

`CHECK_DEADLOCK FALSE` is set where the system may stop: nobody is obliged to call a connector,
a closed connector whose callers are done has nothing left to do, `get_async` ends, and so do
a body, a connection and a session. Whether a
waiting call can be stuck is the question of the liveness properties there.

Symmetry is used in the safety runs of the pool and the name resolution only, never with a
liveness property.

### Fairness

- The event loop runs every task that is ready, calls every timer that is due, and in the end
  transports time out or connect: weak fairness of the resumptions, of `Establish` or `FailCreate`,
  of the ends of traces, of `Cleanup` and `Expire`. Nobody is obliged to call, to cancel, to
  close or to lose a transport.
- `Release` is fair: a response is read, closed or collected in the end
  (`Connection.__del__` releases it too).
- A resolver answers or fails (it is an executor call or a library with timeouts).
- The scheduler thread runs on and the executor ends what it was given.
- In `StreamFlow` the loop runs ready readers and lets `data_received` return; the peer ends the
  body it sends: weak fairness of `EndChunk` and strong fairness of `FeedEof`, which a paused transport
  interrupts. `ReadsEnd` therefore also says that the transport is resumed again and again.
- In `RequestHandler` ready tasks and timers run. Clients need not send anything and the user's
  handlers need not return: a shutdown ends without them.
- In `WebSocketSession` ready tasks and timers run. The timeout of `close` starts again with every
  message, and a write that the transport does not take may wait for ever: `CloseEnds` says what
  is left.

The pool's `ServedWhenQuiet` needs its premise: as long as new callers keep coming, a woken task
can find its slot taken every time.

## 5. What is proved

All theorems hold for every number of tasks, keys, transports, lookups, graph keys, workers and readers, and for
every setting of the flags (unless a hypothesis is named below), from the named assumptions of the modules (finite sets where
something is counted, "none" values outside of the sets they extend, limits that are
natural numbers).

- `ConnectionPoolProofs`: `TypeCorrect`, `LeasesAreExclusive`, `SlotsAreExact`, `KeysStayBounded`.
  The inductive invariant is `TypeOK`, `ExclusiveLease`, `ClosedIsEmpty` and `SlotsMatchUse`
  together. Exclusive leases need `ClosedIsEmpty`, because `_release` leaves the pool of a closed
  connector alone; exact slots need exclusive leases, because to remove one transport from
  `_acquired` must not remove the slot of somebody else. `KeysStayBounded` is inductive over
  that: only a reservation adds to a key, after `_get` found nothing idle and
  `_available_connections` found room; reuse and release move a transport between the two sets
  that are counted, which is why taking an idle transport without a look at the limits is sound
  per endpoint. `SlotsDiffer` and `CountByImage` turn the exact slots into the counts.
  On top of it: `IdleIsTimed`; `NewConnectionsFit`; `QueuesAreExact`, whose invariant `Lined` says
  that a queue repeats nobody, holds every parked caller of its key, and besides them only callers
  cancelled there that have not unwound;
  `NoWakeUpIsLost`, for a total limit alone and without cancellation between wake-up and
  resumption, whose invariant `UsedUp` counts transports in use and woken callers against the
  limit; `NothingLeaks` and `CloseClosesAll`, without trace callbacks, from `KeptHolds`: an open
  transport is in the hands of a caller or of the pool.
  `PoolImplementsLeases` is the refinement as a theorem. `OneTask`
  reduces a step to the task it is about; each action is then one of `LeasePool` or leaves its
  variables alone. It assumes that the string LeasePool uses for a transport being opened is
  no transport (`OpeningIsApart`).
- `LeasePoolProofs`: `PromiseKept`, the abstract promise, under that module's assumption.
- `DnsThrottleProofs`: `TypeCorrect`, `OneLookupPerHost`, `CancellationStaysLocal`. The invariant adds
  that a running lookup owns the throttle entry of its host (`OwnsEntry`) and that only `close`
  cancels. `WaitersAreServed` and `ThrottleIsExact` hold without traces, with the converse
  `EntriesRun` (an entry leads to a lookup that runs): a trace can end a lookup before its `try`,
  and then the entry and the waiters stay. `ThrottledGetAddresses` holds if nobody clears the
  cache; its invariant `ResultsCached` says that a waiter resolved without an error has an entry.
- `LocalSchedulerProofs`: `TypeCorrect` and `InputsAreKept`. The invariant adds that `waiting` and
  `waiting_data` are the graph without what is computed (`CountsExact`), which makes the test of
  `release_data` the right one, and that no batch is empty. `ComputedOnce` adds `Placed`: what is
  ready is stacked once, batches are apart from each other and from the stack, and what is in
  flight is wanted. `MemoryIsReleased` and `WorkersSuffice` follow the same steps; for the latter `TasksBound` is
  inductive, and full batches are counted by their tasks, which `Placed` keeps apart. And
  `SchedulerImplementsGraph` maps each of them to a step of `TaskGraph` or a stutter.
- `StreamFlowProofs`: `Invariant`, `TypeCorrect`, `BytesInOrder`, `PausedWhileFull`,
  `NobodySleepsOnData`, `ExactReadsAreExact`, `LinesAndExactReads`. What the loops compute for every
  buffer needs induction, and the library's induction theorems take operators the provers cannot
  instantiate. `InductionOnSets` states it for sets of numbers instead and follows from the
  pigeonhole principle: were a number missing, its predecessors in the set would map one to one
  to fewer. `RoundsExist` derives the recursion of a loop from it, `ReadNowaitTakes` and `ReadUntilTakes` what
  the two loops return. The core of the invariant is `Consistent`: the pieces in the buffer are
  consecutive bytes up to the last one fed (`Linked`), the first is cut at the offset, and size, cursor,
  chunk ends and what was read agree. Each read method then has one `Effect`: it moves the cursor
  on, stays consistent, and waits only if it left nothing it could take. `BytesInOrder` flattens
  the linked pieces, also by induction (`FlattenLinked`). `TypeCorrect`, `BytesInOrder` and `ExactReadsAreExact` hold
  for any number of readers in any order. `PausedWhileFull` needs that no body is left unread
  (`~Discards`; `StreamReuse` shows why). `NobodySleepsOnData` and `LinesAndExactReads` need readers that take
  turns (`TakesTurns`): while one is in a read, no other one reads or puts bytes back. The code asks for
  that in a comment (`streams.py:331`) and enforces a part of it: if a second reader starts to wait
  before a woken one resumes, the latter's `finally` clears the `_waiter` of the second, which
  TLC finds in the instance of `StreamReads` with a second reader. `LinesAndExactReads` assumes a separator of one byte besides, as that
  of `readline` is: `readuntil` does not find a longer one that is split over two pieces.
- `RequestHandlerProofs`: `TypeCorrect`, `RequestsAreSeen`, `IdleConnectionsAreTimed`,
  `TimerClosesIdleOnly`, `GraceAlwaysTold`, `GraceAlwaysGiven`, `ShutdownIsComplete`, `DeafCasesAreKnown`.
  One invariant carries them: `Serving` ties what `start` waits for to the queue, `Connection` the
  transport to the flags, `Stopping` what each stage of a shutdown has done.
- `WebSocketSessionProofs`: `TypeCorrect`, `NeverTwoReaders`, `CloseFrameOnce`, `HandOverIsSeen`,
  `ConnectionGivenBack`, `AlwaysGivenBack`, `AlwaysWatched`, `PeerCodeStays`. The invariant says which tasks may be where:
  one task at most is past the point where `_closed` is set, only the receiver reads, and a
  hand-over has made the session closing. `PeerCodeStays` needs `CodeSafe` besides: once the peer's
  code is stored, whoever could store another one finds the session closed. `ConnectionGivenBack` excepts a
  queue that ended with a `ClientError`; `AlwaysGivenBack` has no exception and assumes that a lost
  connection gives eof only.

Only model-checked:

- liveness (`IdleEventuallyLeaves`, `ServedWhenQuiet`, `CallsEnd`, `Terminates`, `ReadsEnd`, `IdleEnds`,
  `ShutdownEnds`, `ReceiveEnds`, `CloseEnds`, `HeartbeatStops`): fairness and `ENABLED` are beyond the prover.

Every safety property that a passing run checks is a theorem, and so are those of section 4 that
no run checks. No module declares a RECURSIVE operator.

## 6. What is left out

- In the pool: closed SSL transports waiting to be aborted (`_cleanup_closed`), `keepalive_timeout=0`
  (`_release` then keeps the transport but no timer is set), the order of the idle deque, and the
  placeholders a closed connector keeps when `connect` is called on it: `SlotsMatchUse` speaks of open connectors.
- A total `limit` does not bound the connections in use over all endpoints, because `_get` comes
  first and looks at no limit. The properties state what does hold: a bound per endpoint, and
  the limit whenever a new connection is made.
- `NoLostSlot` and `ServedWhenQuiet` are stated for a total limit alone and without cancellation
  between wake-up and resumption: the run `PoolCancelledWakeup` shows what such a cancellation
  does, and under a limit per host two wake-ups for one endpoint can use up the slot of another.
- `NoTransportLeak` and `NothingOutlivesClose` are stated without traces. A trace that raises after a
  transport was made or taken leaves it open with nobody referring to it (`TraceDone`, `FailReuse`).
- In the name resolution: addresses and their round robin, IP literals, `use_dns_cache=False`.
  `ResultForAll` is stated for caches nobody clears: `clear_dns_cache` between the resolution of a
  waiter and its resumption makes `next_addrs` raise `KeyError`. `NobodyForgotten` is stated without
  traces: a `dns_cache_miss` trace that raises leaves the waiters unresolved and the host captured.
  A resolver that answers with an empty list makes `next_addrs` raise `StopIteration` inside
  a coroutine; those of the library raise instead.
- In the scheduler: callbacks of the user that raise, a `cache` argument that already holds keys of the
  graph, and an executor's own queue. Two things the module models and no property excludes:
  `chunksize=-1` divides by zero once a batch ends while another runs and nothing is ready, and
  with `rerun_exceptions_locally` a task that succeeds when run again has the worker's exception
  stored as its result. `WorkersBound` bounds tasks, and batches that are full: with a `chunksize`
  above 1, batches that are not full may outnumber the workers, since `fire_tasks` estimates
  the workers in use from the tasks that run, and with `chunksize=-1` every round fires all.
- In the streams: the writing half, `on_eof` callbacks, `DataQueue`, a limit of 0 (a paused transport
  is then never resumed), and the parser, which drops its payload without an exception at a
  malformed chunk. Some read methods do not look at `_exception` again after a wake-up, so
  that one set before a woken reader runs may leave it asleep: `ReadsEnd` ends with an exception.
- In the server: upgraded connections, and what is in requests and answers. `DeafOnlyIfKept` names
  the cases in which `start` leaves a connection open; the run `ServerDeaf` shows the one that matters.
- In the WebSocket: the server's session, sessions without heartbeat, the flow control of the
  queue, sending data, a second task in `receive` (which raises). Four things the module models
  and the properties leave room for: after a `ClientError` (`client_ws.py:347`) `receive` closes the session and
  not the response, so that the connection stays with it until it is collected (`GivenBack` fails
  there, which is why `ClosedIsReleased` excepts it), a pong counts when `receive` reads it and not when it
  arrives, the timeout of `close` starts again with every message, and an empty Close frame has
  the code 0, which `close` takes for none.
- Every component marked `not_modelled` in `PROJECT.json`, with its reason. Most of the repository
  is airflow's providers and interface, dask's collections, fastapi and vendored packages: their
  code is glue, formatting or numerics, and has no state that several actors share.
