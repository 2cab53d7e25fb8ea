--------------------------- MODULE ConnectionPool ---------------------------
(***************************************************************************)
(* The connection pool of the aiohttp client: BaseConnector of             *)
(* aiohttp/connector.py.  A task calls connect(key); it gets an idle        *)
(* connection to that endpoint, or opens a new one, or is parked until a    *)
(* slot is free.  Everything between two awaits is one atomic step, because *)
(* the event loop is single-threaded; a task is described by the await it   *)
(* is suspended at:                                                         *)
(*                                                                         *)
(*   idle       outside connect, owning nothing                             *)
(*   queued     in _wait_for_available_connection, its future pending       *)
(*   cancelled  the same, future cancelled, the finally clause not yet run  *)
(*   woken      future resolved by _release_waiter, task not yet resumed    *)
(*   creating   awaiting _create_connection, owning a placeholder           *)
(*   created    transport made, awaiting the connection_create_end trace    *)
(*   reusing    pooled transport taken, awaiting the reuseconn trace        *)
(*   holding    connect returned: the caller owns a Connection              *)
(*                                                                         *)
(* The placeholder of a task is the task itself, so _acquired is a set of   *)
(* connections and tasks.  The deque of idle connections of a key is        *)
(* abstracted to a set: entries expire oldest first, hence whatever the     *)
(* order, taking a usable entry first closes every expired one and perhaps  *)
(* some of the disconnected ones.                                           *)
(*                                                                         *)
(* An operator whose name starts with Bad is a plausible bug, used only to  *)
(* show that the properties notice it.                                      *)
(***************************************************************************)
EXTENDS Integers, Sequences, FiniteSets

CONSTANTS
  Task,          \* callers of connect
  Key,           \* connection keys: (host, port, is_ssl, ...) tuples
  Conn,          \* transports that can be open or referenced at the same time
  NoKey, NoConn, \* "none" values
  Limit,         \* limit; 0 means unlimited
  LimitPerHost,  \* limit_per_host; 0 means unlimited
  ForceClose,    \* force_close
  Traced,        \* trace callbacks are registered, so each trace is an await
  CancelWoken    \* a caller may be cancelled between its wake-up and its resumption

ASSUME SetsAssumption ==
  /\ IsFiniteSet(Task) /\ IsFiniteSet(Conn)
  /\ Task \cap Conn = {} /\ NoConn \notin Task
  /\ NoKey \notin Key /\ NoConn \notin Conn

ASSUME LimitsAssumption == Limit \in Nat /\ LimitPerHost \in Nat

ASSUME FlagsAssumption ==
  ForceClose \in BOOLEAN /\ Traced \in BOOLEAN /\ CancelWoken \in BOOLEAN

VARIABLES
  closed,    \* _closed
  idle,      \* _conns: the reusable transports of each key
  stale,     \* idle transports older than the keep-alive timeout
  acquired,  \* _acquired: transports and placeholders in use
  perHost,   \* _acquired_per_host, maintained only under a per-host limit
  waiters,   \* _waiters: the queue of parked tasks of each key
  armed,     \* _cleanup_handle is set
  open,      \* transports whose is_connected() is true
  pc, key, conn  \* per task: await point, key asked for, transport held

taskVars == <<pc, key, conn>>
vars == <<closed, idle, stale, acquired, perHost, waiters, armed, open,
          pc, key, conn>>

AwaitPoint == {"idle", "queued", "cancelled", "woken",
               "creating", "created", "reusing", "holding"}

AllIdle == UNION {idle[k] : k \in Key}

\* A transport nobody refers to any more: its identity can stand for a new one.
Fresh == {c \in Conn : c \notin open \cup AllIdle /\ \A t \in Task : conn[t] # c}

Init ==
  /\ closed = FALSE
  /\ idle = [k \in Key |-> {}] /\ stale = {}
  /\ acquired = {} /\ perHost = [k \in Key |-> {}]
  /\ waiters = [k \in Key |-> <<>>]
  /\ armed = FALSE
  /\ open = {}
  /\ pc = [t \in Task |-> "idle"]
  /\ key = [t \in Task |-> NoKey] /\ conn = [t \in Task |-> NoConn]

-----------------------------------------------------------------------------
(* Slots. *)

\* _available_connections, of the given _acquired and _acquired_per_host.
Available(acq, per, k) ==
  LET total == IF Limit > 0 THEN Limit - Cardinality(acq) ELSE 1
      host  == LimitPerHost - Cardinality(per[k])
  IN  IF /\ Limit > 0 => total > 0
         /\ LimitPerHost > 0
         /\ total > host
      THEN host ELSE total

Acquire(k, slot) ==
  /\ acquired' = acquired \cup {slot}
  /\ perHost' = IF LimitPerHost > 0
                THEN [perHost EXCEPT ![k] = @ \cup {slot}] ELSE perHost

\* Bug: the head of the queue is popped even if it is done.
BadFirstPending(q) == {i \in DOMAIN q : i = 1 /\ pc[q[i]] = "queued"}

\* The first future of a queue that is not done: the others were cancelled.
FirstPending(q) ==
  {i \in DOMAIN q : pc[q[i]] = "queued" /\ \A j \in 1..(i - 1) : pc[q[j]] # "queued"}

\* Bug: the future that is resolved stays in the queue until its task runs.
BadReleaseWaiter(t) ==
  LET eligible == {k \in Key : /\ Available(acquired', perHost', k) >= 1
                               /\ FirstPending(waiters[k]) # {}}
  IN  IF eligible = {}
      THEN waiters' = waiters /\ pc' = [pc EXCEPT ![t] = "idle"]
      ELSE \E k \in eligible : \E i \in FirstPending(waiters[k]) :
             /\ waiters' = [waiters EXCEPT ![k] = SubSeq(@, i, Len(@))]
             /\ pc' = [pc EXCEPT ![t] = "idle", ![waiters[k][i]] = "woken"]

\* _release_waiter, called by t as it leaves: the keys are tried in random
\* order; done futures in front of the one that is resolved are dropped.
ReleaseWaiter(t) ==
  LET eligible == {k \in Key : /\ Available(acquired', perHost', k) >= 1
                               /\ FirstPending(waiters[k]) # {}}
  IN  IF eligible = {}
      THEN waiters' = waiters /\ pc' = [pc EXCEPT ![t] = "idle"]
      ELSE \E k \in eligible : \E i \in FirstPending(waiters[k]) :
             /\ waiters' = [waiters EXCEPT ![k] = SubSeq(@, i + 1, Len(@))]
             /\ pc' = [pc EXCEPT ![t] = "idle", ![waiters[k][i]] = "woken"]

\* _release_acquired by task t; t leaves connect or drops its Connection.
ReleaseAcquired(t, slot) ==
  /\ key' = [key EXCEPT ![t] = NoKey]
  /\ conn' = [conn EXCEPT ![t] = NoConn]
  /\ IF closed
     THEN /\ pc' = [pc EXCEPT ![t] = "idle"]
          /\ UNCHANGED <<acquired, perHost, waiters>>
     ELSE /\ acquired' = acquired \ {slot}
          /\ perHost' = [perHost EXCEPT ![key[t]] = @ \ {slot}]
          /\ ReleaseWaiter(t)

-----------------------------------------------------------------------------
(* connect and the operations it is made of. *)

Usable(k) == {c \in idle[k] : c \in open /\ c \notin stale}

\* Bug: the entry is looked at but stays in the deque.
BadTakeIdle(t, k) ==
  \E c \in Usable(k) :
    /\ Acquire(k, c)
    /\ conn' = [conn EXCEPT ![t] = c]
    /\ pc' = [pc EXCEPT ![t] = IF Traced THEN "reusing" ELSE "holding"]
    /\ UNCHANGED <<idle, open, stale>>

\* _get finds a reusable transport: unusable entries in front of it are closed.
TakeIdle(t, k) ==
  \E c \in Usable(k), lost \in SUBSET (idle[k] \ open) :
    LET gone == lost \cup (idle[k] \cap stale) IN
    /\ idle' = [idle EXCEPT ![k] = @ \ (gone \cup {c})]
    /\ open' = open \ gone
    /\ stale' = stale \ gone
    /\ Acquire(k, c)
    /\ conn' = [conn EXCEPT ![t] = c]
    /\ pc' = [pc EXCEPT ![t] = IF Traced THEN "reusing" ELSE "holding"]

\* Bug: unusable entries are dropped without being closed.
BadDropIdle(k) ==
  /\ Usable(k) = {}
  /\ idle' = [idle EXCEPT ![k] = {}]
  /\ stale' = stale \ idle[k]
  /\ UNCHANGED open

\* _get finds none: every entry of the key was closed and the key is dropped.
DropIdle(k) ==
  /\ Usable(k) = {}
  /\ idle' = [idle EXCEPT ![k] = {}]
  /\ open' = open \ idle[k]
  /\ stale' = stale \ idle[k]

Reserve(t, k) ==
  /\ Acquire(k, t)
  /\ pc' = [pc EXCEPT ![t] = "creating"]
  /\ UNCHANGED conn

\* connect(key), up to its first await.  A task whose placeholder a closed
\* connector never gave back makes no further call (see ReleasedOnClose).
Connect(t, k) ==
  /\ pc[t] = "idle" /\ t \notin acquired \cup perHost[k]
  /\ key' = [key EXCEPT ![t] = k]
  /\ \/ TakeIdle(t, k) /\ UNCHANGED waiters
     \/ /\ DropIdle(k)
        /\ Available(acquired, perHost, k) > 0
        /\ Reserve(t, k)
        /\ UNCHANGED waiters
     \/ /\ DropIdle(k)
        /\ Available(acquired, perHost, k) <= 0
        /\ waiters' = [waiters EXCEPT ![k] = Append(@, t)]
        /\ pc' = [pc EXCEPT ![t] = "queued"]
        /\ UNCHANGED <<acquired, perHost, conn>>
  /\ UNCHANGED <<closed, armed>>

\* A woken waiter runs: the slot may have been taken meanwhile, and then it
\* queues again, in front of the others.
Resume(t) ==
  LET k == key[t] IN
  /\ pc[t] = "woken"
  /\ \/ /\ Available(acquired, perHost, k) > 0
        /\ TakeIdle(t, k)
        /\ UNCHANGED waiters
     \/ /\ Available(acquired, perHost, k) > 0
        /\ DropIdle(k)
        /\ Reserve(t, k)
        /\ UNCHANGED waiters
     \/ /\ Available(acquired, perHost, k) <= 0
        /\ waiters' = [waiters EXCEPT ![k] = <<t>> \o @]
        /\ pc' = [pc EXCEPT ![t] = "queued"]
        /\ UNCHANGED <<idle, open, stale, acquired, perHost, conn>>
  /\ UNCHANGED <<closed, armed, key>>

\* The caller is cancelled, or its connect timeout fires, while it is parked.
Cancel(t) ==
  /\ pc[t] = "queued"
  /\ pc' = [pc EXCEPT ![t] = "cancelled"]
  /\ UNCHANGED <<closed, idle, stale, acquired, perHost, waiters, armed, open, key, conn>>

\* Its finally clause removes the future from the queue, if it is still there.
Unwind(t) ==
  LET q == waiters[key[t]] IN
  /\ pc[t] = "cancelled"
  /\ \/ (\A i \in DOMAIN q : q[i] # t) /\ UNCHANGED waiters
     \/ \E i \in DOMAIN q :
          /\ q[i] = t
          /\ waiters' = [waiters EXCEPT ![key[t]] = SubSeq(q, 1, i - 1) \o SubSeq(q, i + 1, Len(q))]
  /\ pc' = [pc EXCEPT ![t] = "idle"]
  /\ key' = [key EXCEPT ![t] = NoKey]
  /\ UNCHANGED <<closed, idle, stale, acquired, perHost, armed, open, conn>>

\* Cancelled after _release_waiter resolved its future, before it ran (or in
\* the connection_queued_end trace): CancelledError is raised at the await and
\* nothing passes the slot on.
CancelAfterWake(t) ==
  /\ CancelWoken
  /\ pc[t] = "woken"
  /\ pc' = [pc EXCEPT ![t] = "idle"]
  /\ key' = [key EXCEPT ![t] = NoKey]
  /\ UNCHANGED <<closed, idle, stale, acquired, perHost, waiters, armed, open, conn>>

\* Bug: _closed is not looked at again after the await.
BadAdopt(t, c, opened) ==
  /\ open' = opened
  /\ pc' = [pc EXCEPT ![t] = "holding"]
  /\ conn' = [conn EXCEPT ![t] = c]
  /\ acquired' = (acquired \ {t}) \cup {c}
  /\ UNCHANGED <<key, perHost>>

\* The end of connect: the placeholder is replaced by transport c, unless the
\* connector was closed meanwhile; then c is closed and connect raises.
Adopt(t, c, opened) ==
  IF closed
  THEN /\ open' = opened \ {c}
       /\ pc' = [pc EXCEPT ![t] = "idle"]
       /\ key' = [key EXCEPT ![t] = NoKey]
       /\ conn' = [conn EXCEPT ![t] = NoConn]
       /\ UNCHANGED <<acquired, perHost>>
  ELSE /\ open' = opened
       /\ pc' = [pc EXCEPT ![t] = "holding"]
       /\ conn' = [conn EXCEPT ![t] = c]
       /\ acquired' = (acquired \ {t}) \cup {c}
       /\ perHost' = IF LimitPerHost > 0
                     THEN [perHost EXCEPT ![key[t]] = (@ \ {t}) \cup {c}]
                     ELSE perHost
       /\ UNCHANGED key

\* _create_connection returns a connected transport.
Establish(t) ==
  /\ pc[t] = "creating"
  /\ \E c \in Fresh :
       IF Traced
       THEN /\ open' = open \cup {c}
            /\ conn' = [conn EXCEPT ![t] = c]
            /\ pc' = [pc EXCEPT ![t] = "created"]
            /\ UNCHANGED <<acquired, perHost, key>>
       ELSE Adopt(t, c, open \cup {c})
  /\ UNCHANGED <<closed, idle, stale, waiters, armed>>

\* The connection_create_end or connection_reuseconn trace returns.
TraceDone(t) ==
  /\ \/ pc[t] = "created" /\ Adopt(t, conn[t], open)
     \/ /\ pc[t] = "reusing"
        /\ pc' = [pc EXCEPT ![t] = "holding"]
        /\ UNCHANGED <<acquired, perHost, open, key, conn>>
  /\ UNCHANGED <<closed, idle, stale, waiters, armed>>

\* Bug: the create_end trace is outside of the try block.
BadFailCreate(t) ==
  /\ pc[t] \in {"creating", "created"}
  /\ \/ pc[t] = "creating" /\ ReleaseAcquired(t, t)
     \/ /\ pc[t] = "created"
        /\ pc' = [pc EXCEPT ![t] = "idle"]
        /\ key' = [key EXCEPT ![t] = NoKey] /\ conn' = [conn EXCEPT ![t] = NoConn]
        /\ UNCHANGED <<acquired, perHost, waiters>>
  /\ UNCHANGED <<closed, idle, stale, armed, open>>

\* An exception or a cancellation while the placeholder stands: refused
\* connection, timeout, or the create_end trace raising after the transport was made.
FailCreate(t) ==
  /\ pc[t] \in {"creating", "created"}
  /\ ReleaseAcquired(t, t)
  /\ UNCHANGED <<closed, idle, stale, armed, open>>

\* The reuseconn trace raises or is cancelled.
FailReuse(t) ==
  /\ pc[t] = "reusing"
  /\ ReleaseAcquired(t, conn[t])
  /\ UNCHANGED <<closed, idle, stale, armed, open>>

\* Connection.release / Connection.close -> _release.  A transport that was
\* lost, or that should_close, is not pooled.
Release(t) ==
  LET c == conn[t] IN
  /\ pc[t] = "holding"
  /\ ReleaseAcquired(t, c)
  /\ \/ closed /\ UNCHANGED <<idle, stale, armed, open>>
     \/ ~closed /\ open' = open \ {c} /\ UNCHANGED <<idle, stale, armed>>
     \/ /\ ~closed /\ ~ForceClose /\ c \in open
        /\ idle' = [idle EXCEPT ![key[t]] = @ \cup {c}]
        /\ armed' = TRUE
        /\ UNCHANGED <<open, stale>>
  /\ UNCHANGED closed

-----------------------------------------------------------------------------
(* The keep-alive timer, close, and the environment. *)

\* Bug: the timer is not set again.
BadCleanup ==
  /\ armed
  /\ idle' = [k \in Key |-> idle[k] \cap (open \ stale)]
  /\ open' = open \ (AllIdle \cap stale)
  /\ stale' = {} /\ armed' = FALSE
  /\ UNCHANGED <<closed, acquired, perHost, waiters, pc, key, conn>>

\* _cleanup: unusable idle transports are closed; the timer is set again only
\* while some remain.
Cleanup ==
  LET alive == open \ stale IN
  /\ armed
  /\ idle' = [k \in Key |-> idle[k] \cap alive]
  /\ open' = open \ (AllIdle \cap stale)
  /\ stale' = {}
  /\ armed' = (AllIdle \cap alive # {})
  /\ UNCHANGED <<closed, acquired, perHost, waiters, pc, key, conn>>

\* _close.  _acquired_per_host is left as it is.
Close ==
  /\ ~closed
  /\ closed' = TRUE
  /\ open' = open \ (AllIdle \cup acquired)
  /\ idle' = [k \in Key |-> {}] /\ stale' = {}
  /\ acquired' = {}
  /\ pc' = [t \in Task |-> IF pc[t] = "queued" THEN "cancelled" ELSE pc[t]]
  /\ waiters' = [k \in Key |-> <<>>]
  /\ armed' = FALSE
  /\ UNCHANGED <<perHost, key, conn>>

\* The keep-alive timeout of an idle transport passes.
Expire(c) ==
  /\ c \in AllIdle \ stale
  /\ stale' = stale \cup {c}
  /\ UNCHANGED <<closed, idle, acquired, perHost, waiters, armed, open, pc, key, conn>>

\* The peer closes a transport (connection_lost).
Lose(c) ==
  /\ c \in open
  /\ open' = open \ {c}
  /\ UNCHANGED <<closed, idle, stale, acquired, perHost, waiters, armed, pc, key, conn>>

TaskStep(t) ==
  \/ \E k \in Key : Connect(t, k)
  \/ Resume(t)
  \/ Cancel(t)
  \/ Unwind(t)
  \/ CancelAfterWake(t)
  \/ Establish(t)
  \/ TraceDone(t)
  \/ FailCreate(t)
  \/ FailReuse(t)
  \/ Release(t)

Next ==
  \/ \E t \in Task : TaskStep(t)
  \/ Cleanup
  \/ Close
  \/ \E c \in Conn : Expire(c) \/ Lose(c)

Spec == Init /\ [][Next]_vars

\* The event loop runs every ready task and timer, transports are established
\* or fail, callers finish with a connection, time passes.  Nobody is obliged
\* to call connect, to cancel, to close the connector or to drop a transport.
Fairness ==
  /\ \A t \in Task :
       /\ WF_vars(Resume(t)) /\ WF_vars(Unwind(t))
       /\ WF_vars(Establish(t) \/ FailCreate(t))
       /\ WF_vars(TraceDone(t) \/ FailReuse(t))
       /\ WF_vars(Release(t))
  /\ WF_vars(Cleanup)
  /\ \A c \in Conn : WF_vars(Expire(c))

FairSpec == Spec /\ Fairness

-----------------------------------------------------------------------------
(* What the pool promises to its callers: LeasePool. *)

LeaseBound ==
  IF LimitPerHost > 0 /\ (Limit = 0 \/ LimitPerHost < Limit) THEN LimitPerHost ELSE Limit

\* A lease begins when connect takes a transport or reserves a slot; the create
\* traces and everything before that are internal.
LeaseOf(t) ==
  CASE pc[t] \in {"creating", "created"} -> "opening"
    [] pc[t] \in {"reusing", "holding"} -> conn[t]
    [] OTHER -> NoConn

Lease == INSTANCE LeasePool WITH
  Nothing <- NoConn, Opening <- "opening", Bound <- LeaseBound,
  shut <- closed, spare <- idle,
  lease <- [t \in Task |-> LeaseOf(t)],
  target <- [t \in Task |-> IF LeaseOf(t) = NoConn THEN NoKey ELSE key[t]]

\* Every behaviour of the pool is one of LeasePool: waiting, waking, timers,
\* traces and lost transports never show up as anything but a lease, its end,
\* or an eviction.
ImplementsLeasePool == Lease!Spec

-----------------------------------------------------------------------------
(* What the pool must satisfy. *)

\* Transports a task has in its hands, inside connect or after it.
Held == {conn[t] : t \in Task} \ {NoConn}

\* Await points at which a task occupies a slot, and what stands for it there.
InUse == {"creating", "created", "reusing", "holding"}
Slot(t) == IF pc[t] \in {"creating", "created"} THEN t ELSE conn[t]

\* Tasks that occupy a slot for key k, as the await points tell it.
Users(k) == {t \in Task : key[t] = k /\ pc[t] \in InUse}

Pending(k) == {t \in Task : pc[t] = "queued" /\ key[t] = k}
Woken == {t \in Task : pc[t] = "woken"}

\* The values of the variables, with the shape of every await point: which
\* tasks have a key, which ones a transport.
TypeOK ==
  /\ closed \in BOOLEAN /\ armed \in BOOLEAN
  /\ idle \in [Key -> SUBSET Conn]
  /\ stale \subseteq AllIdle
  /\ acquired \subseteq Task \cup Conn
  /\ perHost \in [Key -> SUBSET (Task \cup Conn)]
  /\ waiters \in [Key -> Seq(Task)]
  /\ open \subseteq Conn
  /\ pc \in [Task -> AwaitPoint]
  /\ key \in [Task -> Key \cup {NoKey}]
  /\ conn \in [Task -> Conn \cup {NoConn}]
  /\ \A t \in Task : /\ key[t] = NoKey <=> pc[t] = "idle"
                     /\ conn[t] # NoConn <=> pc[t] \in {"created", "reusing", "holding"}

\* A transport is in the hands of one task, or idle under one key, never both:
\* two requests never share a connection, whatever the order of the awaits.
ExclusiveLease ==
  /\ \A t, u \in Task : t # u /\ conn[t] # NoConn => conn[t] # conn[u]
  /\ \A k \in Key : idle[k] \cap Held = {}
  /\ \A k, l \in Key : k # l => idle[k] \cap idle[l] = {}

\* As long as the connector is open, _acquired and _acquired_per_host hold
\* exactly the placeholders and transports in use: no failure, cancellation or
\* trace leaves a slot behind or gives one back twice.
SlotsMatchUse ==
  ~closed =>
    /\ acquired = {Slot(t) : t \in {u \in Task : pc[u] \in InUse}}
    /\ LimitPerHost > 0 => \A k \in Key : perHost[k] = {Slot(t) : t \in Users(k)}

\* The limits really hold per endpoint, counting its idle transports too,
\* although connect takes an idle transport without looking at the limits.
PerKeyBound ==
  ~closed => \A k \in Key :
    /\ Limit > 0 => Cardinality(Users(k)) + Cardinality(idle[k]) <= Limit
    /\ LimitPerHost > 0 => Cardinality(Users(k)) + Cardinality(idle[k]) <= LimitPerHost

\* Every parked task is in the queue of its key exactly once, so that a free
\* slot can find it.  Besides them a queue holds only tasks of its key that were
\* cancelled and have not run since: no woken task, and none with a slot.
QueuedOnce ==
  \A k \in Key :
    /\ \A i, j \in DOMAIN waiters[k] : i # j => waiters[k][i] # waiters[k][j]
    /\ \A i \in DOMAIN waiters[k] :
         key[waiters[k][i]] = k /\ pc[waiters[k][i]] \in {"queued", "cancelled"}
    /\ \A t \in Pending(k) : \E i \in DOMAIN waiters[k] : waiters[k][i] = t

\* No wake-up is lost: while a task waits for a key that has free slots, at
\* least as many woken tasks are on their way (_release_waiter wakes one task
\* for each slot given back).  It holds under a total limit alone, and unless a
\* task is cancelled after its wake-up.
NoLostSlot ==
  ~closed => \A k \in Key :
    Pending(k) # {} => Available(acquired, perHost, k) <= Cardinality(Woken)

\* The keep-alive timer runs whenever an idle transport exists: _cleanup must
\* reset _cleanup_handle or _release would never set it again.
IdleGetsCleaned == (AllIdle # {} => armed) /\ (closed => ~armed /\ AllIdle = {})

\* After close() only a connect still in progress has a live transport, and it
\* closes that one itself.
NothingOutlivesClose ==
  closed => open \subseteq {conn[t] : t \in {u \in Task : pc[u] = "created"}}

\* A transport that nobody refers to is not open.
NoTransportLeak == open \subseteq Held \cup AllIdle

\* A new placeholder appears only while both limits leave room for it, and
\* never while an idle transport of the key could be used.
NewConnectionWithinLimit ==
  [][\A t \in Task : pc'[t] = "creating" /\ pc[t] # "creating" =>
       /\ Limit > 0 => Cardinality(acquired') <= Limit
       /\ LimitPerHost > 0 => Cardinality(perHost'[key'[t]]) <= LimitPerHost
       /\ idle'[key'[t]] = {}]_vars

\* Every idle transport is in the end reused or closed.
IdleEventuallyLeaves == \A c \in Conn : c \in AllIdle ~> c \notin AllIdle

\* If callers stop coming and the connector stays open, every parked task is
\* served, or gives up.
ServedWhenQuiet ==
  <>[][\A t \in Task : ~(pc[t] = "idle" /\ pc'[t] # "idle")]_vars
    => \A t \in Task : pc[t] = "queued" ~> (closed \/ pc[t] # "queued")

\* client_reference.rst:1039, "The call may be paused if limit is exhausted
\* until used connections returns to pool": a task is parked for a key with
\* free slots only while some woken task is about to run.
PausedOnlyIfExhausted ==
  ~closed => \A k \in Key :
    Pending(k) # {} /\ Available(acquired, perHost, k) >= 1 => Woken # {}
=============================================================================
