--------------------------- MODULE LocalScheduler ---------------------------
(***************************************************************************)
(* The scheduler of dask for one machine: get_async and the functions that  *)
(* keep its state (dask/local.py).  One scheduler thread owns the state and  *)
(* submits batches of ready tasks to an executor; a batch that ends goes to  *)
(* a queue, which the scheduler reads one batch at a time.                   *)
(*                                                                         *)
(* Keys are named by their position in order(dsk), the priority that sorts   *)
(* ready, so that a task depends on smaller keys only.  The scheduler is at  *)
(*   loop    the condition of the main loop                                 *)
(*   wait    queue_get                                                      *)
(*   apply   the results of the batch it took (todo)                         *)
(*   done    get_async returned        raised  get_async raised             *)
(*                                                                         *)
(* An operator whose name starts with Bad is a plausible bug, used only to  *)
(* show that the properties notice it.                                      *)
(***************************************************************************)
EXTENDS Integers, Sequences, FiniteSets

CONSTANTS
  N,           \* number of keys
  NumWorkers,  \* num_workers
  ChunkSizes,  \* values of chunksize; -1 divides the ready tasks evenly
  MayFail,     \* tasks and workers may fail
  Rerun        \* rerun_exceptions_locally

ASSUME SchedulerAssumption ==
  /\ N \in Nat /\ NumWorkers \in Nat \ {0}
  /\ ChunkSizes \subseteq (Nat \ {0}) \cup {-1}
  /\ MayFail \in BOOLEAN /\ Rerun \in BOOLEAN

Key == 0 .. N - 1

VARIABLES
  deps, data, want, chunksize,                 \* the arguments of get_async
  waiting, waitingData, ready, running, finished, released, cache,  \* state
  futures,     \* batches submitted and not ended
  queue,       \* batches that ended
  todo, bad,   \* the rest of the batch in hand, and those that failed
  phase, error

argVars == <<deps, data, want, chunksize>>
stateVars == <<waiting, waitingData, ready, running, finished, released, cache>>
vars == <<argVars, stateVars, futures, queue, todo, bad, phase, error>>

Elements(s) == {s[i] : i \in DOMAIN s}
Least(a, b) == IF a < b THEN a ELSE b
CeilDiv(a, b) == (a + b - 1) \div b

\* sorted(..., reverse=True), as the only element of a set.
Descending(S) ==
  {s \in [1 .. Cardinality(S) -> S] :
     /\ Elements(s) = S
     /\ \A i, j \in DOMAIN s : i < j => s[i] > s[j]}

Dependents(k) == {j \in Key : k \in deps[j]}

-----------------------------------------------------------------------------
(* start_state_from_dask, of a graph whose data nodes are the keys in data. *)

Init ==
  /\ deps \in {f \in [Key -> SUBSET Key] : \A k \in Key : \A d \in f[k] : d < k}
  /\ data \in SUBSET {k \in Key : deps[k] = {}}
  /\ want \in SUBSET Key
  /\ chunksize \in ChunkSizes
  /\ waiting = [k \in Key |-> deps[k] \ data]
  /\ waitingData = [k \in Key |-> Dependents(k)]
  /\ ready \in Descending({k \in Key \ data : waiting[k] = {}})
  /\ cache = [k \in Key |-> IF k \in data THEN "value" ELSE "absent"]
  /\ running = {} /\ finished = {} /\ released = {}
  /\ futures = {} /\ queue = <<>> /\ todo = <<>> /\ bad = {}
  /\ IF ready = <<>> /\ \E k \in Key : waiting[k] # {}
     THEN phase = "raised" /\ error = "no accessible jobs"
     ELSE phase = "loop" /\ error = "none"

Raise(why) == phase' = "raised" /\ error' = why

-----------------------------------------------------------------------------
(* The scheduler thread. *)

Chunk == IF chunksize = -1 THEN CeilDiv(Len(ready), NumWorkers) ELSE chunksize

\* Bug: the tasks that run are not counted.
BadTasksToFire == IF chunksize = -1 THEN Len(ready) ELSE Least(Len(ready), chunksize * NumWorkers)

TasksToFire ==
  IF chunksize = -1 THEN Len(ready)
  ELSE LET usedWorkers == CeilDiv(Cardinality(running), chunksize)
           availWorkers == IF usedWorkers < NumWorkers THEN NumWorkers - usedWorkers ELSE 0
       IN Least(Len(ready), chunksize * availWorkers)

\* The n tasks on top of the stack, the top first.
Popped(n) == [i \in 1 .. n |-> ready[Len(ready) + 1 - i]]

Batches(args, size) ==
  {SubSeq(args, i * size + 1, Least(Len(args), (i + 1) * size)) :
     i \in 0 .. CeilDiv(Len(args), size) - 1}

WorkLeft == ready # <<>> \/ running # {} \/ \E k \in Key : waiting[k] # {}

\* One round of the main loop up to queue_get.  Splitting no tasks into chunks
\* of size 0 divides by zero.
FireTasks ==
  /\ phase = "loop" /\ WorkLeft
  /\ IF Chunk = 0
     THEN Raise("ZeroDivisionError") /\ UNCHANGED <<stateVars, futures>>
     ELSE LET args == Popped(TasksToFire)
          IN /\ ready' = SubSeq(ready, 1, Len(ready) - TasksToFire)
             /\ running' = running \cup Elements(args)
             /\ futures' = futures \cup Batches(args, Chunk)
             /\ phase' = "wait"
             /\ UNCHANGED <<waiting, waitingData, finished, released, cache, error>>
  /\ UNCHANGED <<argVars, queue, todo, bad>>

Return ==
  /\ phase = "loop" /\ ~WorkLeft
  /\ phase' = "done"
  /\ UNCHANGED <<argVars, stateVars, futures, queue, todo, bad, error>>

\* queue_get, and result() of the future it returns.
Collect ==
  /\ phase = "wait" /\ queue # <<>>
  /\ queue' = Tail(queue)
  /\ IF Head(queue).broken
     THEN Raise("worker") /\ UNCHANGED <<todo, bad>>
     ELSE /\ todo' = Head(queue).batch /\ bad' = Head(queue).failed
          /\ phase' = "apply"
          /\ UNCHANGED error
  /\ UNCHANGED <<argVars, stateVars, futures>>

\* Bug: a task is ready as soon as one of its dependencies is computed.
BadNowReady(k) == {j \in Key : k \in waiting[j]}

\* Tasks that waited for k alone.
NowReady(k) == {j \in Key : waiting[j] = {k}}

\* Bug: data is released as soon as one of its dependents is computed.
BadUnneeded(k) == {d \in deps[k] : d \notin want}

\* Bug: data that several tasks depend on is never released.
BadLateUnneeded(k) == {d \in deps[k] : d \notin want /\ Dependents(d) = {k}}

\* Dependencies of k nobody else needs: release_data.
Unneeded(k) == {d \in deps[k] : d \notin want /\ waitingData[d] \subseteq {k}}

\* finish_task, after the result was stored.
FinishTask(k, result) ==
  /\ waiting' = [j \in Key |-> waiting[j] \ {k}]
  /\ \E s \in Descending(NowReady(k)) : ready' = ready \o s
  /\ waitingData' = [d \in Key |-> waitingData[d] \ {k}]
  /\ released' = released \cup Unneeded(k)
  /\ cache' = [j \in Key |-> IF j \in Unneeded(k) THEN "absent"
                             ELSE IF j = k THEN result ELSE cache[j]]
  /\ finished' = finished \cup {k}
  /\ running' = running \ {k}

\* Bug: the next round starts only when another batch has ended.
BadNextResult ==
  /\ todo' = Tail(todo)
  /\ phase' = IF Tail(todo) = <<>> THEN "wait" ELSE "apply"
  /\ UNCHANGED error

NextResult ==
  /\ todo' = Tail(todo)
  /\ phase' = IF Tail(todo) = <<>> THEN "loop" ELSE "apply"
  /\ UNCHANGED error

\* One result of the batch.  A failed task raises, or is run again here: then
\* it raises here, or what is stored is the exception it raised before.
Apply ==
  /\ phase = "apply"
  /\ LET k == Head(todo)
     IN \/ k \notin bad /\ FinishTask(k, "value") /\ NextResult
        \/ k \in bad /\ Rerun /\ FinishTask(k, "exception") /\ NextResult
        \/ k \in bad /\ Raise("task") /\ UNCHANGED <<stateVars, todo>>
  /\ UNCHANGED <<argVars, futures, queue, bad>>

-----------------------------------------------------------------------------
(* The executor: batches end in any order, tasks fail, workers die. *)

BatchEnds(b) ==
  /\ phase \in {"loop", "wait", "apply"}
  /\ futures' = futures \ {b}
  /\ \E failed \in IF MayFail THEN SUBSET Elements(b) ELSE {{}}, broken \in {FALSE, MayFail} :
       queue' = Append(queue, [batch |-> b, failed |-> failed, broken |-> broken])
  /\ UNCHANGED <<argVars, stateVars, todo, bad, phase, error>>

Next ==
  \/ FireTasks \/ Return \/ Collect \/ Apply
  \/ \E b \in futures : BatchEnds(b)

Spec == Init /\ [][Next]_vars

\* The scheduler thread runs on, and the executor ends what it was given.
Fairness ==
  /\ WF_vars(FireTasks \/ Return \/ Collect \/ Apply)
  /\ WF_vars(\E b \in futures : BatchEnds(b))

FairSpec == Spec /\ Fairness

-----------------------------------------------------------------------------
(* What the scheduler must satisfy. *)

\* The values of the variables; a batch in hand exists in apply only.
TypeOK ==
  /\ deps \in [Key -> SUBSET Key] /\ data \subseteq Key /\ want \subseteq Key
  /\ chunksize \in ChunkSizes
  /\ waiting \in [Key -> SUBSET Key] /\ waitingData \in [Key -> SUBSET Key]
  /\ ready \in Seq(Key)
  /\ running \subseteq Key /\ finished \subseteq Key /\ released \subseteq Key
  /\ cache \in [Key -> {"absent", "value", "exception"}]
  /\ futures \subseteq Seq(Key)
  /\ queue \in Seq([batch : Seq(Key), failed : SUBSET Key, broken : BOOLEAN])
  /\ todo \in Seq(Key) /\ bad \subseteq Key
  /\ phase \in {"loop", "wait", "apply", "done", "raised"}
  /\ error \in {"none", "task", "worker", "no accessible jobs", "ZeroDivisionError"}
  /\ phase = "raised" <=> error # "none"
  /\ phase = "apply" => todo # <<>>
  /\ phase \in {"loop", "wait", "done"} => todo = <<>>

Computed == finished \cup data

\* Where a task can be: its dependencies are awaited, or it is on the stack, in
\* the executor's hands, or computed.
InExecutor ==
  UNION ({Elements(b) : b \in futures} \cup {Elements(queue[i].batch) : i \in DOMAIN queue})

\* Each task is in one place, so that it is computed once: a task is made ready
\* by the last of its dependencies, whatever the order they end in.
OnePlace ==
  /\ \A k \in Key \ data :
       Cardinality({i \in DOMAIN ready : ready[i] = k})
         + (IF waiting[k] # {} THEN 1 ELSE 0)
         + (IF k \in running THEN 1 ELSE 0)
         + (IF k \in finished THEN 1 ELSE 0) = 1
  /\ phase \in {"loop", "wait", "apply"} => running = InExecutor \cup Elements(todo)

\* The inputs of every task still to be computed, those in flight included,
\* stay in the cache: release_data never comes too early.
InputsKept ==
  \A k \in Key \ Computed : \A d \in deps[k] \cap Computed : cache[d] # "absent"

\* And never too late: what nobody needs any more is gone, so that memory is
\* bounded by what is needed.
NothingHoarded ==
  \A d \in Key : /\ d \in released <=> d \in Computed /\ cache[d] = "absent"
                 /\ cache[d] # "absent" /\ d \notin want /\ Dependents(d) # {}
                      => ~(Dependents(d) \subseteq finished)

\* What num_workers bounds, across any number of rounds, unless chunksize is -1:
\* the tasks in flight, by what that many full chunks hold, and so the full
\* batches, by the workers.  Batches that are not full may outnumber the workers
\* when chunksize is above 1, because fire_tasks counts tasks.
WorkersBound ==
  chunksize # -1 =>
    /\ Cardinality(running) <= NumWorkers * chunksize
    /\ Cardinality({b \in futures : Len(b) = chunksize}) <= NumWorkers

\* get_async ends, and unless a task or a worker failed it returns.
Terminates == <>(phase = "done" \/ error \in {"task", "worker"})

\* The refinement: get_async computes the graph as TaskGraph says.
Graph == INSTANCE TaskGraph WITH
  done <- Computed,
  kept <- {k \in Key : cache[k] # "absent"},
  outcome <- CASE phase = "done" -> "delivered" [] phase = "raised" -> "raised"
               [] OTHER -> "running"

ImplementsTaskGraph == Graph!Spec
=============================================================================
