------------------------ MODULE LocalSchedulerProofs ------------------------
(***************************************************************************)
(* For every number of keys and workers, every chunk size and every graph,   *)
(* get_async keeps the types of its state, computes each task once from       *)
(* inputs that are at hand, keeps no more results and fires no more tasks     *)
(* than it should, and so implements TaskGraph.                              *)
(***************************************************************************)
EXTENDS LocalScheduler, SetCounting, FiniteSetTheorems, TLAPS

\* A task depends on smaller keys, and a data node on none.
GraphOK == \A k \in Key : /\ \A d \in deps[k] : d < k
                          /\ k \in data => deps[k] = {}

\* waiting and waiting_data are the graph without what is computed.
CountsExact == \A k \in Key : /\ waiting[k] = deps[k] \ Computed
                              /\ waitingData[k] = Dependents(k) \ finished

\* No batch is empty, so that an answer of the executor is never nothing.
BatchesFilled == /\ \A b \in futures : b # <<>>
                 /\ \A i \in DOMAIN queue : queue[i].batch # <<>>

\* CountsExact is what makes release_data's test the right one.
IInv == TypeOK /\ GraphOK /\ BatchesFilled /\ CountsExact /\ InputsKept

-----------------------------------------------------------------------------
(* Helpers. *)

\* A chunk count times the chunk size exceeds the tasks by less than a chunk.
LEMMA CeilDivBounds ==
  ASSUME NEW a \in Nat, NEW b \in Nat \ {0}
  PROVE  /\ CeilDiv(a, b) \in Nat
         /\ CeilDiv(a, b) * b <= a + b - 1
         /\ a > 0 => CeilDiv(a, b) > 0
  BY DEF CeilDiv

\* Every chunk starts at a task that exists.
LEMMA ChunkStarts ==
  ASSUME NEW n \in Nat, NEW size \in Nat \ {0}, NEW i \in 0 .. CeilDiv(n, size) - 1
  PROVE  i * size \in Nat /\ i * size < n /\ (i + 1) * size = i * size + size
<1> DEFINE q == CeilDiv(n, size)
<1>1. q \in Nat /\ q * size <= n + size - 1
  BY CeilDivBounds
<1> HIDE DEF q
<1>2. i \in Nat /\ i + 1 <= q
  BY <1>1 DEF q
<1>3. (i + 1) * size <= q * size
  BY <1>1, <1>2
<1>4. (i + 1) * size = i * size + size
  BY <1>2
<1>5. i * size \in Nat
  BY <1>2
<1> QED
  BY <1>1, <1>3, <1>4, <1>5

\* Batches cuts the tasks into chunks that are not empty.
LEMMA BatchesType ==
  ASSUME NEW args \in Seq(Key), NEW size \in Nat \ {0}
  PROVE  \A b \in Batches(args, size) : b \in Seq(Key) /\ b # <<>>
<1> SUFFICES ASSUME NEW i \in 0 .. CeilDiv(Len(args), size) - 1
             PROVE  LET b == SubSeq(args, i * size + 1, Least(Len(args), (i + 1) * size))
                    IN  b \in Seq(Key) /\ b # <<>>
  BY DEF Batches
<1>1. i * size \in Nat /\ i * size < Len(args) /\ (i + 1) * size = i * size + size
  BY ChunkStarts
<1> DEFINE m == i * size + 1
           n == Least(Len(args), (i + 1) * size)
<1>2. m \in 1 .. Len(args) /\ n \in m .. Len(args)
  BY <1>1 DEF Least
<1> HIDE DEF m, n
<1> DEFINE b == SubSeq(args, m, n)
<1>3. b \in Seq(Key) /\ Len(b) = n - m + 1
  BY <1>2
<1> HIDE DEF b
<1>4. b # <<>>
  BY <1>2, <1>3
<1> QED
  BY <1>3, <1>4 DEF b, m, n

\* Every set of keys is finite.
LEMMA KeysFinite ==
  ASSUME NEW S \in SUBSET Key
  PROVE  IsFiniteSet(S) /\ Cardinality(S) \in Nat
<1>1. IsFiniteSet(Key)
  BY FS_Interval, SchedulerAssumption DEF Key
<1>2. IsFiniteSet(S)
  BY <1>1, FS_Subset
<1> QED
  BY <1>2, FS_CardinalityType

\* fire_tasks takes no more tasks than there are.
LEMMA TasksToFireBounds ==
  ASSUME TypeOK PROVE TasksToFire \in 0 .. Len(ready)
<1>1. Cardinality(running) \in Nat /\ Len(ready) \in Nat
  <2>1. running \in SUBSET Key /\ ready \in Seq(Key)
    BY DEF TypeOK
  <2> QED
    BY <2>1, KeysFinite
<1>2. CASE chunksize = -1
  BY <1>1, <1>2 DEF TasksToFire
<1>3. CASE chunksize # -1
  <2>1. chunksize \in Nat \ {0}
    BY <1>3, SchedulerAssumption DEF TypeOK
  <2> DEFINE used == CeilDiv(Cardinality(running), chunksize)
             avail == IF used < NumWorkers THEN NumWorkers - used ELSE 0
  <2>2. avail \in Nat
    <3>1. used \in Nat
      BY <1>1, <2>1, CeilDivBounds
    <3> HIDE DEF used
    <3> QED
      BY <3>1, SchedulerAssumption
  <2> HIDE DEF avail
  <2>3. chunksize * avail \in Nat
    BY <2>1, <2>2
  <2>4. TasksToFire = Least(Len(ready), chunksize * avail)
    BY <1>3 DEF TasksToFire, avail
  <2> QED
    BY <1>1, <2>3, <2>4 DEF Least
<1> QED
  BY <1>2, <1>3

\* The keys that get ready together are a sequence of keys.
LEMMA DescendingType ==
  ASSUME NEW S \in SUBSET Key, NEW s \in Descending(S)
  PROVE  s \in Seq(Key)
<1>1. Cardinality(S) \in Nat
  BY KeysFinite
<1>2. s \in [1 .. Cardinality(S) -> Key]
  BY DEF Descending
<1> QED
  BY <1>1, <1>2

-----------------------------------------------------------------------------
(* The invariant. *)

\* It holds of the state start_state_from_dask builds.
LEMMA InitIInv == Init => IInv
<1> SUFFICES ASSUME Init PROVE IInv
  OBVIOUS
<1>1. Computed = data
  BY DEF Init, Computed
<1>2. ready \in Seq(Key)
  BY DescendingType DEF Init
<1>3. TypeOK
  <2>1. queue = <<>> /\ todo = <<>>
    BY DEF Init
  <2>2. waitingData \in [Key -> SUBSET Key] /\ waiting \in [Key -> SUBSET Key]
    BY DEF Init, Dependents
  <2>3. cache \in [Key -> {"absent", "value", "exception"}]
    BY DEF Init
  <2>4. queue \in Seq([batch : Seq(Key), failed : SUBSET Key, broken : BOOLEAN])
        /\ todo \in Seq(Key)
    BY <2>1
  <2>5. deps \in [Key -> SUBSET Key] /\ data \subseteq Key /\ want \subseteq Key
        /\ chunksize \in ChunkSizes
    BY DEF Init
  <2>6. running = {} /\ finished = {} /\ released = {} /\ futures = {} /\ bad = {}
    BY DEF Init
  <2>7. \/ phase = "raised" /\ error = "no accessible jobs"
        \/ phase = "loop" /\ error = "none"
    BY DEF Init
  <2> QED
    BY <1>2, <2>1, <2>2, <2>3, <2>4, <2>5, <2>6, <2>7 DEF TypeOK
<1>4. GraphOK
  BY DEF Init, GraphOK
<1>5. BatchesFilled
  <2>1. futures = {} /\ queue = <<>>
    BY DEF Init
  <2>2. DOMAIN queue = {}
    BY <2>1
  <2> QED
    BY <2>1, <2>2 DEF BatchesFilled
<1>6. CountsExact
  BY <1>1 DEF Init, CountsExact
<1>7. InputsKept
  BY <1>1 DEF Init, InputsKept
<1> QED
  BY <1>3, <1>4, <1>5, <1>6, <1>7 DEF IInv

\* Firing tasks moves them from the stack to batches that are not empty.
LEMMA FireIInv == IInv /\ FireTasks => IInv'
<1> SUFFICES ASSUME IInv, FireTasks PROVE IInv'
  OBVIOUS
<1> USE DEF IInv
<1>1. GraphOK' /\ CountsExact' /\ InputsKept'
  BY DEF FireTasks, Raise, GraphOK, CountsExact, InputsKept, Computed, Dependents,
         argVars, stateVars
<1>2. CASE Chunk = 0
  BY <1>1, <1>2 DEF FireTasks, Raise, TypeOK, BatchesFilled, argVars, stateVars
<1>3. CASE Chunk # 0
  <2> DEFINE args == Popped(TasksToFire)
  <2>1. TasksToFire \in 0 .. Len(ready)
    BY TasksToFireBounds
  <2>2. args \in Seq(Key)
    <3>1. ready \in Seq(Key)
      BY DEF TypeOK
    <3>2. \A i \in 1 .. TasksToFire : ready[Len(ready) + 1 - i] \in Key
      BY <2>1, <3>1
    <3> QED
      BY <2>1, <3>2 DEF Popped
  <2>3. Chunk \in Nat \ {0}
    <3>1. ready \in Seq(Key) /\ chunksize \in ChunkSizes
      BY DEF TypeOK
    <3>2. Len(ready) \in Nat
      BY <3>1
    <3>3. CeilDiv(Len(ready), NumWorkers) \in Nat
      BY <3>2, CeilDivBounds, SchedulerAssumption
    <3> QED
      BY <1>3, <3>1, <3>3, SchedulerAssumption DEF Chunk
  <2>4. \A b \in Batches(args, Chunk) : b \in Seq(Key) /\ b # <<>>
    BY <2>2, <2>3, BatchesType
  <2>5. /\ ready' = SubSeq(ready, 1, Len(ready) - TasksToFire)
        /\ running' = running \cup Elements(args)
        /\ futures' = futures \cup Batches(args, Chunk)
        /\ phase = "loop" /\ phase' = "wait"
        /\ UNCHANGED <<waiting, waitingData, finished, released, cache, error>>
        /\ UNCHANGED <<argVars, queue, todo, bad>>
    BY <1>3 DEF FireTasks
  <2> HIDE DEF args
  <2>6. ready' \in Seq(Key)
    BY <2>1, <2>5 DEF TypeOK
  <2>7. running' \subseteq Key
    BY <2>2, <2>5 DEF TypeOK, Elements
  <2>8. TypeOK'
    BY <2>4, <2>5, <2>6, <2>7 DEF TypeOK, argVars
  <2>9. BatchesFilled'
    BY <2>4, <2>5 DEF BatchesFilled
  <2> QED
    BY <1>1, <2>8, <2>9
<1> QED
  BY <1>2, <1>3

\* Finishing a task keeps the counts exact; what it releases was needed by
\* this task alone.
LEMMA FinishIInv ==
  ASSUME IInv, NEW k \in Key, NEW result \in {"value", "exception"}, FinishTask(k, result),
         UNCHANGED argVars
  PROVE  /\ GraphOK' /\ CountsExact' /\ InputsKept'
         /\ waiting' \in [Key -> SUBSET Key] /\ waitingData' \in [Key -> SUBSET Key]
         /\ ready' \in Seq(Key) /\ running' \subseteq Key /\ finished' \subseteq Key
         /\ released' \subseteq Key /\ cache' \in [Key -> {"absent", "value", "exception"}]
<1> USE DEF IInv, argVars
<1>1. Computed' = Computed \cup {k}
  BY DEF FinishTask, Computed
<1>2. Unneeded(k) \subseteq Key
  BY DEF Unneeded, TypeOK
<1>3. ready' \in Seq(Key)
  <2>1. PICK s \in Descending(NowReady(k)) : ready' = ready \o s
    BY DEF FinishTask
  <2>2. s \in Seq(Key)
    BY <2>1, DescendingType DEF NowReady
  <2>3. ready \in Seq(Key)
    BY DEF TypeOK
  <2> QED
    BY <2>1, <2>2, <2>3
<1>4. GraphOK'
  BY DEF GraphOK
<1>5. CountsExact'
  BY <1>1 DEF CountsExact, FinishTask, Dependents, TypeOK
<1>6. InputsKept'
  <2> SUFFICES ASSUME NEW j \in Key \ Computed', NEW d \in deps[j] \cap Computed'
               PROVE  cache'[d] # "absent"
    BY DEF InputsKept
  <2>1. j \notin Computed /\ j # k /\ d \in Key
    BY <1>1 DEF TypeOK
  <2>2. d \notin Unneeded(k)
    <3>1. j \in waitingData[d]
      BY <2>1 DEF CountsExact, Dependents, Computed
    <3> QED
      BY <2>1, <3>1 DEF Unneeded
  <2>3. d = k \/ cache[d] # "absent"
    BY <1>1, <2>1 DEF InputsKept
  <2> QED
    BY <2>1, <2>2, <2>3 DEF FinishTask
<1> QED
  BY <1>2, <1>3, <1>4, <1>5, <1>6 DEF FinishTask, TypeOK

\* Applying one result finishes its task or raises.
LEMMA ApplyIInv == IInv /\ Apply => IInv'
<1> SUFFICES ASSUME IInv, Apply PROVE IInv'
  OBVIOUS
<1> DEFINE k == Head(todo)
<1>1. todo # <<>> /\ todo \in Seq(Key) /\ k \in Key /\ Tail(todo) \in Seq(Key)
  BY DEF IInv, TypeOK, Apply
<1>2. UNCHANGED <<argVars, futures, queue, bad>>
  BY DEF Apply
<1>3. BatchesFilled'
  BY <1>2 DEF IInv, BatchesFilled
<1>4. ASSUME NEW result \in {"value", "exception"}, FinishTask(k, result), NextResult
      PROVE  IInv'
  <2> HIDE DEF k
  <2>1. /\ GraphOK' /\ CountsExact' /\ InputsKept'
        /\ waiting' \in [Key -> SUBSET Key] /\ waitingData' \in [Key -> SUBSET Key]
        /\ ready' \in Seq(Key) /\ running' \subseteq Key /\ finished' \subseteq Key
        /\ released' \subseteq Key /\ cache' \in [Key -> {"absent", "value", "exception"}]
    BY <1>1, <1>2, <1>4, FinishIInv
  <2>2. TypeOK'
    BY <1>1, <1>2, <1>4, <2>1 DEF IInv, TypeOK, NextResult, argVars, Apply
  <2> QED
    BY <1>3, <2>1, <2>2 DEF IInv
<1>5. CASE Raise("task") /\ UNCHANGED <<stateVars, todo>>
  BY <1>2, <1>3, <1>5 DEF Raise, IInv, TypeOK, GraphOK, CountsExact, InputsKept, Computed,
                          Dependents, argVars, stateVars
<1> QED
  BY <1>4, <1>5 DEF Apply

\* Taking a batch from the queue, and an end of a batch.
LEMMA QueueIInv == IInv /\ (Collect \/ Return \/ \E b \in futures : BatchEnds(b)) => IInv'
<1> SUFFICES ASSUME IInv, Collect \/ Return \/ \E b \in futures : BatchEnds(b) PROVE IInv'
  OBVIOUS
<1>1. UNCHANGED <<argVars, stateVars>>
  BY DEF Collect, Return, BatchEnds
<1>2. GraphOK' /\ CountsExact' /\ InputsKept'
  BY <1>1 DEF IInv, GraphOK, CountsExact, InputsKept, Computed, Dependents, argVars, stateVars
<1>3. CASE Collect
  <2>1. /\ queue # <<>> /\ queue' = Tail(queue)
        /\ Head(queue) \in [batch : Seq(Key), failed : SUBSET Key, broken : BOOLEAN]
        /\ queue' \in Seq([batch : Seq(Key), failed : SUBSET Key, broken : BOOLEAN])
        /\ Head(queue).batch # <<>>
    <3> DEFINE Entry == [batch : Seq(Key), failed : SUBSET Key, broken : BOOLEAN]
    <3>1. queue # <<>> /\ queue' = Tail(queue) /\ queue \in Seq(Entry)
      BY <1>3 DEF Collect, IInv, TypeOK
    <3> HIDE DEF Entry
    <3>2. Head(queue) = queue[1] /\ 1 \in DOMAIN queue /\ Head(queue) \in Entry
          /\ Tail(queue) \in Seq(Entry)
      BY <3>1
    <3>3. Head(queue).batch # <<>>
      BY <3>2 DEF IInv, BatchesFilled
    <3> QED
      BY <3>1, <3>2, <3>3 DEF Entry
  <2>2. TypeOK'
    BY <1>1, <1>3, <2>1 DEF Collect, Raise, IInv, TypeOK, argVars, stateVars
  <2>3. BatchesFilled'
    <3> DEFINE Entry == [batch : Seq(Key), failed : SUBSET Key, broken : BOOLEAN]
    <3>1. queue \in Seq(Entry)
      BY DEF IInv, TypeOK
    <3> HIDE DEF Entry
    <3>2. \A i \in DOMAIN queue' : i + 1 \in DOMAIN queue /\ queue'[i] = queue[i + 1]
      BY <2>1, <3>1
    <3> QED
      BY <1>3, <3>2 DEF Collect, IInv, BatchesFilled
  <2> QED
    BY <1>2, <2>2, <2>3 DEF IInv
<1>4. CASE Return
  BY <1>2, <1>4 DEF Return, IInv, TypeOK, BatchesFilled, argVars, stateVars
<1>5. ASSUME NEW b \in futures, BatchEnds(b) PROVE IInv'
  <2>1. PICK e \in [batch : Seq(Key), failed : SUBSET Key, broken : BOOLEAN] :
          queue' = Append(queue, e) /\ e.batch = b
    <3>1. PICK failed \in SUBSET Elements(b), broken \in BOOLEAN :
            queue' = Append(queue, [batch |-> b, failed |-> failed, broken |-> broken])
      BY <1>5, SchedulerAssumption DEF BatchEnds
    <3>2. b \in Seq(Key)
      BY DEF IInv, TypeOK
    <3>3. failed \in SUBSET Key
      BY <3>2 DEF Elements
    <3> QED
      BY <3>1, <3>2, <3>3
  <2> DEFINE Entry == [batch : Seq(Key), failed : SUBSET Key, broken : BOOLEAN]
  <2>2. queue \in Seq(Entry)
    BY DEF IInv, TypeOK
  <2>3. TypeOK'
    <3>1. queue' \in Seq(Entry)
      <4> HIDE DEF Entry
      <4>1. e \in Entry
        BY <2>1 DEF Entry
      <4> QED
        BY <2>1, <2>2, <4>1
    <3> QED
      BY <1>1, <1>5, <3>1 DEF BatchEnds, IInv, TypeOK, argVars, stateVars
  <2>4. BatchesFilled'
    <3> HIDE DEF Entry
    <3>1. \A i \in DOMAIN queue' :
            IF i \in DOMAIN queue THEN queue'[i] = queue[i] ELSE queue'[i] = e
      BY <2>1, <2>2
    <3>2. b # <<>> /\ futures' \subseteq futures
      BY <1>5 DEF BatchEnds, IInv, BatchesFilled
    <3> QED
      BY <2>1, <3>1, <3>2 DEF IInv, BatchesFilled
  <2> QED
    BY <1>2, <2>3, <2>4 DEF IInv
<1> QED
  BY <1>3, <1>4, <1>5

\* The invariant holds of every behaviour.
LEMMA InvariantHolds == Spec => []IInv
<1>1. IInv /\ UNCHANGED vars => IInv'
  BY DEF IInv, TypeOK, GraphOK, BatchesFilled, CountsExact, InputsKept, Computed, Dependents,
         vars, argVars, stateVars
<1>2. IInv /\ [Next]_vars => IInv'
  BY <1>1, FireIInv, ApplyIInv, QueueIInv DEF Next
<1> QED
  BY <1>2, InitIInv, PTL DEF Spec

\* The state of get_async keeps its types, and a batch in hand is never empty.
THEOREM TypeCorrect == Spec => []TypeOK
<1>1. IInv => TypeOK
  BY DEF IInv
<1> QED
  BY <1>1, InvariantHolds, PTL

\* finish_task and release_data never discard an input of a task that is still
\* to be computed, whatever the order in which batches end.
THEOREM InputsAreKept == Spec => []InputsKept
<1>1. IInv => InputsKept
  BY DEF IInv
<1> QED
  BY <1>1, InvariantHolds, PTL

-----------------------------------------------------------------------------
(* Sequences without repetitions. *)

\* The elements of a sequence that is cut in two.
LEMMA CutElements ==
  ASSUME NEW s \in Seq(Key), IsInjective(s), NEW n \in 0 .. Len(s)
  PROVE  LET low == SubSeq(s, 1, Len(s) - n)
             top == [i \in 1 .. n |-> s[Len(s) + 1 - i]]
         IN  /\ IsInjective(low) /\ IsInjective(top)
             /\ Elements(low) \cap Elements(top) = {}
             /\ Elements(low) \cup Elements(top) = Elements(s)
<1> DEFINE m == Len(s) - n
           low == SubSeq(s, 1, m)
           top == [i \in 1 .. n |-> s[Len(s) + 1 - i]]
<1>1. m \in 0 .. Len(s) /\ m + n = Len(s) /\ DOMAIN s = 1 .. Len(s)
  OBVIOUS
<1>2. DOMAIN low = 1 .. m /\ \A i \in 1 .. m : low[i] = s[i]
  BY <1>1
<1>3. DOMAIN top = 1 .. n /\ \A i \in 1 .. n : top[i] = s[Len(s) + 1 - i]
  BY <1>1
<1> HIDE DEF low, top, m
<1>4. IsInjective(low)
  BY <1>1, <1>2 DEF IsInjective
<1>5. IsInjective(top)
  BY <1>1, <1>3 DEF IsInjective
<1>6. Elements(low) \cap Elements(top) = {}
  <2> SUFFICES ASSUME NEW i \in 1 .. m, NEW j \in 1 .. n, low[i] = top[j] PROVE FALSE
    BY <1>2, <1>3 DEF Elements
  <2>1. i \in DOMAIN s /\ Len(s) + 1 - j \in DOMAIN s /\ s[i] = s[Len(s) + 1 - j]
    BY <1>1, <1>2, <1>3
  <2> QED
    BY <1>1, <2>1 DEF IsInjective
<1>7. Elements(low) \cup Elements(top) = Elements(s)
  <2>1. Elements(low) \subseteq Elements(s) /\ Elements(top) \subseteq Elements(s)
    <3>1. \A i \in DOMAIN low : i \in DOMAIN s /\ low[i] = s[i]
      BY <1>1, <1>2
    <3>2. \A i \in DOMAIN top : Len(s) + 1 - i \in DOMAIN s /\ top[i] = s[Len(s) + 1 - i]
      BY <1>1, <1>3
    <3> QED
      BY <3>1, <3>2 DEF Elements
  <2>2. ASSUME NEW i \in DOMAIN s PROVE s[i] \in Elements(low) \cup Elements(top)
    <3>1. CASE i <= m
      BY <1>1, <1>2, <3>1 DEF Elements
    <3>2. CASE i > m
      <4>1. Len(s) + 1 - i \in 1 .. n /\ Len(s) + 1 - (Len(s) + 1 - i) = i
        BY <1>1, <3>2
      <4> QED
        BY <1>3, <4>1 DEF Elements
    <3> QED
      BY <1>1, <3>1, <3>2
  <2> QED
    BY <2>1, <2>2 DEF Elements
<1> QED
  BY <1>4, <1>5, <1>6, <1>7 DEF low, top, m

\* The first element of a sequence is not in the rest.
LEMMA TailElements ==
  ASSUME NEW s \in Seq(Key), s # <<>>, IsInjective(s)
  PROVE  /\ Head(s) \in Elements(s) /\ IsInjective(Tail(s))
         /\ Elements(Tail(s)) = Elements(s) \ {Head(s)}
<1>1. Len(s) \in Nat \ {0} /\ DOMAIN s = 1 .. Len(s) /\ Head(s) = s[1]
  OBVIOUS
<1>2. DOMAIN Tail(s) = 1 .. Len(s) - 1 /\ \A i \in 1 .. Len(s) - 1 : Tail(s)[i] = s[i + 1]
  BY <1>1
<1> DEFINE t == Tail(s)
<1> HIDE DEF t
<1>3. IsInjective(t)
  BY <1>1, <1>2 DEF IsInjective, t
<1>4. Elements(t) = Elements(s) \ {s[1]}
  <2>1. \A i \in DOMAIN t : t[i] \in Elements(s) \ {s[1]}
    BY <1>1, <1>2 DEF IsInjective, Elements, t
  <2>2. \A i \in DOMAIN s \ {1} : i - 1 \in DOMAIN t /\ t[i - 1] = s[i]
    BY <1>1, <1>2 DEF t
  <2> QED
    BY <2>1, <2>2 DEF Elements
<1>5. s[1] \in Elements(s)
  BY <1>1 DEF Elements
<1> QED
  BY <1>1, <1>3, <1>4, <1>5 DEF t

\* Keys that are added to a sequence that has none of them.
LEMMA JoinElements ==
  ASSUME NEW s \in Seq(Key), NEW t \in Seq(Key), IsInjective(s), IsInjective(t),
         Elements(s) \cap Elements(t) = {}
  PROVE  IsInjective(s \o t) /\ Elements(s \o t) = Elements(s) \cup Elements(t)
<1> DEFINE u == s \o t
<1>1. /\ Len(s) \in Nat /\ Len(t) \in Nat /\ DOMAIN s = 1 .. Len(s) /\ DOMAIN t = 1 .. Len(t)
      /\ DOMAIN u = 1 .. Len(s) + Len(t)
      /\ \A i \in DOMAIN u : u[i] = IF i <= Len(s) THEN s[i] ELSE t[i - Len(s)]
  OBVIOUS
<1> HIDE DEF u
<1>2. \A i \in DOMAIN s : i \in DOMAIN u /\ u[i] = s[i]
  BY <1>1
<1>3. \A i \in DOMAIN t : Len(s) + i \in DOMAIN u /\ u[Len(s) + i] = t[i]
  BY <1>1
<1>4. \A i \in DOMAIN u : \/ i \in DOMAIN s /\ u[i] = s[i]
                          \/ i - Len(s) \in DOMAIN t /\ u[i] = t[i - Len(s)]
  BY <1>1
<1>5. Elements(u) = Elements(s) \cup Elements(t)
  BY <1>2, <1>3, <1>4 DEF Elements
<1>6. IsInjective(u)
  <2> SUFFICES ASSUME NEW i \in DOMAIN u, NEW j \in DOMAIN u, u[i] = u[j] PROVE i = j
    BY DEF IsInjective
  <2>1. \A a \in DOMAIN s, b \in DOMAIN t : s[a] # t[b]
    BY DEF Elements
  <2>2. CASE i \in DOMAIN s /\ u[i] = s[i]
    BY <1>4, <2>1, <2>2 DEF IsInjective
  <2>3. CASE i - Len(s) \in DOMAIN t /\ u[i] = t[i - Len(s)]
    <3>1. j - Len(s) \in DOMAIN t /\ u[j] = t[j - Len(s)]
      BY <1>4, <2>1, <2>3
    <3>2. i - Len(s) = j - Len(s)
      BY <2>3, <3>1 DEF IsInjective
    <3> QED
      BY <1>1, <3>2
  <2> QED
    BY <1>4, <2>2, <2>3
<1> QED
  BY <1>5, <1>6 DEF u

\* A chunk is never of negative size.
LEMMA ChunkType == TypeOK => Chunk \in Nat
<1> SUFFICES ASSUME TypeOK PROVE Chunk \in Nat
  OBVIOUS
<1>0. ready \in Seq(Key) /\ chunksize \in ChunkSizes
  BY DEF TypeOK
<1>1. Len(ready) \in Nat /\ chunksize \in ChunkSizes
  BY <1>0
<1>2. CeilDiv(Len(ready), NumWorkers) \in Nat
  BY <1>1, CeilDivBounds, SchedulerAssumption
<1> QED
  BY <1>1, <1>2, SchedulerAssumption DEF Chunk

\* The keys that get ready together are sorted, so none comes twice.
LEMMA DescendingElements ==
  ASSUME NEW S \in SUBSET Key, NEW s \in Descending(S)
  PROVE  IsInjective(s) /\ Elements(s) = S
<1>1. \A i, j \in DOMAIN s : i < j => s[i] > s[j]
  BY DEF Descending
<1>2. s \in Seq(Key)
  BY DescendingType
<1>3. IsInjective(s)
  <2>1. \A i \in DOMAIN s : i \in Int /\ s[i] \in Int
    BY <1>2, SchedulerAssumption DEF Key
  <2> QED
    BY <1>1, <2>1 DEF IsInjective
<1> QED
  BY <1>3 DEF Descending

\* Batches is a partition: every task is in one chunk.
LEMMA BatchesPartition ==
  ASSUME NEW args \in Seq(Key), IsInjective(args), NEW size \in Nat \ {0}
  PROVE  /\ \A b \in Batches(args, size) : IsInjective(b) /\ Elements(b) \subseteq Elements(args)
         /\ \A b, c \in Batches(args, size) : b # c => Elements(b) \cap Elements(c) = {}
         /\ \A k \in Elements(args) : \E b \in Batches(args, size) : k \in Elements(b)
<1> DEFINE count == CeilDiv(Len(args), size)
           last(i) == Least(Len(args), (i + 1) * size)
           b(i) == SubSeq(args, i * size + 1, last(i))
<1>1. Len(args) \in Nat /\ DOMAIN args = 1 .. Len(args)
  OBVIOUS
<1>2. count \in Nat /\ count * size >= Len(args)
  BY <1>1 DEF CeilDiv
<1>3. ASSUME NEW i \in 0 .. count - 1
      PROVE  /\ i * size \in Nat /\ last(i) \in Nat /\ i * size < last(i)
             /\ last(i) <= Len(args) /\ last(i) <= i * size + size
             /\ DOMAIN b(i) = 1 .. last(i) - i * size
             /\ \A j \in 1 .. last(i) - i * size : b(i)[j] = args[i * size + j]
  <2>1. i * size \in Nat /\ i * size < Len(args) /\ (i + 1) * size = i * size + size
    BY ChunkStarts
  <2> DEFINE m == i * size
             n == last(i)
  <2>2. m \in Nat /\ n \in Nat /\ m < n /\ n <= Len(args) /\ n <= m + size
    BY <1>1, <2>1 DEF Least
  <2> HIDE DEF m, n
  <2>3. DOMAIN SubSeq(args, m + 1, n) = 1 .. n - m
    BY <1>1, <2>2
  <2>4. \A j \in 1 .. n - m : SubSeq(args, m + 1, n)[j] = args[m + j]
    BY <1>1, <2>2
  <2> QED
    BY <2>2, <2>3, <2>4 DEF m, n
<1>4. ASSUME NEW i \in 0 .. count - 1
      PROVE  IsInjective(b(i)) /\ Elements(b(i)) \subseteq Elements(args)
  <2> DEFINE m == i * size
             n == last(i) - m
             c == b(i)
  <2>1. /\ m \in Nat /\ n \in Nat /\ m + n <= Len(args) /\ DOMAIN c = 1 .. n
        /\ \A j \in 1 .. n : c[j] = args[m + j]
    BY <1>1, <1>3
  <2> HIDE DEF m, n, c
  <2>2. \A j \in 1 .. n : m + j \in DOMAIN args
    BY <1>1, <2>1
  <2>3. IsInjective(c)
    BY <2>1, <2>2 DEF IsInjective
  <2>4. Elements(c) \subseteq Elements(args)
    BY <2>1, <2>2 DEF Elements
  <2> QED
    BY <2>3, <2>4 DEF c
<1>5. ASSUME NEW i \in 0 .. count - 1, NEW j \in 0 .. count - 1, i < j
      PROVE  Elements(b(i)) \cap Elements(b(j)) = {}
  <2> DEFINE m == i * size
             p == j * size
             c == b(i)
             d == b(j)
  <2>1. m + size <= p
    <3>1. (i + 1) * size <= j * size /\ (i + 1) * size = i * size + size
      <4>1. i \in Nat /\ j \in Nat /\ i + 1 <= j
        BY <1>2, <1>5
      <4> QED
        BY <4>1
    <3> QED
      BY <3>1
  <2>2. /\ m \in Nat /\ p \in Nat /\ last(i) \in Nat /\ last(j) \in Nat
        /\ last(i) <= m + size /\ last(i) <= Len(args) /\ last(j) <= Len(args)
        /\ DOMAIN c = 1 .. last(i) - m /\ DOMAIN d = 1 .. last(j) - p
        /\ \A x \in DOMAIN c : c[x] = args[m + x]
        /\ \A x \in DOMAIN d : d[x] = args[p + x]
    BY <1>3
  <2> HIDE DEF m, p, c, d, last
  <2> SUFFICES ASSUME NEW x \in DOMAIN c, NEW y \in DOMAIN d, c[x] = d[y] PROVE FALSE
    BY DEF Elements, c, d
  <2>3. m + x \in DOMAIN args /\ p + y \in DOMAIN args /\ m + x < p + y
    BY <1>1, <2>1, <2>2
  <2>4. args[m + x] = args[p + y]
    BY <2>2
  <2>5. m + x \in Int /\ p + y \in Int
    BY <1>1, <2>3
  <2> QED
    BY <2>3, <2>4, <2>5 DEF IsInjective
<1>6. ASSUME NEW x \in DOMAIN args
      PROVE  \E i \in 0 .. count - 1 : args[x] \in Elements(b(i))
  <2> DEFINE i == (x - 1) \div size
  <2>1. i \in Nat /\ i * size < x /\ x <= i * size + size
    BY <1>1
  <2> HIDE DEF i
  <2>2. i * size \in Nat
    BY <2>1
  <2>3. i < count
    <3> SUFFICES ASSUME i >= count PROVE FALSE
      BY <1>2, <2>1
    <3>1. count * size <= i * size
      BY <1>2, <2>1
    <3> QED
      BY <1>1, <1>2, <2>1, <2>2, <3>1
  <2>4. i \in 0 .. count - 1
    BY <1>2, <2>1, <2>3
  <2>5. x <= last(i)
    <3>1. (i + 1) * size = i * size + size
      BY <2>1
    <3> QED
      BY <1>1, <2>1, <2>2, <3>1 DEF Least
  <2> DEFINE m == i * size
             c == b(i)
  <2>6. /\ m \in Nat /\ last(i) \in Nat /\ m < x /\ x <= last(i) /\ DOMAIN c = 1 .. last(i) - m
        /\ \A j \in DOMAIN c : c[j] = args[m + j]
    BY <1>3, <2>1, <2>4, <2>5
  <2> HIDE DEF m, c, last
  <2>7. x - m \in DOMAIN c /\ c[x - m] = args[x]
    BY <1>1, <2>6
  <2> QED
    BY <2>4, <2>7 DEF Elements, c
<1>7. \A c : c \in Batches(args, size) <=> \E i \in 0 .. count - 1 : c = b(i)
  BY DEF Batches
<1> HIDE DEF b, count
<1>8. \A c \in Batches(args, size) : IsInjective(c) /\ Elements(c) \subseteq Elements(args)
  BY <1>4, <1>7
<1>9. ASSUME NEW c \in Batches(args, size), NEW d \in Batches(args, size), c # d
      PROVE  Elements(c) \cap Elements(d) = {}
  <2>1. PICK i \in 0 .. count - 1 : c = b(i)
    BY <1>7
  <2>2. PICK j \in 0 .. count - 1 : d = b(j)
    BY <1>7
  <2>3. i < j \/ j < i
    BY <1>2, <1>9, <2>1, <2>2
  <2> QED
    BY <1>5, <2>1, <2>2, <2>3
<1>10. \A k \in Elements(args) : \E c \in Batches(args, size) : k \in Elements(c)
  BY <1>6, <1>7 DEF Elements
<1> QED
  BY <1>8, <1>9, <1>10

-----------------------------------------------------------------------------
(* Where a task is. *)

\* The stack, the tasks that run and those that are done have no task in
\* common, and a task that is in none of them awaits a dependency.
Stacked ==
  /\ IsInjective(ready)
  /\ \A k \in Elements(ready) : waiting[k] = {} /\ k \notin running \cup Computed
  /\ \A k \in running : waiting[k] = {} /\ k \notin Computed
  /\ \A k \in finished : waiting[k] = {} /\ k \notin data
  /\ \A k \in Key \ Computed : waiting[k] # {} \/ k \in Elements(ready) \/ k \in running

\* The batches that are not applied yet, wherever they are, have no task in
\* common either.
Apart ==
  /\ \A b \in futures : IsInjective(b) /\ Elements(b) \subseteq running
  /\ \A i \in DOMAIN queue :
       IsInjective(queue[i].batch) /\ Elements(queue[i].batch) \subseteq running
  /\ IsInjective(todo) /\ Elements(todo) \subseteq running
  /\ \A b, c \in futures : b # c => Elements(b) \cap Elements(c) = {}
  /\ \A i, j \in DOMAIN queue :
       i # j => Elements(queue[i].batch) \cap Elements(queue[j].batch) = {}
  /\ \A b \in futures, i \in DOMAIN queue : Elements(b) \cap Elements(queue[i].batch) = {}
  /\ \A b \in futures : Elements(b) \cap Elements(todo) = {}
  /\ \A i \in DOMAIN queue : Elements(queue[i].batch) \cap Elements(todo) = {}

\* While get_async runs, no task that runs is lost.
InFlight ==
  phase \in {"loop", "wait", "apply"} =>
    \A k \in running : \/ \E b \in futures : k \in Elements(b)
                       \/ \E i \in DOMAIN queue : k \in Elements(queue[i].batch)
                       \/ k \in Elements(todo)

\* Results that are asked for stay.
WantedKept == \A k \in want \cap Computed : cache[k] # "absent"

Placed == Stacked /\ Apart /\ InFlight /\ WantedKept

\* At the start every task that awaits nothing is on the stack.
LEMMA InitPlaced == Init => Placed /\ NothingHoarded
<1> SUFFICES ASSUME Init PROVE Placed /\ NothingHoarded
  OBVIOUS
<1>1. Computed = data
  BY DEF Init, Computed
<1>2. IsInjective(ready) /\ Elements(ready) = {k \in Key \ data : waiting[k] = {}}
  BY DescendingElements DEF Init
<1>3. /\ running = {} /\ finished = {} /\ futures = {}
      /\ DOMAIN queue = {} /\ DOMAIN todo = {}
  <2>1. queue = <<>> /\ todo = <<>>
    BY DEF Init
  <2>2. DOMAIN queue = {} /\ DOMAIN todo = {}
    BY <2>1
  <2> QED
    BY <2>2 DEF Init
<1>4. Stacked
  BY <1>1, <1>2, <1>3 DEF Stacked
<1>5. Apart
  BY <1>3 DEF Apart, IsInjective, Elements
<1>6. InFlight
  BY <1>3 DEF InFlight
<1>7. WantedKept
  BY <1>1 DEF WantedKept, Init
<1>8. NothingHoarded
  <2>1. \A d \in Key : d \in released <=> d \in Computed /\ cache[d] = "absent"
    BY <1>1 DEF Init
  <2>2. \A d \in Key : Dependents(d) # {} => ~(Dependents(d) \subseteq finished)
    BY <1>3
  <2> QED
    BY <2>1, <2>2 DEF NothingHoarded
<1> QED
  BY <1>4, <1>5, <1>6, <1>7, <1>8 DEF Placed

\* Firing tasks takes them from the stack to new batches.
LEMMA FirePlaced == IInv /\ Placed /\ FireTasks => Placed'
<1> SUFFICES ASSUME IInv, Placed, FireTasks PROVE Placed'
  OBVIOUS
<1>1. CASE Chunk = 0
  <2>1. Raise("ZeroDivisionError") /\ UNCHANGED <<argVars, stateVars, futures, queue, todo, bad>>
    BY <1>1 DEF FireTasks
  <2> QED
    BY <2>1 DEF Raise, Placed, Stacked, Apart, InFlight, WantedKept, Computed, argVars, stateVars
<1>2. CASE Chunk # 0
  <2> DEFINE args == Popped(TasksToFire)
             low == SubSeq(ready, 1, Len(ready) - TasksToFire)
             new == Batches(args, Chunk)
  <2>1. /\ ready' = low /\ running' = running \cup Elements(args) /\ futures' = futures \cup new
        /\ phase = "loop" /\ phase' = "wait"
        /\ UNCHANGED <<argVars, queue, todo, bad>>
        /\ UNCHANGED <<waiting, waitingData, finished, released, cache, error>>
    BY <1>2 DEF FireTasks
  <2>2. ready \in Seq(Key) /\ TasksToFire \in 0 .. Len(ready) /\ IsInjective(ready)
    BY TasksToFireBounds DEF IInv, TypeOK, Placed, Stacked
  <2>3. /\ IsInjective(low) /\ IsInjective(args)
        /\ Elements(low) \cap Elements(args) = {}
        /\ Elements(low) \cup Elements(args) = Elements(ready)
    BY <2>2, CutElements DEF Popped
  <2>4. args \in Seq(Key)
    <3>1. \A i \in 1 .. TasksToFire : ready[Len(ready) + 1 - i] \in Key
      BY <2>2
    <3> QED
      BY <2>2, <3>1 DEF Popped
  <2>5. Chunk \in Nat \ {0}
    BY <1>2, ChunkType DEF IInv
  <2>6. /\ \A b \in new : IsInjective(b) /\ Elements(b) \subseteq Elements(args)
        /\ \A b, c \in new : b # c => Elements(b) \cap Elements(c) = {}
        /\ \A k \in Elements(args) : \E b \in new : k \in Elements(b)
    BY <2>3, <2>4, <2>5, BatchesPartition
  <2> HIDE DEF args, low, new
  <2>7. Computed' = Computed
    BY <2>1 DEF Computed, argVars
  <2>8. \A k \in Elements(args) : k \notin running
    BY <2>3 DEF Placed, Stacked
  <2>9. Stacked'
    BY <2>1, <2>3, <2>7 DEF Placed, Stacked, argVars
  <2>10. Apart'
    <3>1. \A b \in futures, c \in new : Elements(b) \cap Elements(c) = {}
      BY <2>6, <2>8 DEF Placed, Apart
    <3>2. \A i \in DOMAIN queue, c \in new : Elements(c) \cap Elements(queue[i].batch) = {}
      BY <2>6, <2>8 DEF Placed, Apart
    <3>3. \A c \in new : Elements(c) \cap Elements(todo) = {}
      BY <2>6, <2>8 DEF Placed, Apart
    <3>4. \A b \in futures' : IsInjective(b) /\ Elements(b) \subseteq running'
      BY <2>1, <2>6 DEF Placed, Apart
    <3>5. \A b, c \in futures' : b # c => Elements(b) \cap Elements(c) = {}
      BY <2>1, <2>6, <3>1 DEF Placed, Apart
    <3>6. /\ \A i \in DOMAIN queue :
               IsInjective(queue[i].batch) /\ Elements(queue[i].batch) \subseteq running'
          /\ IsInjective(todo) /\ Elements(todo) \subseteq running'
      BY <2>1 DEF Placed, Apart
    <3> QED
      BY <2>1, <3>2, <3>3, <3>4, <3>5, <3>6 DEF Placed, Apart
  <2>11. InFlight'
    BY <2>1, <2>6 DEF Placed, InFlight
  <2>12. WantedKept'
    BY <2>1, <2>7 DEF Placed, WantedKept, argVars
  <2> QED
    BY <2>9, <2>10, <2>11, <2>12 DEF Placed
<1> QED
  BY <1>1, <1>2

\* Finishing the first task of the batch in hand: it is nowhere else, and the
\* tasks that get ready were waiting for it alone.
LEMMA FinishPlaced ==
  ASSUME IInv, Placed, NEW result \in {"value", "exception"}, todo # <<>>,
         FinishTask(Head(todo), result), NextResult, phase = "apply",
         UNCHANGED <<argVars, futures, queue>>
  PROVE  Placed'
<1> DEFINE k == Head(todo)
<1>1. /\ todo \in Seq(Key) /\ ready \in Seq(Key) /\ k \in Key
      /\ Head(todo) \in Elements(todo) /\ IsInjective(todo') /\ todo' = Tail(todo)
      /\ Elements(todo') = Elements(todo) \ {k}
  <2>1. todo \in Seq(Key) /\ IsInjective(todo) /\ todo' = Tail(todo) /\ ready \in Seq(Key)
    BY DEF IInv, TypeOK, Placed, Apart, NextResult
  <2> QED
    BY <2>1, TailElements
<1> HIDE DEF k
<1>2. k \in running /\ waiting[k] = {} /\ k \notin Computed
  BY <1>1 DEF Placed, Apart, Stacked, k
<1>3. FinishTask(k, result)
  BY DEF k
<1>4. /\ Computed' = Computed \cup {k} /\ finished' = finished \cup {k}
      /\ running' = running \ {k} /\ \A j \in Key : waiting'[j] = waiting[j] \ {k}
      /\ data' = data /\ want' = want
  BY <1>3 DEF FinishTask, Computed, argVars
<1>5. IsInjective(ready') /\ Elements(ready') = Elements(ready) \cup NowReady(k)
  <2>1. PICK s \in Descending(NowReady(k)) : ready' = ready \o s
    BY <1>3 DEF FinishTask
  <2>2. IsInjective(s) /\ Elements(s) = NowReady(k) /\ s \in Seq(Key)
    BY <2>1, DescendingElements, DescendingType DEF NowReady
  <2>3. Elements(ready) \cap NowReady(k) = {}
    BY DEF Placed, Stacked, NowReady
  <2>4. IsInjective(ready)
    BY DEF Placed, Stacked
  <2> QED
    BY <1>1, <2>1, <2>2, <2>3, <2>4, JoinElements
<1>6. \A j \in NowReady(k) : j \in Key /\ waiting[j] = {k} /\ j \notin running \cup Computed
  <2>1. \A j \in data : waiting[j] = {}
    BY DEF IInv, CountsExact, GraphOK, TypeOK
  <2> QED
    BY <2>1 DEF Placed, Stacked, NowReady, Computed
<1>7. Stacked'
  <2>1. running \subseteq Key /\ finished \subseteq Key /\ waiting \in [Key -> SUBSET Key]
        /\ Elements(ready) \subseteq Key
    BY DEF IInv, TypeOK, Elements
  <2>2. \A j \in Elements(ready') : waiting'[j] = {} /\ j \notin running' \cup Computed'
    BY <1>2, <1>4, <1>5, <1>6, <2>1 DEF Placed, Stacked
  <2>3. \A j \in running' : waiting'[j] = {} /\ j \notin Computed'
    BY <1>4, <2>1 DEF Placed, Stacked
  <2>4. \A j \in finished' : waiting'[j] = {} /\ j \notin data'
    BY <1>2, <1>4, <2>1 DEF Placed, Stacked, Computed
  <2>5. \A j \in Key \ Computed' : waiting'[j] # {} \/ j \in Elements(ready') \/ j \in running'
    BY <1>4, <1>5, <2>1 DEF Placed, Stacked, NowReady
  <2> QED
    BY <1>5, <2>2, <2>3, <2>4, <2>5 DEF Stacked
<1>8. Apart'
  <2>1. /\ \A b \in futures : Elements(b) \subseteq running'
        /\ \A i \in DOMAIN queue : Elements(queue[i].batch) \subseteq running'
        /\ Elements(todo') \subseteq running'
    BY <1>1, <1>4 DEF Placed, Apart, k
  <2> QED
    BY <1>1, <2>1 DEF Placed, Apart
<1>9. InFlight'
  BY <1>1, <1>4 DEF Placed, InFlight
<1>10. WantedKept'
  BY <1>3, <1>4 DEF Placed, WantedKept, FinishTask, Unneeded, IInv, TypeOK
<1> QED
  BY <1>7, <1>8, <1>9, <1>10 DEF Placed

\* Applying one result.
LEMMA ApplyPlaced == IInv /\ Placed /\ Apply => Placed'
<1> SUFFICES ASSUME IInv, Placed, Apply PROVE Placed'
  OBVIOUS
<1>1. phase = "apply" /\ todo # <<>> /\ UNCHANGED <<argVars, futures, queue, bad>>
  BY DEF Apply, IInv, TypeOK
<1>2. CASE \E result \in {"value", "exception"} : FinishTask(Head(todo), result) /\ NextResult
  BY <1>1, <1>2, FinishPlaced
<1>3. CASE Raise("task") /\ UNCHANGED <<stateVars, todo>>
  BY <1>1, <1>3 DEF Raise, Placed, Stacked, Apart, InFlight, WantedKept, Computed,
                    argVars, stateVars
<1> QED
  BY <1>2, <1>3 DEF Apply

\* A batch goes from the executor to the queue, or from the queue to hand.
LEMMA QueuePlaced ==
  IInv /\ Placed /\ (Collect \/ Return \/ \E b \in futures : BatchEnds(b)) => Placed'
<1> SUFFICES ASSUME IInv, Placed, Collect \/ Return \/ \E b \in futures : BatchEnds(b)
             PROVE  Placed'
  OBVIOUS
<1> DEFINE Entry == [batch : Seq(Key), failed : SUBSET Key, broken : BOOLEAN]
<1>1. UNCHANGED <<argVars, stateVars>>
  BY DEF Collect, Return, BatchEnds
<1>2. Stacked' /\ WantedKept'
  BY <1>1 DEF Placed, Stacked, WantedKept, Computed, argVars, stateVars
<1>3. queue \in Seq(Entry) /\ running' = running
  BY <1>1 DEF IInv, TypeOK, stateVars
<1> HIDE DEF Entry
<1>4. CASE Collect
  <2>1. /\ queue # <<>> /\ queue' = Tail(queue) /\ Head(queue) = queue[1]
        /\ 1 \in DOMAIN queue /\ futures' = futures
    BY <1>3, <1>4 DEF Collect
  <2>2. \A i \in DOMAIN queue' : i + 1 \in DOMAIN queue /\ i + 1 # 1 /\ queue'[i] = queue[i + 1]
    BY <1>3, <2>1
  <2>3. \A i \in DOMAIN queue \ {1} : i - 1 \in DOMAIN queue' /\ queue'[i - 1] = queue[i]
    BY <1>3, <2>1
  <2>4. \A i, j \in DOMAIN queue' : i # j => i + 1 # j + 1
    BY <1>3, <2>1
  <2>5. CASE Head(queue).broken
    <3>1. todo' = todo /\ phase' = "raised"
      BY <1>4, <2>5 DEF Collect, Raise
    <3>2. Apart'
      <4>1. \A i \in DOMAIN queue' :
               IsInjective(queue'[i].batch) /\ Elements(queue'[i].batch) \subseteq running
        BY <2>2 DEF Placed, Apart
      <4>2. \A i, j \in DOMAIN queue' :
               i # j => Elements(queue'[i].batch) \cap Elements(queue'[j].batch) = {}
        BY <2>2, <2>4 DEF Placed, Apart
      <4>3. \A i \in DOMAIN queue' :
               /\ \A b \in futures : Elements(b) \cap Elements(queue'[i].batch) = {}
               /\ Elements(queue'[i].batch) \cap Elements(todo') = {}
        BY <2>1, <2>2, <3>1 DEF Placed, Apart
      <4> QED
        BY <1>3, <2>1, <3>1, <4>1, <4>2, <4>3 DEF Placed, Apart
    <3> QED
      BY <1>2, <3>1, <3>2 DEF Placed, InFlight
  <2>6. CASE ~Head(queue).broken
    <3>1. todo' = queue[1].batch /\ phase' = "apply" /\ phase = "wait" /\ todo = <<>>
      BY <1>4, <2>1, <2>6 DEF Collect, IInv, TypeOK
    <3>2. Apart'
      <4>1. \A i \in DOMAIN queue' :
               IsInjective(queue'[i].batch) /\ Elements(queue'[i].batch) \subseteq running
        BY <2>2 DEF Placed, Apart
      <4>2. \A i, j \in DOMAIN queue' :
               i # j => Elements(queue'[i].batch) \cap Elements(queue'[j].batch) = {}
        BY <2>2, <2>4 DEF Placed, Apart
      <4>3. \A i \in DOMAIN queue' :
               /\ \A b \in futures : Elements(b) \cap Elements(queue'[i].batch) = {}
               /\ Elements(queue'[i].batch) \cap Elements(todo') = {}
        BY <2>1, <2>2, <3>1 DEF Placed, Apart
      <4> QED
        BY <1>3, <2>1, <3>1, <4>1, <4>2, <4>3 DEF Placed, Apart
    <3>3. InFlight'
      <4>1. Elements(todo) = {}
        BY <3>1 DEF Elements
      <4> SUFFICES ASSUME NEW k \in running
                   PROVE  \/ \E b \in futures : k \in Elements(b)
                          \/ \E i \in DOMAIN queue' : k \in Elements(queue'[i].batch)
                          \/ k \in Elements(todo')
        BY <1>3, <2>1 DEF InFlight
      <4>2. ASSUME NEW i \in DOMAIN queue, k \in Elements(queue[i].batch)
            PROVE  \/ \E j \in DOMAIN queue' : k \in Elements(queue'[j].batch)
                   \/ k \in Elements(todo')
        BY <2>3, <3>1, <4>2
      <4> QED
        BY <3>1, <4>1, <4>2 DEF Placed, InFlight
    <3> QED
      BY <1>2, <3>2, <3>3 DEF Placed
  <2> QED
    BY <2>5, <2>6
<1>5. CASE Return
  BY <1>2, <1>3, <1>5 DEF Return, Placed, Apart, InFlight
<1>6. ASSUME NEW b \in futures, BatchEnds(b) PROVE Placed'
  <2>1. PICK e : queue' = Append(queue, e) /\ e.batch = b
    BY <1>6 DEF BatchEnds
  <2>2. futures' = futures \ {b} /\ todo' = todo /\ phase' = phase
    BY <1>6 DEF BatchEnds
  <2>3. /\ \A i \in DOMAIN queue' : \/ i \in DOMAIN queue /\ queue'[i] = queue[i]
                                    \/ i = Len(queue) + 1 /\ queue'[i] = e
        /\ \A i \in DOMAIN queue : i \in DOMAIN queue' /\ queue'[i] = queue[i]
        /\ Len(queue) + 1 \in DOMAIN queue' /\ queue'[Len(queue) + 1] = e
    BY <1>3, <2>1
  <2>4. Apart'
    <3>1. \A i \in DOMAIN queue' :
             IsInjective(queue'[i].batch) /\ Elements(queue'[i].batch) \subseteq running
      BY <2>1, <2>3 DEF Placed, Apart
    <3>2. \A i, j \in DOMAIN queue' :
             i # j => Elements(queue'[i].batch) \cap Elements(queue'[j].batch) = {}
      <4> SUFFICES ASSUME NEW i \in DOMAIN queue', NEW j \in DOMAIN queue', i # j
                   PROVE  Elements(queue'[i].batch) \cap Elements(queue'[j].batch) = {}
        OBVIOUS
      <4>1. CASE i \in DOMAIN queue /\ j \in DOMAIN queue
        BY <2>3, <4>1 DEF Placed, Apart
      <4>2. CASE i \in DOMAIN queue /\ j \notin DOMAIN queue
        BY <2>1, <2>3, <4>2 DEF Placed, Apart
      <4>3. CASE i \notin DOMAIN queue /\ j \in DOMAIN queue
        BY <2>1, <2>3, <4>3 DEF Placed, Apart
      <4> QED
        BY <2>3, <4>1, <4>2, <4>3
    <3>3. \A i \in DOMAIN queue' :
             /\ \A c \in futures' : Elements(c) \cap Elements(queue'[i].batch) = {}
             /\ Elements(queue'[i].batch) \cap Elements(todo) = {}
      BY <2>1, <2>2, <2>3 DEF Placed, Apart
    <3> QED
      BY <1>3, <2>2, <3>1, <3>2, <3>3 DEF Placed, Apart
  <2>5. InFlight'
    BY <1>3, <2>1, <2>2, <2>3 DEF Placed, InFlight
  <2> QED
    BY <1>2, <2>4, <2>5 DEF Placed
<1> QED
  BY <1>4, <1>5, <1>6

\* A finished task releases what it was the last to need.
LEMMA FinishHoarded ==
  ASSUME IInv, Placed, NothingHoarded, NEW k \in running, NEW result \in {"value", "exception"},
         FinishTask(k, result), UNCHANGED argVars
  PROVE  NothingHoarded'
<1>1. /\ k \in Key /\ k \notin Computed /\ deps[k] \subseteq Computed /\ deps[k] \subseteq Key
      /\ k \notin deps[k] /\ k \notin Unneeded(k) /\ Unneeded(k) \subseteq deps[k]
  <2>1. k \in Key /\ deps[k] \subseteq Key /\ waiting[k] = {} /\ k \notin Computed
    BY DEF IInv, TypeOK, Placed, Stacked
  <2>2. deps[k] \subseteq Computed
    BY <2>1 DEF IInv, CountsExact
  <2> QED
    BY <2>1, <2>2 DEF Unneeded
<1>2. /\ Computed' = Computed \cup {k} /\ finished' = finished \cup {k}
      /\ released' = released \cup Unneeded(k) /\ want' = want
      /\ \A d \in Key : /\ cache'[d] = IF d \in Unneeded(k) THEN "absent"
                                       ELSE IF d = k THEN result ELSE cache[d]
                        /\ Dependents(d)' = Dependents(d)
  BY DEF FinishTask, Computed, argVars, Dependents
<1>3. ASSUME NEW d \in Key
      PROVE  d \in released' <=> d \in Computed' /\ cache'[d] = "absent"
  <2>1. d \in released <=> d \in Computed /\ cache[d] = "absent"
    BY DEF NothingHoarded
  <2> QED
    BY <1>1, <1>2, <2>1
<1>4. ASSUME NEW d \in Key, cache'[d] # "absent", d \notin want, Dependents(d) # {},
             Dependents(d) \subseteq finished \cup {k}
      PROVE  FALSE
  <2>1. d \notin Unneeded(k)
    BY <1>2, <1>4
  <2>2. CASE k \in Dependents(d)
    <3>1. d \in deps[k]
      BY <2>2 DEF Dependents
    <3>2. waitingData[d] \subseteq {k}
      BY <1>4 DEF IInv, CountsExact
    <3> QED
      BY <1>4, <2>1, <3>1, <3>2 DEF Unneeded
  <2>3. CASE k \notin Dependents(d)
    <3>1. PICK j \in finished : j \in Dependents(d)
      BY <1>4, <2>3
    <3>2. j \in Key /\ d \in deps[j] /\ waiting[j] = {}
      BY <3>1 DEF Dependents, Placed, Stacked
    <3>3. d \in Computed
      BY <3>2 DEF IInv, CountsExact
    <3>4. cache[d] # "absent"
      BY <1>1, <1>2, <1>4, <2>1, <3>3
    <3> QED
      BY <1>4, <2>3, <3>4 DEF NothingHoarded
  <2> QED
    BY <2>2, <2>3
<1> QED
  BY <1>2, <1>3, <1>4 DEF NothingHoarded

\* No other step computes or releases anything.
LEMMA NextHoarded == IInv /\ Placed /\ NothingHoarded /\ [Next]_vars => NothingHoarded'
<1> SUFFICES ASSUME IInv, Placed, NothingHoarded, [Next]_vars PROVE NothingHoarded'
  OBVIOUS
<1>1. CASE UNCHANGED <<argVars, finished, released, cache>>
  BY <1>1 DEF NothingHoarded, Computed, Dependents, argVars
<1>2. CASE \E result \in {"value", "exception"} : FinishTask(Head(todo), result) /\ Apply
  <2>1. todo # <<>> /\ todo \in Seq(Key) /\ IsInjective(todo) /\ UNCHANGED argVars
    BY <1>2 DEF Apply, IInv, TypeOK, Placed, Apart
  <2>2. Head(todo) \in running
    BY <2>1, TailElements DEF Placed, Apart
  <2> QED
    BY <1>2, <2>1, <2>2, FinishHoarded
<1> QED
  BY <1>1, <1>2 DEF Next, FireTasks, Return, Collect, Apply, BatchEnds, stateVars, vars, argVars

\* The number of tasks in flight is what fire_tasks keeps within bounds.
TasksBound == chunksize # -1 => Cardinality(running) <= NumWorkers * chunksize

\* The tasks of a round and those that run fit into num_workers chunks.
LEMMA FireBound == IInv /\ TasksBound /\ FireTasks => TasksBound'
<1> SUFFICES ASSUME IInv, TasksBound, FireTasks, chunksize' # -1
             PROVE  Cardinality(running') <= NumWorkers * chunksize'
  BY DEF TasksBound
<1>1. /\ chunksize' = chunksize /\ chunksize \in Nat \ {0} /\ NumWorkers \in Nat \ {0}
      /\ ready \in Seq(Key) /\ running \in SUBSET Key
  BY SchedulerAssumption DEF FireTasks, argVars, IInv, TypeOK
<1>2. IsFiniteSet(running) /\ Cardinality(running) \in Nat
  BY <1>1, KeysFinite
<1>3. Cardinality(running) <= NumWorkers * chunksize
  BY <1>1 DEF TasksBound
<1> DEFINE n == TasksToFire
           args == Popped(n)
<1>4. running' = running \cup Elements(args)
  BY <1>1 DEF FireTasks, Chunk
<1>5. n \in 0 .. Len(ready) /\ Len(ready) \in Nat
  BY <1>1, TasksToFireBounds DEF IInv
<1>6. Cardinality(running) + n <= NumWorkers * chunksize
  <2> DEFINE r == Cardinality(running)
             used == CeilDiv(r, chunksize)
             avail == IF used < NumWorkers THEN NumWorkers - used ELSE 0
  <2>1. used \in Nat /\ r <= used * chunksize
    <3> HIDE DEF r
    <3>1. r \in Nat
      BY <1>2 DEF r
    <3> QED
      BY <1>1, <3>1 DEF CeilDiv
  <2>2. n = Least(Len(ready), chunksize * avail)
    BY <1>1 DEF TasksToFire
  <2> HIDE DEF used, n, r
  <2>3. CASE used < NumWorkers
    <3>1. avail = NumWorkers - used /\ avail \in Nat
      BY <1>1, <2>1, <2>3
    <3>2. chunksize * (NumWorkers - used) = NumWorkers * chunksize - used * chunksize
      BY <1>1, <2>1
    <3>3. n <= chunksize * avail
      <4>1. chunksize * avail \in Nat
        BY <1>1, <3>1
      <4> HIDE DEF avail
      <4> QED
        BY <1>5, <2>2, <4>1 DEF Least
    <3> HIDE DEF avail
    <3>4. n <= NumWorkers * chunksize - used * chunksize
      BY <3>1, <3>2, <3>3
    <3>5. used * chunksize \in Nat /\ NumWorkers * chunksize \in Nat /\ r \in Nat /\ n \in Nat
      BY <1>1, <1>2, <1>5, <2>1 DEF r, n
    <3> QED
      BY <2>1, <3>4, <3>5 DEF r
  <2>4. CASE ~(used < NumWorkers)
    <3>1. n = 0
      BY <1>1, <1>5, <2>2, <2>4 DEF Least
    <3> QED
      BY <1>2, <1>3, <3>1 DEF n
  <2> QED
    BY <2>3, <2>4 DEF r, n
<1> HIDE DEF n
<1>7. IsFiniteSet(Elements(args)) /\ Cardinality(Elements(args)) <= n
  <2>1. DOMAIN args = 1 .. n
    BY DEF Popped
  <2> HIDE DEF args
  <2>2. IsFiniteSet(1 .. n) /\ Cardinality(1 .. n) = n
    BY <1>5, FS_Interval
  <2>3. args \in Surjection(1 .. n, Elements(args))
    <3>1. args \in [1 .. n -> Elements(args)]
      BY <2>1 DEF Elements, Popped, args
    <3> QED
      BY <2>1, <3>1 DEF Surjection, Elements
  <2> QED
    BY <2>2, <2>3, FS_Surjection
<1> DEFINE E == Elements(args)
<1> HIDE DEF args
<1>8. /\ Cardinality(running \cup E) = Cardinality(running) + Cardinality(E)
                                         - Cardinality(running \cap E)
      /\ Cardinality(E) \in Nat /\ Cardinality(running \cap E) \in Nat
      /\ IsFiniteSet(running \cup E)
  <2>1. IsFiniteSet(running \cap E)
    BY <1>2, FS_Subset
  <2> QED
    BY <1>2, <1>7, <2>1, FS_Union, FS_CardinalityType
<1>9. Cardinality(running') <= Cardinality(running) + n
  BY <1>2, <1>4, <1>5, <1>7, <1>8
<1>10. NumWorkers * chunksize \in Nat /\ Cardinality(running') \in Nat
  BY <1>1, <1>4, <1>8, FS_CardinalityType
<1> QED
  BY <1>1, <1>2, <1>5, <1>6, <1>9, <1>10

\* Every other step only takes tasks away.
LEMMA NextBound == IInv /\ TasksBound /\ [Next]_vars => TasksBound'
<1> SUFFICES ASSUME IInv, TasksBound, [Next]_vars PROVE TasksBound'
  OBVIOUS
<1>1. CASE FireTasks
  BY <1>1, FireBound
<1>2. CASE running' \subseteq running /\ chunksize' = chunksize
  <2> SUFFICES ASSUME chunksize # -1
               PROVE  Cardinality(running') <= NumWorkers * chunksize
    BY <1>2 DEF TasksBound
  <2>1. chunksize \in Nat \ {0} /\ NumWorkers \in Nat \ {0} /\ running \in SUBSET Key
    BY SchedulerAssumption DEF IInv, TypeOK
  <2>2. /\ Cardinality(running') <= Cardinality(running) /\ Cardinality(running) \in Nat
        /\ Cardinality(running') \in Nat
    <3>1. running' \in SUBSET Key
      BY <1>2, <2>1
    <3> QED
      BY <1>2, <2>1, <3>1, KeysFinite, FS_Subset
  <2>3. Cardinality(running) <= NumWorkers * chunksize /\ NumWorkers * chunksize \in Nat
    BY <2>1 DEF TasksBound
  <2> QED
    BY <2>2, <2>3
<1> QED
  BY <1>1, <1>2 DEF Next, Return, Collect, Apply, FinishTask, BatchEnds, stateVars, vars, argVars

\* The invariant with the places of the tasks and the bounds of memory and
\* workers.
LEMMA PlacesHold == Spec => [](IInv /\ Placed /\ NothingHoarded /\ TasksBound)
<1>1. Init => TasksBound
  <2> SUFFICES ASSUME Init, chunksize # -1 PROVE Cardinality(running) <= NumWorkers * chunksize
    BY DEF TasksBound
  <2>1. running = {} /\ chunksize \in Nat \ {0} /\ NumWorkers \in Nat \ {0}
    BY SchedulerAssumption DEF Init
  <2>2. Cardinality({}) = 0 /\ NumWorkers * chunksize \in Nat
    BY <2>1, FS_EmptySet
  <2> QED
    BY <2>1, <2>2
<1>2. IInv /\ Placed /\ UNCHANGED vars => Placed'
  BY DEF Placed, Stacked, Apart, InFlight, WantedKept, Computed, vars, argVars, stateVars
<1>3. IInv /\ Placed /\ [Next]_vars => Placed'
  BY <1>2, FirePlaced, ApplyPlaced, QueuePlaced DEF Next
<1> QED
  BY <1>1, <1>3, InitPlaced, NextHoarded, NextBound, InvariantHolds, PTL DEF Spec

\* A key occurs on the stack once or not at all.
LEMMA CountOnStack ==
  ASSUME IsInjective(ready), NEW k
  PROVE  Cardinality({i \in DOMAIN ready : ready[i] = k}) = IF k \in Elements(ready) THEN 1 ELSE 0
<1>1. CASE k \in Elements(ready)
  <2>1. PICK i \in DOMAIN ready : ready[i] = k
    BY <1>1 DEF Elements
  <2>2. {j \in DOMAIN ready : ready[j] = k} = {i}
    BY <2>1 DEF IsInjective
  <2> QED
    BY <1>1, <2>2, FS_Singleton
<1>2. CASE k \notin Elements(ready)
  <2>1. {j \in DOMAIN ready : ready[j] = k} = {}
    BY <1>2 DEF Elements
  <2> QED
    BY <1>2, <2>1, FS_EmptySet
<1> QED
  BY <1>1, <1>2

\* Each task is in one place, and no task in flight is lost.
THEOREM ComputedOnce == Spec => []OnePlace
<1>1. IInv /\ Placed => OnePlace
  <2> SUFFICES ASSUME IInv, Placed PROVE OnePlace
    OBVIOUS
  <2>1. ASSUME NEW k \in Key \ data
        PROVE  Cardinality({i \in DOMAIN ready : ready[i] = k})
                 + (IF waiting[k] # {} THEN 1 ELSE 0) + (IF k \in running THEN 1 ELSE 0)
                 + (IF k \in finished THEN 1 ELSE 0) = 1
    <3>1. Cardinality({i \in DOMAIN ready : ready[i] = k})
            = IF k \in Elements(ready) THEN 1 ELSE 0
      BY CountOnStack DEF Placed, Stacked
    <3>2. \/ waiting[k] # {} /\ k \notin Elements(ready) \cup running \cup finished
          \/ waiting[k] = {} /\ k \in Elements(ready) /\ k \notin running \cup finished
          \/ waiting[k] = {} /\ k \in running /\ k \notin Elements(ready) \cup finished
          \/ waiting[k] = {} /\ k \in finished /\ k \notin Elements(ready) \cup running
      BY <2>1 DEF Placed, Stacked, Computed
    <3> QED
      BY <3>1, <3>2
  <2>2. ASSUME phase \in {"loop", "wait", "apply"}
        PROVE  running = InExecutor \cup Elements(todo)
    BY <2>2 DEF Placed, Apart, InFlight, InExecutor
  <2> QED
    BY <2>1, <2>2 DEF OnePlace
<1> QED
  BY <1>1, PlacesHold, PTL

\* Memory is bounded by what is needed.
THEOREM MemoryIsReleased == Spec => []NothingHoarded
BY PlacesHold, PTL

\* Full batches have no task in common, so that they hold chunksize tasks each
\* of those in flight.
LEMMA FullBatchesBound ==
  ASSUME IInv, Placed, TasksBound, chunksize # -1
  PROVE  Cardinality({b \in futures : Len(b) = chunksize}) <= NumWorkers
<1> DEFINE F == {b \in futures : Len(b) = chunksize}
           places == 1 .. chunksize
           task == [p \in F \X places |-> p[1][p[2]]]
           top == [b \in F |-> b[1]]
<1>1. chunksize \in Nat \ {0} /\ NumWorkers \in Nat \ {0} /\ running \in SUBSET Key
  BY SchedulerAssumption DEF IInv, TypeOK
<1>2. IsFiniteSet(running) /\ Cardinality(running) \in Nat
  BY <1>1, KeysFinite
<1>3. ASSUME NEW b \in F, NEW i \in places PROVE b[i] \in running /\ i \in DOMAIN b
  <2>1. b \in Seq(Key) /\ Len(b) = chunksize /\ Elements(b) \subseteq running
    BY DEF IInv, TypeOK, Placed, Apart
  <2>2. i \in DOMAIN b
    BY <2>1
  <2> QED
    BY <2>1, <2>2 DEF Elements
<1>4. ASSUME NEW b \in F, NEW c \in F, NEW i \in places, NEW j \in places, b[i] = c[j]
      PROVE  b = c /\ i = j
  <2>1. b[i] \in Elements(b) /\ b[i] \in Elements(c)
    BY <1>3, <1>4 DEF Elements
  <2>2. b = c
    BY <2>1 DEF Placed, Apart
  <2>3. i \in DOMAIN b /\ j \in DOMAIN b /\ b[i] = b[j] /\ IsInjective(b)
    BY <1>3, <1>4, <2>2 DEF Placed, Apart
  <2> QED
    BY <2>2, <2>3 DEF IsInjective
<1>5. IsFiniteSet(F) /\ Cardinality(F) \in Nat
  <2>1. 1 \in places
    BY <1>1
  <2> HIDE DEF F, places
  <2>2. top \in [F -> running] /\ \A b, c \in F : b # c => top[b] # top[c]
    BY <1>3, <1>4, <2>1
  <2> QED
    BY <1>2, <2>2, CountByImage, FS_CardinalityType
<1>6. IsFiniteSet(places) /\ Cardinality(places) = chunksize
  BY <1>1, FS_Interval
<1> HIDE DEF F, places
<1>7. Cardinality(F \X places) <= Cardinality(running)
  <2>1. task \in [F \X places -> running]
    BY <1>3
  <2>2. \A p, q \in F \X places : p # q => task[p] # task[q]
    BY <1>4
  <2> HIDE DEF task
  <2> QED
    BY <1>2, <2>1, <2>2, CountByImage
<1>8. Cardinality(F) * chunksize <= NumWorkers * chunksize
  <2>1. Cardinality(F \X places) = Cardinality(F) * chunksize
    BY <1>5, <1>6, FS_Product
  <2>2. Cardinality(running) <= NumWorkers * chunksize
    BY DEF TasksBound
  <2>3. Cardinality(F) * chunksize \in Nat /\ NumWorkers * chunksize \in Nat
    BY <1>1, <1>5
  <2> QED
    BY <1>2, <1>7, <2>1, <2>2, <2>3
<1>9. Cardinality(F) <= NumWorkers
  <2> SUFFICES ASSUME Cardinality(F) >= NumWorkers + 1 PROVE FALSE
    BY <1>1, <1>5
  <2> DEFINE n == Cardinality(F)
  <2>1. n \in Nat /\ n >= NumWorkers + 1 /\ n * chunksize <= NumWorkers * chunksize
    BY <1>5, <1>8
  <2> HIDE DEF n
  <2>2. (NumWorkers + 1) * chunksize = NumWorkers * chunksize + chunksize
    BY <1>1
  <2>3. (NumWorkers + 1) * chunksize <= n * chunksize
    BY <1>1, <2>1
  <2>4. NumWorkers * chunksize \in Nat /\ n * chunksize \in Nat
    BY <1>1, <2>1
  <2> QED
    BY <1>1, <2>1, <2>2, <2>3, <2>4
<1> QED
  BY <1>9 DEF F

\* Unless chunksize is -1, the tasks in flight never exceed what num_workers
\* full chunks hold, and full batches never outnumber the workers.
THEOREM WorkersSuffice == Spec => []WorkersBound
<1>1. IInv /\ Placed /\ TasksBound => WorkersBound
  BY FullBatchesBound DEF TasksBound, WorkersBound
<1> QED
  BY <1>1, PlacesHold, PTL

-----------------------------------------------------------------------------
(* get_async computes the graph as TaskGraph says. *)

\* start_state_from_dask is a state TaskGraph starts in.
LEMMA InitGraph == Init => Graph!Init
<1> SUFFICES ASSUME Init PROVE Graph!Init
  OBVIOUS
<1>1. Computed = data /\ \A k \in Key : cache[k] # "absent" <=> k \in data
  BY DEF Init, Computed
<1>2. phase \in {"loop", "raised"}
  BY DEF Init
<1> QED
  BY <1>1, <1>2 DEF Init, Graph!Init

\* A step computes a task, delivers, raises, or is none of TaskGraph's.
LEMMA NextGraph == IInv /\ Placed /\ [Next]_vars => [Graph!Next]_(Graph!vars)
<1> SUFFICES ASSUME IInv, Placed, [Next]_vars PROVE [Graph!Next]_(Graph!vars)
  OBVIOUS
<1> DEFINE kept == {k \in Key : cache[k] # "absent"}
<1>1. CASE /\ UNCHANGED <<argVars, finished, cache>>
           /\ phase \in {"loop", "wait", "apply"} /\ phase' \in {"loop", "wait", "apply"}
  BY <1>1 DEF Graph!vars, Computed, argVars
<1>2. CASE /\ UNCHANGED <<argVars, finished, cache>>
           /\ phase \in {"loop", "wait", "apply"} /\ phase' = "raised"
  BY <1>2 DEF Graph!Next, Graph!Raise, Graph!graphVars, Computed, argVars
<1>3. CASE Return
  <2>1. Computed = Key
    BY <1>3 DEF Return, WorkLeft, Placed, Stacked, Elements, IInv, TypeOK, Computed
  <2>2. want \subseteq kept
    BY <2>1 DEF Placed, WantedKept, IInv, TypeOK
  <2> QED
    BY <1>3, <2>1, <2>2 DEF Return, Graph!Next, Graph!Deliver, Graph!graphVars, Computed,
                            argVars, stateVars
<1>4. CASE \E result \in {"value", "exception"} :
             Apply /\ FinishTask(Head(todo), result) /\ NextResult
  <2>1. todo # <<>> /\ todo \in Seq(Key) /\ IsInjective(todo) /\ UNCHANGED argVars
    BY <1>4 DEF Apply, IInv, TypeOK, Placed, Apart
  <2>2. PICK k \in Key : k = Head(todo) /\ k \in running
    BY <2>1, TailElements DEF Placed, Apart
  <2>3. PICK result \in {"value", "exception"} : FinishTask(k, result) /\ NextResult
    BY <1>4, <2>2
  <2>4. phase = "apply" /\ phase' \in {"loop", "apply"}
    BY <1>4 DEF Apply, NextResult
  <2>5. k \notin Computed /\ waiting[k] = {} /\ deps[k] \subseteq Computed /\ deps[k] \subseteq Key
    BY <2>2 DEF Placed, Stacked, IInv, CountsExact, TypeOK
  <2>6. deps[k] \subseteq kept
    BY <2>2, <2>5 DEF IInv, InputsKept
  <2>7. Computed' = Computed \cup {k} /\ \A d \in Key : Graph!Dependents(d) = Dependents(d)
    BY <2>1, <2>3 DEF FinishTask, Computed, Graph!Dependents, Dependents, argVars
  <2>8. Unneeded(k) \subseteq Graph!Disposable(Computed')
    BY <2>2, <2>5, <2>7 DEF Unneeded, Graph!Disposable, IInv, CountsExact, Computed
  <2>9. kept' = (kept \cup {k}) \ Unneeded(k)
    BY <2>2, <2>3, <2>5 DEF FinishTask, Unneeded, IInv, GraphOK, TypeOK
  <2>10. Graph!Compute(k)
    BY <2>1, <2>4, <2>5, <2>6, <2>7, <2>8, <2>9 DEF Graph!Compute, Graph!graphVars, argVars
  <2> QED
    BY <2>10 DEF Graph!Next
<1>5. CASE FireTasks
  BY <1>1, <1>2, <1>5 DEF FireTasks, Raise, argVars, stateVars
<1>6. CASE Collect
  BY <1>1, <1>2, <1>6 DEF Collect, Raise, argVars, stateVars
<1>7. CASE Apply
  BY <1>2, <1>4, <1>7 DEF Apply, Raise, argVars, stateVars
<1>8. CASE \E b \in futures : BatchEnds(b)
  BY <1>1, <1>8 DEF BatchEnds, argVars, stateVars
<1>9. CASE UNCHANGED vars
  BY <1>9 DEF vars, argVars, stateVars, Graph!vars, Computed
<1> QED
  BY <1>3, <1>5, <1>6, <1>7, <1>8, <1>9 DEF Next

\* get_async implements TaskGraph.
THEOREM SchedulerImplementsGraph == Spec => ImplementsTaskGraph
BY InitGraph, NextGraph, PlacesHold, PTL DEF Spec, ImplementsTaskGraph, Graph!Spec
=============================================================================
