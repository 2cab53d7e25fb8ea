------------------------ MODULE ConnectionPoolProofs ------------------------
(***************************************************************************)
(* Type correctness, exclusive leases, exact slot bookkeeping, the bound    *)
(* per key, the timer of idle transports, the transports that stay open,   *)
(* the queues, the wake-ups and new connections in ConnectionPool, and that *)
(* it implements LeasePool, for every number of tasks, keys and transports, *)
(* every limit and every setting of the flags; a theorem that needs a      *)
(* restriction names it.                                                   *)
(***************************************************************************)
EXTENDS ConnectionPool, SetCounting

\* A closed connector pools nothing.
ClosedIsEmpty == closed => \A k \in Key : idle[k] = {}

\* ExclusiveLease needs ClosedIsEmpty, because Release leaves the pool of a
\* closed connector alone; SlotsMatchUse needs ExclusiveLease, because removing
\* one transport from _acquired must not remove the slot of another task.
IInv == TypeOK /\ ExclusiveLease /\ ClosedIsEmpty /\ SlotsMatchUse

USE DEF AwaitPoint, InUse

-----------------------------------------------------------------------------
(* What the shared operators do. *)

\* Releasing a slot ends the business of task t and wakes at most one parked
\* task; the other tasks keep their await point.
LEMMA ReleaseAcquiredEffect ==
  ASSUME TypeOK, NEW t \in Task, NEW slot, pc[t] \in InUse, ReleaseAcquired(t, slot)
  PROVE  /\ key' = [key EXCEPT ![t] = NoKey]
         /\ conn' = [conn EXCEPT ![t] = NoConn]
         /\ waiters' \in [Key -> Seq(Task)]
         /\ pc' \in [Task -> AwaitPoint]
         /\ pc'[t] = "idle"
         /\ \A u \in Task : u # t =>
              pc'[u] = pc[u] \/ (pc[u] = "queued" /\ pc'[u] = "woken")
         /\ closed => UNCHANGED <<acquired, perHost>>
         /\ ~closed => /\ acquired' = acquired \ {slot}
                       /\ perHost' = [perHost EXCEPT ![key[t]] = @ \ {slot}]
<1>1. /\ key' = [key EXCEPT ![t] = NoKey]
      /\ conn' = [conn EXCEPT ![t] = NoConn]
      /\ closed => UNCHANGED <<acquired, perHost>>
      /\ ~closed => /\ acquired' = acquired \ {slot}
                    /\ perHost' = [perHost EXCEPT ![key[t]] = @ \ {slot}]
  BY DEF ReleaseAcquired
<1>2. \/ waiters' = waiters /\ pc' = [pc EXCEPT ![t] = "idle"]
      \/ \E k \in Key : \E i \in FirstPending(waiters[k]) :
           /\ waiters' = [waiters EXCEPT ![k] = SubSeq(waiters[k], i + 1, Len(waiters[k]))]
           /\ pc' = [pc EXCEPT ![t] = "idle", ![waiters[k][i]] = "woken"]
  BY DEF ReleaseAcquired, ReleaseWaiter
<1>3. CASE waiters' = waiters /\ pc' = [pc EXCEPT ![t] = "idle"]
  BY <1>1, <1>3 DEF TypeOK
<1>4. ASSUME NEW k \in Key, NEW i \in FirstPending(waiters[k]),
             waiters' = [waiters EXCEPT ![k] = SubSeq(waiters[k], i + 1, Len(waiters[k]))],
             pc' = [pc EXCEPT ![t] = "idle", ![waiters[k][i]] = "woken"]
      PROVE  /\ waiters' \in [Key -> Seq(Task)]
             /\ pc' \in [Task -> AwaitPoint]
             /\ pc'[t] = "idle"
             /\ \A u \in Task : u # t =>
                  pc'[u] = pc[u] \/ (pc[u] = "queued" /\ pc'[u] = "woken")
  <2>1. waiters[k] \in Seq(Task) /\ i \in 1..Len(waiters[k]) /\ pc[waiters[k][i]] = "queued"
    BY DEF FirstPending, TypeOK
  <2>2. waiters[k][i] \in Task /\ waiters[k][i] # t
    BY <2>1
  <2>3. SubSeq(waiters[k], i + 1, Len(waiters[k])) \in Seq(Task)
    BY <2>1
  <2> QED
    BY <1>4, <2>1, <2>2, <2>3 DEF TypeOK
<1> QED
  BY <1>1, <1>2, <1>3, <1>4

\* The slots of the tasks in use are different from one another.
LEMMA SlotsDiffer ==
  ASSUME TypeOK, ExclusiveLease,
         NEW t \in Task, NEW u \in Task, t # u, pc[t] \in InUse, pc[u] \in InUse
  PROVE  Slot(t) # Slot(u)
BY SetsAssumption DEF TypeOK, ExclusiveLease, Slot

\* Giving back the slot of task t leaves exactly the slots of the others.
LEMMA ReleaseKeepsSlots ==
  ASSUME TypeOK, ExclusiveLease, SlotsMatchUse,
         NEW t \in Task, pc[t] \in InUse, ReleaseAcquired(t, Slot(t)), closed' = closed
  PROVE  SlotsMatchUse'
<1> SUFFICES ASSUME ~closed PROVE SlotsMatchUse'
  BY DEF SlotsMatchUse
<1>1. /\ key' = [key EXCEPT ![t] = NoKey]
      /\ conn' = [conn EXCEPT ![t] = NoConn]
      /\ pc'[t] = "idle"
      /\ \A u \in Task : u # t => (pc'[u] \in InUse <=> pc[u] \in InUse)
                                  /\ (pc[u] \in InUse => pc'[u] = pc[u])
      /\ acquired' = acquired \ {Slot(t)}
      /\ perHost' = [perHost EXCEPT ![key[t]] = @ \ {Slot(t)}]
  BY ReleaseAcquiredEffect
<1>2. \A u \in Task : u # t /\ pc[u] \in InUse =>
        /\ Slot(u)' = Slot(u) /\ key'[u] = key[u] /\ Slot(u) # Slot(t)
  BY <1>1, SlotsDiffer DEF TypeOK, Slot
<1>3. acquired = {Slot(u) : u \in {v \in Task : pc[v] \in InUse}}
  BY DEF SlotsMatchUse
<1>4. acquired' = {Slot(u)' : u \in {v \in Task : pc'[v] \in InUse}}
  BY <1>1, <1>2, <1>3
<1>5. ASSUME LimitPerHost > 0, NEW k \in Key
      PROVE  perHost'[k] = {Slot(u)' : u \in Users(k)'}
  <2>1. perHost[k] = {Slot(u) : u \in Users(k)}
    BY <1>5 DEF SlotsMatchUse
  <2>2. \A u \in Task : u \in Users(k)' <=> (u \in Users(k) /\ u # t)
    BY <1>1, <1>2, SetsAssumption DEF Users, TypeOK
  <2>3. CASE k = key[t]
    <3>1. perHost'[k] = perHost[k] \ {Slot(t)}
      BY <1>1, <2>3 DEF TypeOK
    <3> QED
      BY <1>2, <2>1, <2>2, <3>1 DEF Users
  <2>4. CASE k # key[t]
    <3>1. perHost'[k] = perHost[k] /\ t \notin Users(k)
      BY <1>1, <2>4 DEF TypeOK, Users
    <3> QED
      BY <1>2, <2>1, <2>2, <3>1 DEF Users
  <2> QED
    BY <2>3, <2>4
<1> QED
  BY <1>4, <1>5 DEF SlotsMatchUse

\* Adding the slot of a task that gets in use adds exactly that slot.
LEMMA AcquireKeepsSlots ==
  ASSUME TypeOK, SlotsMatchUse, closed' = closed,
         NEW t \in Task, NEW k \in Key, NEW slot,
         pc[t] \notin InUse, pc'[t] \in InUse, key'[t] = k, Slot(t)' = slot,
         \A u \in Task : u # t => pc'[u] = pc[u] /\ key'[u] = key[u] /\ conn'[u] = conn[u],
         Acquire(k, slot)
  PROVE  SlotsMatchUse'
<1> SUFFICES ASSUME ~closed PROVE SlotsMatchUse'
  BY DEF SlotsMatchUse
<1>1. acquired' = acquired \cup {slot}
      /\ perHost' = IF LimitPerHost > 0
                    THEN [perHost EXCEPT ![k] = @ \cup {slot}] ELSE perHost
  BY DEF Acquire
<1>2. \A u \in Task : u # t => Slot(u)' = Slot(u)
  BY DEF Slot
<1>3. acquired = {Slot(u) : u \in {v \in Task : pc[v] \in InUse}}
  BY DEF SlotsMatchUse
<1>4. acquired' = {Slot(u)' : u \in {v \in Task : pc'[v] \in InUse}}
  BY <1>1, <1>2, <1>3
<1>5. ASSUME LimitPerHost > 0, NEW l \in Key
      PROVE  perHost'[l] = {Slot(u)' : u \in Users(l)'}
  <2>1. perHost[l] = {Slot(u) : u \in Users(l)} /\ t \notin Users(l)
    BY <1>5 DEF SlotsMatchUse, Users
  <2>2. CASE l = k
    <3>1. perHost'[l] = perHost[l] \cup {slot} /\ Users(l)' = Users(l) \cup {t}
      BY <1>1, <1>5, <2>2 DEF TypeOK, Users
    <3> QED
      BY <1>2, <2>1, <3>1 DEF Users
  <2>3. CASE l # k
    <3>1. perHost'[l] = perHost[l] /\ Users(l)' = Users(l)
      BY <1>1, <1>5, <2>3 DEF TypeOK, Users
    <3> QED
      BY <1>2, <2>1, <3>1 DEF Users
  <2> QED
    BY <2>2, <2>3
<1> QED
  BY <1>4, <1>5 DEF SlotsMatchUse

\* A step that leaves every task in use alone, and gets no other in use, keeps
\* the bookkeeping exact.
LEMMA SameSlots ==
  ASSUME SlotsMatchUse, closed' = closed, acquired' = acquired, perHost' = perHost,
         \A u \in Task : /\ pc'[u] \in InUse <=> pc[u] \in InUse
                         /\ pc[u] \in InUse => key'[u] = key[u] /\ Slot(u)' = Slot(u)
  PROVE  SlotsMatchUse'
<1> SUFFICES ASSUME ~closed PROVE SlotsMatchUse'
  BY DEF SlotsMatchUse
<1>1. {Slot(u)' : u \in {v \in Task : pc'[v] \in InUse}}
        = {Slot(u) : u \in {v \in Task : pc[v] \in InUse}}
  OBVIOUS
<1>2. \A k \in Key : {Slot(u)' : u \in Users(k)'} = {Slot(u) : u \in Users(k)}
  BY DEF Users
<1> QED
  BY <1>1, <1>2 DEF SlotsMatchUse

-----------------------------------------------------------------------------
(* One lemma per operation. *)

\* The invariant holds of a connector nobody has used.
LEMMA InitIInv == Init => IInv
<1> SUFFICES ASSUME Init PROVE IInv
  OBVIOUS
<1> USE SetsAssumption DEF Init
<1>1. TypeOK
  <2>1. [k \in Key |-> <<>>] \in [Key -> Seq(Task)]
    OBVIOUS
  <2> QED
    BY <2>1 DEF TypeOK, AllIdle
<1>2. ExclusiveLease
  BY DEF ExclusiveLease, Held
<1>3. SlotsMatchUse
  BY DEF SlotsMatchUse, Users
<1> QED
  BY <1>1, <1>2, <1>3 DEF IInv, ClosedIsEmpty

\* Taking an idle transport moves it from the pool to the task.
LEMMA TakeIdleIInv ==
  ASSUME IInv, NEW t \in Task, NEW k \in Key, pc[t] \in {"idle", "woken"},
         TakeIdle(t, k), key' = [key EXCEPT ![t] = k], UNCHANGED <<closed, armed, waiters>>
  PROVE  IInv'
<1> USE SetsAssumption DEF IInv
<1>1. PICK c \in Usable(k), lost \in SUBSET (idle[k] \ open) :
        /\ idle' = [idle EXCEPT ![k] = @ \ ((lost \cup (idle[k] \cap stale)) \cup {c})]
        /\ open' = open \ (lost \cup (idle[k] \cap stale))
        /\ stale' = stale \ (lost \cup (idle[k] \cap stale))
        /\ Acquire(k, c)
        /\ conn' = [conn EXCEPT ![t] = c]
        /\ pc' = [pc EXCEPT ![t] = IF Traced THEN "reusing" ELSE "holding"]
  BY DEF TakeIdle
<1>2. c \in Conn /\ c \in idle[k] /\ c \notin stale /\ conn[t] = NoConn /\ c # NoConn
  BY DEF Usable, TypeOK
<1>3. \A l \in Key : /\ idle'[l] \subseteq idle[l] \ {c}
                     /\ l # k => idle'[l] = idle[l]
  BY <1>1, <1>2 DEF TypeOK, ExclusiveLease
<1>4. acquired' \subseteq Task \cup Conn /\ perHost' \in [Key -> SUBSET (Task \cup Conn)]
  BY <1>1, <1>2 DEF TypeOK, Acquire
<1>5. stale' \subseteq AllIdle'
  <2> SUFFICES ASSUME NEW d \in stale' PROVE d \in AllIdle'
    OBVIOUS
  <2>1. PICK l \in Key : d \in idle[l]
    BY <1>1 DEF TypeOK, AllIdle
  <2>2. d # c /\ d \notin lost \cup (idle[k] \cap stale)
    BY <1>1, <1>2
  <2>3. d \in idle'[l]
    BY <1>1, <2>1, <2>2 DEF TypeOK
  <2> QED
    BY <2>3 DEF AllIdle
<1>6. TypeOK'
  BY <1>1, <1>2, <1>4, <1>5 DEF TypeOK
<1>7. ExclusiveLease'
  <2>1. Held' \subseteq Held \cup {c} /\ c \notin Held
    BY <1>1, <1>2 DEF Held, TypeOK, ExclusiveLease
  <2>2. \A u, v \in Task : u # v /\ conn'[u] # NoConn => conn'[u] # conn'[v]
    BY <1>1, <1>2, <2>1 DEF Held, TypeOK, ExclusiveLease
  <2>3. \A l \in Key : idle'[l] \cap Held' = {}
    BY <1>3, <2>1 DEF ExclusiveLease
  <2>4. \A l, m \in Key : l # m => idle'[l] \cap idle'[m] = {}
    BY <1>3 DEF ExclusiveLease
  <2> QED
    BY <2>2, <2>3, <2>4 DEF ExclusiveLease
<1>8. ClosedIsEmpty'
  BY <1>2 DEF ClosedIsEmpty
<1>9. SlotsMatchUse'
  <2>1. pc'[t] \in {"reusing", "holding"} /\ Slot(t)' = c /\ key'[t] = k
    BY <1>1 DEF Slot, TypeOK
  <2>2. \A u \in Task : u # t => pc'[u] = pc[u] /\ key'[u] = key[u] /\ conn'[u] = conn[u]
    BY <1>1 DEF TypeOK
  <2> QED
    BY <1>1, <2>1, <2>2, AcquireKeepsSlots
<1> QED
  BY <1>6, <1>7, <1>8, <1>9

\* What DropIdle leaves of the pool.
LEMMA DropIdleEffect ==
  ASSUME TypeOK, ExclusiveLease, ClosedIsEmpty, NEW k \in Key, DropIdle(k), closed' = closed,
         conn' = conn
  PROVE  /\ idle' \in [Key -> SUBSET Conn] /\ stale' \subseteq AllIdle' /\ open' \subseteq Conn
         /\ ExclusiveLease' /\ ClosedIsEmpty'
<1>1. /\ idle' = [idle EXCEPT ![k] = {}] /\ open' = open \ idle[k]
      /\ stale' = stale \ idle[k]
  BY DEF DropIdle
<1>2. stale' \subseteq AllIdle'
  <2> SUFFICES ASSUME NEW d \in stale' PROVE d \in AllIdle'
    OBVIOUS
  <2>1. PICK l \in Key : d \in idle[l]
    BY <1>1 DEF TypeOK, AllIdle
  <2>2. d \in idle'[l]
    BY <1>1, <2>1 DEF TypeOK
  <2> QED
    BY <2>2 DEF AllIdle
<1>3. Held' = Held
  BY DEF Held
<1> QED
  BY <1>1, <1>2, <1>3 DEF TypeOK, ExclusiveLease, ClosedIsEmpty

\* Reserving adds the placeholder of a task that has no slot yet.
LEMMA ReserveIInv ==
  ASSUME IInv, NEW t \in Task, NEW k \in Key, pc[t] \in {"idle", "woken"},
         DropIdle(k), Reserve(t, k), key' = [key EXCEPT ![t] = k],
         UNCHANGED <<closed, armed, waiters>>
  PROVE  IInv'
<1> USE SetsAssumption DEF IInv
<1>1. /\ Acquire(k, t) /\ pc' = [pc EXCEPT ![t] = "creating"] /\ conn' = conn
  BY DEF Reserve
<1>2. /\ idle' \in [Key -> SUBSET Conn] /\ stale' \subseteq AllIdle' /\ open' \subseteq Conn
      /\ ExclusiveLease' /\ ClosedIsEmpty'
  BY <1>1, DropIdleEffect
<1>3. acquired' \subseteq Task \cup Conn /\ perHost' \in [Key -> SUBSET (Task \cup Conn)]
  BY <1>1 DEF TypeOK, Acquire
<1>4. TypeOK'
  BY <1>1, <1>2, <1>3 DEF TypeOK
<1>5. SlotsMatchUse'
  <2>1. pc'[t] = "creating" /\ Slot(t)' = t /\ key'[t] = k
    BY <1>1 DEF Slot, TypeOK
  <2>2. \A u \in Task : u # t => pc'[u] = pc[u] /\ key'[u] = key[u] /\ conn'[u] = conn[u]
    BY <1>1 DEF TypeOK
  <2> QED
    BY <1>1, <2>1, <2>2, AcquireKeepsSlots
<1> QED
  BY <1>2, <1>4, <1>5

\* Parking a task changes nothing but its await point and the queue.
LEMMA ParkIInv ==
  ASSUME IInv, NEW t \in Task, NEW k \in Key, pc[t] \in {"idle", "woken"},
         pc' = [pc EXCEPT ![t] = "queued"], key' = [key EXCEPT ![t] = k],
         \/ waiters' = [waiters EXCEPT ![k] = Append(@, t)]
         \/ waiters' = [waiters EXCEPT ![k] = <<t>> \o @],
         DropIdle(k) \/ UNCHANGED <<idle, open, stale>>,
         UNCHANGED <<closed, armed, acquired, perHost, conn>>
  PROVE  IInv'
<1> USE SetsAssumption DEF IInv
<1>1. waiters' \in [Key -> Seq(Task)]
  <2>1. waiters[k] \in Seq(Task)
    BY DEF TypeOK
  <2>2. Append(waiters[k], t) \in Seq(Task) /\ <<t>> \o waiters[k] \in Seq(Task)
    BY <2>1
  <2>3. PICK q \in Seq(Task) : waiters' = [waiters EXCEPT ![k] = q]
    BY <2>2
  <2> QED
    BY <2>3 DEF TypeOK
<1>2. /\ idle' \in [Key -> SUBSET Conn] /\ stale' \subseteq AllIdle' /\ open' \subseteq Conn
      /\ ExclusiveLease' /\ ClosedIsEmpty'
  <2>1. CASE DropIdle(k)
    BY <2>1, DropIdleEffect
  <2>2. CASE UNCHANGED <<idle, open, stale>>
    BY <2>2 DEF TypeOK, AllIdle, ExclusiveLease, Held, ClosedIsEmpty
  <2> QED
    BY <2>1, <2>2
<1>3. TypeOK'
  BY <1>1, <1>2 DEF TypeOK
<1>4. SlotsMatchUse'
  BY SameSlots DEF TypeOK, Slot
<1> QED
  BY <1>2, <1>3, <1>4

\* A call of connect that queues, takes an idle transport or reserves a slot keeps it.
LEMMA ConnectIInv ==
  ASSUME IInv, NEW t \in Task, NEW k \in Key, Connect(t, k)
  PROVE  IInv'
<1>1. /\ pc[t] = "idle" /\ key' = [key EXCEPT ![t] = k] /\ UNCHANGED <<closed, armed>>
  BY DEF Connect
<1>2. CASE TakeIdle(t, k) /\ UNCHANGED waiters
  BY <1>1, <1>2, TakeIdleIInv
<1>3. CASE DropIdle(k) /\ Reserve(t, k) /\ UNCHANGED waiters
  BY <1>1, <1>3, ReserveIInv
<1>4. CASE /\ DropIdle(k)
           /\ waiters' = [waiters EXCEPT ![k] = Append(@, t)]
           /\ pc' = [pc EXCEPT ![t] = "queued"]
           /\ UNCHANGED <<acquired, perHost, conn>>
  BY <1>1, <1>4, ParkIInv
<1> QED
  BY <1>2, <1>3, <1>4 DEF Connect

\* A woken caller that queues again, takes an idle transport or reserves a slot keeps it.
LEMMA ResumeIInv ==
  ASSUME IInv, NEW t \in Task, Resume(t)
  PROVE  IInv'
<1>1. /\ pc[t] = "woken" /\ UNCHANGED <<closed, armed, key>>
      /\ key[t] \in Key /\ key' = [key EXCEPT ![t] = key[t]]
  BY SetsAssumption DEF Resume, IInv, TypeOK
<1>2. CASE TakeIdle(t, key[t]) /\ UNCHANGED waiters
  BY <1>1, <1>2, TakeIdleIInv
<1>3. CASE DropIdle(key[t]) /\ Reserve(t, key[t]) /\ UNCHANGED waiters
  BY <1>1, <1>3, ReserveIInv
<1>4. CASE /\ waiters' = [waiters EXCEPT ![key[t]] = <<t>> \o @]
           /\ pc' = [pc EXCEPT ![t] = "queued"]
           /\ UNCHANGED <<idle, open, stale, acquired, perHost, conn>>
  BY <1>1, <1>4, ParkIInv
<1> QED
  BY <1>2, <1>3, <1>4 DEF Resume

\* A task that leaves the queue, or is cancelled in it, owns nothing.
LEMMA LeaveIInv ==
  ASSUME IInv, NEW t \in Task, Cancel(t) \/ Unwind(t) \/ CancelAfterWake(t)
  PROVE  IInv'
<1> USE SetsAssumption DEF IInv
<1>1. /\ pc[t] \in {"queued", "cancelled", "woken"}
      /\ \/ pc' = [pc EXCEPT ![t] = "cancelled"] /\ key' = key
         \/ pc' = [pc EXCEPT ![t] = "idle"] /\ key' = [key EXCEPT ![t] = NoKey]
      /\ UNCHANGED <<closed, idle, stale, acquired, perHost, armed, open, conn>>
  BY DEF Cancel, Unwind, CancelAfterWake
<1>2. waiters' \in [Key -> Seq(Task)]
  <2>1. key[t] \in Key /\ waiters[key[t]] \in Seq(Task)
    BY <1>1 DEF TypeOK
  <2>2. ASSUME NEW i \in 1..Len(waiters[key[t]])
        PROVE  /\ SubSeq(waiters[key[t]], 1, i - 1) \in Seq(Task)
               /\ SubSeq(waiters[key[t]], i + 1, Len(waiters[key[t]])) \in Seq(Task)
    BY <2>1
  <2>3. ASSUME NEW i \in 1..Len(waiters[key[t]])
        PROVE  SubSeq(waiters[key[t]], 1, i - 1)
                 \o SubSeq(waiters[key[t]], i + 1, Len(waiters[key[t]])) \in Seq(Task)
    BY <2>2
  <2>4. DOMAIN waiters[key[t]] = 1..Len(waiters[key[t]])
    BY <2>1
  <2>5. ASSUME NEW i \in DOMAIN waiters[key[t]],
               waiters' = [waiters EXCEPT ![key[t]] =
                             SubSeq(waiters[key[t]], 1, i - 1)
                               \o SubSeq(waiters[key[t]], i + 1, Len(waiters[key[t]]))]
        PROVE  waiters' \in [Key -> Seq(Task)]
    <3>1. PICK q \in Seq(Task) : waiters' = [waiters EXCEPT ![key[t]] = q]
      BY <2>3, <2>4, <2>5
    <3> QED
      BY <3>1 DEF TypeOK
  <2>6. CASE waiters' = waiters
    BY <2>6 DEF TypeOK
  <2>7. CASE Unwind(t)
    BY <2>5, <2>6, <2>7 DEF Unwind
  <2> QED
    BY <2>6, <2>7 DEF Cancel, CancelAfterWake
<1>3. TypeOK'
  <2>1. AllIdle' = AllIdle
    BY <1>1 DEF AllIdle
  <2>2. CASE pc' = [pc EXCEPT ![t] = "cancelled"] /\ key' = key
    BY <1>1, <1>2, <2>1, <2>2 DEF TypeOK
  <2>3. CASE pc' = [pc EXCEPT ![t] = "idle"] /\ key' = [key EXCEPT ![t] = NoKey]
    BY <1>1, <1>2, <2>1, <2>3 DEF TypeOK
  <2> QED
    BY <1>1, <2>2, <2>3
<1>4. ExclusiveLease' /\ ClosedIsEmpty'
  BY <1>1 DEF ExclusiveLease, Held, ClosedIsEmpty
<1>5. SlotsMatchUse'
  <2>1. \A u \in Task : /\ pc'[u] \in InUse <=> pc[u] \in InUse
                        /\ pc[u] \in InUse => key'[u] = key[u] /\ Slot(u)' = Slot(u)
    BY <1>1 DEF TypeOK, Slot
  <2> QED
    BY <1>1, <2>1, SameSlots
<1> QED
  BY <1>3, <1>4, <1>5

\* What the timer, an expiry or a lost transport may do to the pool.
LEMMA ShrinkIInv ==
  ASSUME IInv, idle' \in [Key -> SUBSET Conn], \A k \in Key : idle'[k] \subseteq idle[k],
         stale' \subseteq AllIdle', open' \subseteq open, armed' \in BOOLEAN,
         UNCHANGED <<closed, acquired, perHost, waiters, pc, key, conn>>
  PROVE  IInv'
<1> USE DEF IInv
<1>1. TypeOK'
  BY DEF TypeOK
<1>2. ExclusiveLease' /\ ClosedIsEmpty'
  BY DEF ExclusiveLease, Held, ClosedIsEmpty
<1>3. SlotsMatchUse'
  BY SameSlots DEF Slot
<1> QED
  BY <1>1, <1>2, <1>3

\* The cleanup timer only closes idle transports and keeps it.
LEMMA CleanupIInv == IInv /\ Cleanup => IInv'
<1> SUFFICES ASSUME IInv, Cleanup PROVE IInv'
  OBVIOUS
<1>1. /\ idle' = [k \in Key |-> idle[k] \cap (open \ stale)] /\ stale' = {}
      /\ open' \subseteq open /\ armed' \in BOOLEAN
      /\ UNCHANGED <<closed, acquired, perHost, waiters, pc, key, conn>>
  BY DEF Cleanup
<1> QED
  BY <1>1, ShrinkIInv DEF IInv, TypeOK

\* Time passing and transports lost by the peer keep it.
LEMMA EnvironmentIInv ==
  ASSUME IInv, NEW c \in Conn, Expire(c) \/ Lose(c)
  PROVE  IInv'
<1>1. /\ idle' = idle /\ stale' \subseteq AllIdle /\ open' \subseteq open
      /\ UNCHANGED <<closed, acquired, perHost, waiters, pc, key, conn, armed>>
  BY DEF Expire, Lose, IInv, TypeOK
<1>2. AllIdle' = AllIdle
  BY <1>1 DEF AllIdle
<1> QED
  BY <1>1, <1>2, ShrinkIInv DEF IInv, TypeOK

\* close() empties the pool and both sets, and keeps it.
LEMMA CloseIInv == IInv /\ Close => IInv'
<1> SUFFICES ASSUME IInv, Close PROVE IInv'
  OBVIOUS
<1> USE SetsAssumption DEF IInv, Close
<1>1. [k \in Key |-> <<>>] \in [Key -> Seq(Task)]
  OBVIOUS
<1>2. TypeOK'
  BY <1>1 DEF TypeOK
<1>3. ExclusiveLease' /\ ClosedIsEmpty' /\ SlotsMatchUse'
  BY DEF ExclusiveLease, Held, ClosedIsEmpty, SlotsMatchUse
<1> QED
  BY <1>2, <1>3

\* Giving a slot back, from inside connect or by _release: the transport of the
\* task goes to the pool of its key or nowhere.
LEMMA GiveBackIInv ==
  ASSUME IInv, NEW t \in Task, pc[t] \in InUse, ReleaseAcquired(t, Slot(t)),
         UNCHANGED <<closed, stale>>, open' \subseteq open, armed' \in BOOLEAN,
         \/ idle' = idle
         \/ /\ ~closed /\ pc[t] = "holding"
            /\ idle' = [idle EXCEPT ![key[t]] = @ \cup {conn[t]}]
  PROVE  IInv'
<1> USE SetsAssumption DEF IInv
<1>1. /\ key' = [key EXCEPT ![t] = NoKey]
      /\ conn' = [conn EXCEPT ![t] = NoConn]
      /\ waiters' \in [Key -> Seq(Task)]
      /\ pc' \in [Task -> AwaitPoint]
      /\ pc'[t] = "idle"
      /\ \A u \in Task : u # t =>
           pc'[u] = pc[u] \/ (pc[u] = "queued" /\ pc'[u] = "woken")
      /\ acquired' \subseteq acquired
      /\ perHost' = perHost \/ perHost' = [perHost EXCEPT ![key[t]] = @ \ {Slot(t)}]
  BY ReleaseAcquiredEffect
<1>2. key[t] \in Key /\ (pc[t] = "holding" => conn[t] \in Conn)
  BY DEF TypeOK
<1>3. /\ idle' \in [Key -> SUBSET Conn]
      /\ \A k \in Key : idle[k] \subseteq idle'[k]
      /\ \A k \in Key : idle'[k] # idle[k] =>
           /\ k = key[t] /\ idle'[k] = idle[k] \cup {conn[t]}
           /\ conn[t] \in Conn /\ ~closed
  <2>1. CASE idle' = idle
    BY <2>1 DEF TypeOK
  <2>2. CASE /\ ~closed /\ pc[t] = "holding"
             /\ idle' = [idle EXCEPT ![key[t]] = @ \cup {conn[t]}]
    BY <1>2, <2>2 DEF TypeOK
  <2> QED
    BY <2>1, <2>2
<1>4. stale' \subseteq AllIdle'
  BY <1>3 DEF TypeOK, AllIdle
<1>5. \A u \in Task : (key'[u] = NoKey <=> pc'[u] = "idle")
                      /\ (conn'[u] # NoConn <=> pc'[u] \in {"created", "reusing", "holding"})
  <2> TAKE u \in Task
  <2>1. CASE u = t
    BY <1>1, <2>1 DEF TypeOK
  <2>2. CASE u # t
    BY <1>1, <2>2 DEF TypeOK
  <2> QED
    BY <2>1, <2>2
<1>6. key' \in [Task -> Key \cup {NoKey}] /\ conn' \in [Task -> Conn \cup {NoConn}]
  BY <1>1 DEF TypeOK
<1>7. perHost' \in [Key -> SUBSET (Task \cup Conn)]
  <2>1. CASE perHost' = perHost
    BY <2>1 DEF TypeOK
  <2>2. CASE perHost' = [perHost EXCEPT ![key[t]] = @ \ {Slot(t)}]
    BY <1>2, <2>2 DEF TypeOK
  <2> QED
    BY <1>1, <2>1, <2>2
<1>8. TypeOK'
  BY <1>1, <1>3, <1>4, <1>5, <1>6, <1>7 DEF TypeOK
<1>9. ExclusiveLease'
  <2>1. Held' \subseteq Held
    BY <1>1 DEF Held, TypeOK
  <2>2. conn[t] # NoConn => conn[t] \notin Held'
    BY <1>1 DEF Held, TypeOK, ExclusiveLease
  <2>3. conn[t] # NoConn => \A k \in Key : conn[t] \notin idle[k]
    BY DEF Held, ExclusiveLease
  <2>4. \A u, v \in Task : u # v /\ conn'[u] # NoConn => conn'[u] # conn'[v]
    BY <1>1 DEF TypeOK, ExclusiveLease
  <2>5. \A k \in Key : idle'[k] \cap Held' = {}
    BY <1>2, <1>3, <2>1, <2>2 DEF ExclusiveLease
  <2>6. \A k, l \in Key : k # l => idle'[k] \cap idle'[l] = {}
    BY <1>2, <1>3, <2>3 DEF ExclusiveLease
  <2> QED
    BY <2>4, <2>5, <2>6 DEF ExclusiveLease
<1>10. ClosedIsEmpty'
  BY <1>3 DEF ClosedIsEmpty
<1>11. SlotsMatchUse'
  BY ReleaseKeepsSlots
<1> QED
  BY <1>8, <1>9, <1>10, <1>11

\* A connection that fails, before or after it was made, keeps it.
LEMMA FailIInv ==
  ASSUME IInv, NEW t \in Task, FailCreate(t) \/ FailReuse(t)
  PROVE  IInv'
<1>1. /\ pc[t] \in InUse /\ ReleaseAcquired(t, Slot(t))
      /\ UNCHANGED <<closed, idle, stale, armed, open>>
  BY DEF FailCreate, FailReuse, Slot
<1> QED
  BY <1>1, GiveBackIInv DEF IInv, TypeOK

\* Giving back a connection, pooled or closed, keeps it.
LEMMA ReleaseIInv ==
  ASSUME IInv, NEW t \in Task, Release(t)
  PROVE  IInv'
<1>1. pc[t] = "holding" /\ Slot(t) = conn[t] /\ ReleaseAcquired(t, Slot(t)) /\ closed' = closed
  BY DEF Release, Slot
<1>2. CASE UNCHANGED <<idle, stale, armed>> /\ open' \subseteq open
  BY <1>1, <1>2, GiveBackIInv DEF IInv, TypeOK
<1>3. CASE /\ ~closed /\ idle' = [idle EXCEPT ![key[t]] = @ \cup {conn[t]}]
           /\ armed' = TRUE /\ UNCHANGED <<open, stale>>
  BY <1>1, <1>3, GiveBackIInv
<1> QED
  BY <1>2, <1>3 DEF Release

\* The end of connect: the placeholder gives way to the transport.
LEMMA AdoptIInv ==
  ASSUME IInv, NEW t \in Task, NEW c \in Conn, NEW opened \in SUBSET Conn,
         pc[t] \in {"creating", "created"},
         conn[t] # NoConn => conn[t] = c,
         \A u \in Task : u # t => conn[u] # c,
         \A k \in Key : c \notin idle[k],
         Adopt(t, c, opened), UNCHANGED <<closed, idle, stale, waiters, armed>>
  PROVE  IInv'
<1> USE SetsAssumption DEF IInv
<1>1. CASE closed
  <2>1. /\ open' = opened \ {c} /\ pc' = [pc EXCEPT ![t] = "idle"]
        /\ key' = [key EXCEPT ![t] = NoKey] /\ conn' = [conn EXCEPT ![t] = NoConn]
        /\ UNCHANGED <<acquired, perHost>>
    BY <1>1 DEF Adopt
  <2>2. TypeOK'
    BY <2>1 DEF TypeOK, AllIdle
  <2>3. ExclusiveLease' /\ ClosedIsEmpty'
    BY <2>1 DEF TypeOK, ExclusiveLease, Held, ClosedIsEmpty
  <2>4. SlotsMatchUse'
    BY <1>1 DEF SlotsMatchUse
  <2> QED
    BY <2>2, <2>3, <2>4
<1>2. CASE ~closed
  <2>1. /\ open' = opened /\ pc' = [pc EXCEPT ![t] = "holding"]
        /\ conn' = [conn EXCEPT ![t] = c] /\ key' = key
        /\ acquired' = (acquired \ {t}) \cup {c}
        /\ perHost' = IF LimitPerHost > 0
                      THEN [perHost EXCEPT ![key[t]] = (@ \ {t}) \cup {c}] ELSE perHost
    BY <1>2 DEF Adopt
  <2>2. key[t] \in Key /\ c # NoConn
    BY DEF TypeOK
  <2>3. acquired' \subseteq Task \cup Conn /\ perHost' \in [Key -> SUBSET (Task \cup Conn)]
    BY <2>1, <2>2 DEF TypeOK
  <2>4. TypeOK'
    BY <2>1, <2>2, <2>3 DEF TypeOK, AllIdle
  <2>5. ExclusiveLease'
    <3>1. Held' \subseteq Held \cup {c}
      BY <2>1 DEF Held, TypeOK
    <3>2. \A u, v \in Task : u # v /\ conn'[u] # NoConn => conn'[u] # conn'[v]
      BY <2>1 DEF TypeOK, ExclusiveLease
    <3>3. \A k \in Key : idle'[k] \cap Held' = {}
      BY <3>1 DEF ExclusiveLease
    <3> QED
      BY <3>2, <3>3 DEF ExclusiveLease
  <2>6. ClosedIsEmpty'
    BY <1>2 DEF ClosedIsEmpty
  <2>7. SlotsMatchUse'
    <3>1. /\ Slot(t) = t /\ Slot(t)' = c
          /\ \A u \in Task : pc'[u] \in InUse <=> pc[u] \in InUse
          /\ \A u \in Task : u # t => Slot(u)' = Slot(u)
      BY <2>1 DEF Slot, TypeOK
    <3>2. \A u \in Task : u # t /\ pc[u] \in InUse => Slot(u) # t
      BY <3>1, SlotsDiffer
    <3>3. acquired = {Slot(u) : u \in {v \in Task : pc[v] \in InUse}}
      BY <1>2 DEF SlotsMatchUse
    <3>4. acquired' = {Slot(u)' : u \in {v \in Task : pc'[v] \in InUse}}
      BY <2>1, <3>1, <3>2, <3>3
    <3>5. ASSUME LimitPerHost > 0, NEW k \in Key
          PROVE  perHost'[k] = {Slot(u)' : u \in Users(k)'}
      <4>1. perHost[k] = {Slot(u) : u \in Users(k)} /\ Users(k)' = Users(k)
        BY <1>2, <2>1, <3>1, <3>5 DEF SlotsMatchUse, Users
      <4>2. CASE k = key[t]
        <5>1. perHost'[k] = (perHost[k] \ {t}) \cup {c} /\ t \in Users(k)
          BY <2>1, <3>5, <4>2 DEF TypeOK, Users
        <5> QED
          BY <3>1, <3>2, <4>1, <5>1 DEF Users
      <4>3. CASE k # key[t]
        <5>1. perHost'[k] = perHost[k] /\ t \notin Users(k)
          BY <2>1, <3>5, <4>3 DEF TypeOK, Users
        <5> QED
          BY <3>1, <4>1, <5>1 DEF Users
      <4> QED
        BY <4>2, <4>3
    <3> QED
      BY <1>2, <3>4, <3>5 DEF SlotsMatchUse
  <2> QED
    BY <2>4, <2>5, <2>6, <2>7
<1> QED
  BY <1>1, <1>2

\* A connection that is made and replaces its placeholder keeps it.
LEMMA EstablishIInv ==
  ASSUME IInv, NEW t \in Task, Establish(t)
  PROVE  IInv'
<1> USE SetsAssumption DEF IInv
<1>1. PICK c \in Fresh :
        IF Traced
        THEN /\ open' = open \cup {c}
             /\ conn' = [conn EXCEPT ![t] = c]
             /\ pc' = [pc EXCEPT ![t] = "created"]
             /\ UNCHANGED <<acquired, perHost, key>>
        ELSE Adopt(t, c, open \cup {c})
  BY DEF Establish
<1>2. /\ pc[t] = "creating" /\ conn[t] = NoConn
      /\ UNCHANGED <<closed, idle, stale, waiters, armed>>
  BY DEF Establish, TypeOK
<1>3. /\ c \in Conn /\ c # NoConn /\ open \cup {c} \in SUBSET Conn
      /\ \A u \in Task : conn[u] # c
      /\ \A k \in Key : c \notin idle[k]
  BY DEF Fresh, AllIdle, TypeOK
<1>4. CASE Traced
  <2>1. /\ open' = open \cup {c}
        /\ conn' = [conn EXCEPT ![t] = c]
        /\ pc' = [pc EXCEPT ![t] = "created"]
        /\ UNCHANGED <<acquired, perHost, key>>
    BY <1>1, <1>4
  <2>2. TypeOK'
    BY <1>2, <1>3, <2>1 DEF TypeOK, AllIdle
  <2>3. ExclusiveLease'
    <3>1. Held' \subseteq Held \cup {c}
      BY <2>1 DEF Held, TypeOK
    <3>2. \A u, v \in Task : u # v /\ conn'[u] # NoConn => conn'[u] # conn'[v]
      BY <1>2, <1>3, <2>1 DEF TypeOK, ExclusiveLease
    <3>3. \A k \in Key : idle'[k] \cap Held' = {}
      BY <1>2, <1>3, <3>1 DEF ExclusiveLease
    <3> QED
      BY <1>2, <3>2, <3>3 DEF ExclusiveLease
  <2>4. ClosedIsEmpty'
    BY <1>2 DEF ClosedIsEmpty
  <2>5. SlotsMatchUse'
    <3>1. \A u \in Task : /\ pc'[u] \in InUse <=> pc[u] \in InUse
                          /\ pc[u] \in InUse => key'[u] = key[u] /\ Slot(u)' = Slot(u)
      BY <1>2, <2>1 DEF TypeOK, Slot
    <3> QED
      BY <1>2, <2>1, <3>1, SameSlots
  <2> QED
    BY <2>2, <2>3, <2>4, <2>5
<1>5. CASE ~Traced
  <2>1. Adopt(t, c, open \cup {c})
    BY <1>1, <1>5
  <2> QED
    BY <1>2, <1>3, <2>1, AdoptIInv
<1> QED
  BY <1>4, <1>5

\* The end of a trace, after which connect goes on, keeps it.
LEMMA TraceDoneIInv ==
  ASSUME IInv, NEW t \in Task, TraceDone(t)
  PROVE  IInv'
<1> USE SetsAssumption DEF IInv
<1>1. UNCHANGED <<closed, idle, stale, waiters, armed>>
  BY DEF TraceDone
<1>2. CASE pc[t] = "created" /\ Adopt(t, conn[t], open)
  <2>1. /\ conn[t] \in Conn /\ open \in SUBSET Conn
        /\ \A u \in Task : u # t => conn[u] # conn[t]
        /\ \A k \in Key : conn[t] \notin idle[k]
    BY <1>2 DEF TypeOK, ExclusiveLease, Held
  <2> QED
    BY <1>1, <1>2, <2>1, AdoptIInv
<1>3. CASE /\ pc[t] = "reusing" /\ pc' = [pc EXCEPT ![t] = "holding"]
           /\ UNCHANGED <<acquired, perHost, open, key, conn>>
  <2>1. TypeOK'
    BY <1>1, <1>3 DEF TypeOK, AllIdle
  <2>2. ExclusiveLease' /\ ClosedIsEmpty'
    BY <1>1, <1>3 DEF ExclusiveLease, Held, ClosedIsEmpty
  <2>3. \A u \in Task : /\ pc'[u] \in InUse <=> pc[u] \in InUse
                        /\ pc[u] \in InUse => key'[u] = key[u] /\ Slot(u)' = Slot(u)
    BY <1>3 DEF TypeOK, Slot
  <2> QED
    BY <1>1, <1>3, <2>1, <2>2, <2>3, SameSlots
<1> QED
  BY <1>2, <1>3 DEF TraceDone

\* Every step keeps the invariant.
LEMMA NextIInv == IInv /\ [Next]_vars => IInv'
<1> SUFFICES ASSUME IInv, [Next]_vars PROVE IInv'
  OBVIOUS
<1>1. ASSUME NEW t \in Task, NEW k \in Key, Connect(t, k) PROVE IInv'
  BY <1>1, ConnectIInv
<1>2. ASSUME NEW t \in Task, Resume(t) PROVE IInv'
  BY <1>2, ResumeIInv
<1>3. ASSUME NEW t \in Task, Cancel(t) \/ Unwind(t) \/ CancelAfterWake(t) PROVE IInv'
  BY <1>3, LeaveIInv
<1>4. ASSUME NEW t \in Task, Establish(t) PROVE IInv'
  BY <1>4, EstablishIInv
<1>5. ASSUME NEW t \in Task, TraceDone(t) PROVE IInv'
  BY <1>5, TraceDoneIInv
<1>6. ASSUME NEW t \in Task, FailCreate(t) \/ FailReuse(t) PROVE IInv'
  BY <1>6, FailIInv
<1>7. ASSUME NEW t \in Task, Release(t) PROVE IInv'
  BY <1>7, ReleaseIInv
<1>8. CASE Cleanup
  BY <1>8, CleanupIInv
<1>9. CASE Close
  BY <1>9, CloseIInv
<1>10. ASSUME NEW c \in Conn, Expire(c) \/ Lose(c) PROVE IInv'
  BY <1>10, EnvironmentIInv
<1>11. CASE UNCHANGED vars
  BY <1>11 DEF vars, IInv, TypeOK, AllIdle, ExclusiveLease, Held, ClosedIsEmpty,
               SlotsMatchUse, Slot, Users
<1> QED
  BY <1>1, <1>2, <1>3, <1>4, <1>5, <1>6, <1>7, <1>8, <1>9, <1>10, <1>11
  DEF Next, TaskStep

\* The invariant holds of every behaviour.
LEMMA InvariantHolds == Spec => []IInv
BY InitIInv, NextIInv, PTL DEF Spec

-----------------------------------------------------------------------------
\* The variables keep their types, and a task has a key and a transport exactly
\* at the await points where connect gives it one.
THEOREM TypeCorrect == Spec => []TypeOK
<1>1. IInv => TypeOK
  BY DEF IInv
<1> QED
  BY <1>1, InvariantHolds, PTL

\* No transport is in the hands of two tasks, or of a task and the pool: _get
\* and _release never share a connection.
THEOREM LeasesAreExclusive == Spec => []ExclusiveLease
<1>1. IInv => ExclusiveLease
  BY DEF IInv
<1> QED
  BY <1>1, InvariantHolds, PTL

\* _acquired and _acquired_per_host of an open connector are exactly the slots
\* in use: _release_acquired gives each of them back once.
THEOREM SlotsAreExact == Spec => []SlotsMatchUse
<1>1. IInv => SlotsMatchUse
  BY DEF IInv
<1> QED
  BY <1>1, InvariantHolds, PTL

-----------------------------------------------------------------------------
(* The bound per key.  It is inductive: connect reserves a slot only after it *)
(* found no idle transport, and reuse and release move a transport between    *)
(* the two sets that are counted.                                             *)

Load(k) == Cardinality(Users(k)) + Cardinality(idle[k])

\* Both counted sets are finite.
LEMMA FiniteLoad ==
  ASSUME TypeOK, NEW k \in Key
  PROVE  /\ IsFiniteSet(Users(k)) /\ Cardinality(Users(k)) \in Nat
         /\ IsFiniteSet(idle[k]) /\ Cardinality(idle[k]) \in Nat
<1>1. Users(k) \subseteq Task /\ idle[k] \subseteq Conn
  BY DEF Users, TypeOK
<1>2. IsFiniteSet(Users(k)) /\ IsFiniteSet(idle[k])
  BY <1>1, FS_Subset, SetsAssumption
<1> QED
  BY <1>2, FS_CardinalityType

\* The tasks in use for a key are not more than the slots of an open connector.
LEMMA UsersWithinSlots ==
  ASSUME TypeOK, ExclusiveLease, SlotsMatchUse, ~closed, NEW k \in Key
  PROVE  /\ Cardinality(acquired) \in Nat /\ Cardinality(Users(k)) <= Cardinality(acquired)
         /\ LimitPerHost > 0 => /\ Cardinality(perHost[k]) \in Nat
                                /\ Cardinality(Users(k)) <= Cardinality(perHost[k])
<1> DEFINE f == [t \in Users(k) |-> Slot(t)]
<1>1. IsFiniteSet(Task \cup Conn)
  BY SetsAssumption, FS_Union
<1>2. IsFiniteSet(acquired) /\ IsFiniteSet(perHost[k])
  BY <1>1, FS_Subset DEF TypeOK
<1>3. Cardinality(acquired) \in Nat /\ Cardinality(perHost[k]) \in Nat
  BY <1>2, FS_CardinalityType
<1>4. \A t, u \in Users(k) : t # u => f[t] # f[u]
  BY SlotsDiffer DEF Users
<1>5. f \in [Users(k) -> acquired]
  BY DEF SlotsMatchUse, Users
<1>6. LimitPerHost > 0 => f \in [Users(k) -> perHost[k]]
  BY DEF SlotsMatchUse
<1>7. Cardinality(Users(k)) <= Cardinality(acquired)
  <2> HIDE DEF f
  <2> QED
    BY <1>2, <1>4, <1>5, CountByImage
<1>8. LimitPerHost > 0 => Cardinality(Users(k)) <= Cardinality(perHost[k])
  <2> HIDE DEF f
  <2> QED
    BY <1>2, <1>4, <1>6, CountByImage
<1> QED
  BY <1>3, <1>7, <1>8

\* A step that does not increase the load of any key keeps the bound.
LEMMA LighterKeepsBound ==
  ASSUME TypeOK, TypeOK', PerKeyBound, closed' = closed, \A k \in Key : Load(k)' <= Load(k)
  PROVE  PerKeyBound'
<1> SUFFICES ASSUME ~closed, NEW k \in Key
             PROVE  /\ Limit > 0 => Load(k)' <= Limit
                    /\ LimitPerHost > 0 => Load(k)' <= LimitPerHost
  BY DEF PerKeyBound, Load
<1>1. /\ Limit > 0 => Load(k) <= Limit
      /\ LimitPerHost > 0 => Load(k) <= LimitPerHost
  BY DEF PerKeyBound, Load
<1>2. Load(k) \in Nat
  BY FiniteLoad DEF Load
<1>3. Load(k)' \in Nat
  <2>1. Users(k)' \subseteq Task /\ idle'[k] \subseteq Conn
    BY DEF Users, TypeOK
  <2>2. Cardinality(Users(k)') \in Nat /\ Cardinality(idle'[k]) \in Nat
    BY <2>1, FS_Subset, FS_CardinalityType, SetsAssumption
  <2> QED
    BY <2>2 DEF Load
<1> QED
  BY <1>1, <1>2, <1>3, LimitsAssumption

\* A step after which a key has no other users and no other idle transports than
\* before does not raise its load.
LEMMA SameOrLess ==
  ASSUME TypeOK, NEW k \in Key, Users(k)' \subseteq Users(k), idle'[k] \subseteq idle[k]
  PROVE  Load(k)' <= Load(k)
<1>1. /\ IsFiniteSet(Users(k)) /\ Cardinality(Users(k)) \in Nat
      /\ IsFiniteSet(idle[k]) /\ Cardinality(idle[k]) \in Nat
  BY FiniteLoad
<1>2. /\ IsFiniteSet(Users(k)') /\ Cardinality(Users(k)') <= Cardinality(Users(k))
      /\ IsFiniteSet(idle'[k]) /\ Cardinality(idle'[k]) <= Cardinality(idle[k])
  BY <1>1, FS_Subset
<1>3. Cardinality(Users(k)') \in Nat /\ Cardinality(idle'[k]) \in Nat
  BY <1>2, FS_CardinalityType
<1> QED
  BY <1>1, <1>2, <1>3 DEF Load

\* Reuse: one user more, one idle transport less.
LEMMA TakeIdleLoad ==
  ASSUME IInv, NEW t \in Task, NEW k \in Key, pc[t] \in {"idle", "woken"},
         TakeIdle(t, k), key' = [key EXCEPT ![t] = k], NEW l \in Key
  PROVE  Load(l)' <= Load(l)
<1> USE DEF IInv
<1>1. PICK c \in idle[k] :
        /\ \E gone : idle' = [idle EXCEPT ![k] = @ \ (gone \cup {c})]
        /\ \E p \in {"reusing", "holding"} : pc' = [pc EXCEPT ![t] = p]
  BY DEF TakeIdle, Usable
<1>2. /\ IsFiniteSet(Users(l)) /\ Cardinality(Users(l)) \in Nat
      /\ IsFiniteSet(idle[l]) /\ Cardinality(idle[l]) \in Nat
  BY FiniteLoad
<1>3. CASE l = k
  <2>1. Users(l)' \subseteq Users(l) \cup {t}
    BY <1>1 DEF Users, TypeOK
  <2>2. c \in idle[l] /\ idle'[l] \subseteq idle[l] \ {c}
    BY <1>1, <1>3 DEF TypeOK
  <2>3. Cardinality(Users(l)') \in Nat /\ Cardinality(Users(l)') <= Cardinality(Users(l)) + 1
    BY <1>2, <2>1, GrowByOne
  <2>4. Cardinality(idle'[l]) \in Nat /\ Cardinality(idle'[l]) <= Cardinality(idle[l]) - 1
    BY <1>2, <2>2, ShrinkByOne
  <2> QED
    BY <1>2, <2>3, <2>4 DEF Load
<1>4. CASE l # k
  <2>1. Users(l)' \subseteq Users(l) /\ idle'[l] \subseteq idle[l]
    BY <1>1, <1>4 DEF Users, TypeOK
  <2> QED
    BY <2>1, SameOrLess
<1> QED
  BY <1>3, <1>4

\* Give back: one user less, at most one idle transport more.
LEMMA GiveBackLoad ==
  ASSUME IInv, NEW t \in Task, pc[t] \in InUse, ReleaseAcquired(t, Slot(t)),
         \/ idle' = idle
         \/ idle' = [idle EXCEPT ![key[t]] = @ \cup {conn[t]}],
         NEW l \in Key
  PROVE  Load(l)' <= Load(l)
<1> USE SetsAssumption DEF IInv
<1>1. /\ key' = [key EXCEPT ![t] = NoKey] /\ pc'[t] = "idle"
      /\ \A u \in Task : u # t =>
           pc'[u] = pc[u] \/ (pc[u] = "queued" /\ pc'[u] = "woken")
  BY ReleaseAcquiredEffect
<1>2. /\ IsFiniteSet(Users(l)) /\ Cardinality(Users(l)) \in Nat
      /\ IsFiniteSet(idle[l]) /\ Cardinality(idle[l]) \in Nat
  BY FiniteLoad
<1>3. Users(l)' \subseteq Users(l) \ {t}
  BY <1>1 DEF Users, TypeOK
<1>4. CASE l = key[t]
  <2>1. t \in Users(l)
    BY <1>4 DEF Users
  <2>2. idle'[l] \subseteq idle[l] \cup {conn[t]}
    BY <1>4 DEF TypeOK
  <2>3. Cardinality(Users(l)') \in Nat /\ Cardinality(Users(l)') <= Cardinality(Users(l)) - 1
    BY <1>2, <1>3, <2>1, ShrinkByOne
  <2>4. Cardinality(idle'[l]) \in Nat /\ Cardinality(idle'[l]) <= Cardinality(idle[l]) + 1
    BY <1>2, <2>2, GrowByOne
  <2> QED
    BY <1>2, <2>3, <2>4 DEF Load
<1>5. CASE l # key[t]
  <2>1. idle'[l] = idle[l]
    BY <1>5 DEF TypeOK
  <2> QED
    BY <1>3, <2>1, SameOrLess
<1> QED
  BY <1>4, <1>5

\* Reserve: the limits were checked, and no idle transport of the key is left.
LEMMA ReserveKeepsBound ==
  ASSUME IInv, PerKeyBound, NEW t \in Task, NEW k \in Key, pc[t] \in {"idle", "woken"},
         DropIdle(k), Available(acquired, perHost, k) > 0, Reserve(t, k),
         key' = [key EXCEPT ![t] = k], closed' = closed
  PROVE  PerKeyBound'
<1> USE LimitsAssumption DEF IInv
<1> SUFFICES ASSUME ~closed, NEW l \in Key
             PROVE  /\ Limit > 0 => Cardinality(Users(l)') + Cardinality(idle'[l]) <= Limit
                    /\ LimitPerHost > 0 =>
                         Cardinality(Users(l)') + Cardinality(idle'[l]) <= LimitPerHost
  BY DEF PerKeyBound
<1>1. idle' = [idle EXCEPT ![k] = {}] /\ pc' = [pc EXCEPT ![t] = "creating"]
  BY DEF DropIdle, Reserve
<1>2. CASE l = k
  <2>1. /\ Cardinality(acquired) \in Nat /\ Cardinality(Users(k)) <= Cardinality(acquired)
        /\ LimitPerHost > 0 => /\ Cardinality(perHost[k]) \in Nat
                               /\ Cardinality(Users(k)) <= Cardinality(perHost[k])
    BY UsersWithinSlots
  <2>2. /\ Limit > 0 => Cardinality(acquired) < Limit
        /\ LimitPerHost > 0 => Cardinality(perHost[k]) < LimitPerHost
    BY <2>1 DEF Available
  <2>3. IsFiniteSet(Users(k)) /\ Cardinality(Users(k)) \in Nat
    BY FiniteLoad
  <2>4. Users(k)' \subseteq Users(k) \cup {t}
    BY <1>1 DEF Users, TypeOK
  <2>5. Cardinality(Users(k)') \in Nat /\ Cardinality(Users(k)') <= Cardinality(Users(k)) + 1
    BY <2>3, <2>4, GrowByOne
  <2>6. Cardinality(idle'[k]) = 0
    BY <1>1, FS_EmptySet DEF TypeOK
  <2> QED
    BY <1>2, <2>1, <2>2, <2>3, <2>5, <2>6
<1>3. CASE l # k
  <2>1. Users(l)' = Users(l) /\ idle'[l] = idle[l]
    BY <1>1, <1>3 DEF Users, TypeOK
  <2> QED
    BY <2>1 DEF PerKeyBound
<1> QED
  BY <1>2, <1>3

\* Every other step leaves the users and the idle transports of a key alone or
\* removes some.
LEMMA QuietLoad ==
  ASSUME IInv, NEW l \in Key,
         \/ \E t \in Task : Cancel(t) \/ Unwind(t) \/ CancelAfterWake(t)
                            \/ Establish(t) \/ TraceDone(t)
         \/ \E t \in Task, k \in Key :
              /\ pc[t] \in {"idle", "woken"} /\ pc' = [pc EXCEPT ![t] = "queued"]
              /\ key' = [key EXCEPT ![t] = k]
              /\ DropIdle(k) \/ idle' = idle
         \/ Cleanup
         \/ \E c \in Conn : Expire(c) \/ Lose(c)
         \/ UNCHANGED vars
  PROVE  Load(l)' <= Load(l)
<1> USE SetsAssumption DEF IInv
<1>1. idle'[l] \subseteq idle[l]
  <2>1. CASE \E t \in Task, k \in Key : DropIdle(k)
    BY <2>1 DEF DropIdle, TypeOK
  <2>2. CASE Cleanup
    BY <2>2 DEF Cleanup
  <2>3. CASE idle' = idle
    BY <2>3
  <2> QED
    BY <2>1, <2>2, <2>3
    DEF Cancel, Unwind, CancelAfterWake, Establish, TraceDone, Expire, Lose, vars
<1>2. Users(l)' \subseteq Users(l)
  <2>1. ASSUME NEW t \in Task, Cancel(t) \/ Unwind(t) \/ CancelAfterWake(t)
        PROVE  Users(l)' \subseteq Users(l)
    BY <2>1 DEF Cancel, Unwind, CancelAfterWake, Users, TypeOK
  <2>2. ASSUME NEW t \in Task, Establish(t) \/ TraceDone(t)
        PROVE  Users(l)' \subseteq Users(l)
    <3>1. /\ pc[t] \in InUse
          /\ \E p \in {"idle", "created", "holding"} : pc' = [pc EXCEPT ![t] = p]
          /\ key' = key \/ key' = [key EXCEPT ![t] = NoKey]
      BY <2>2 DEF Establish, TraceDone, Adopt
    <3> QED
      BY <3>1 DEF Users, TypeOK
  <2>3. ASSUME NEW t \in Task, NEW k \in Key, pc' = [pc EXCEPT ![t] = "queued"],
               key' = [key EXCEPT ![t] = k]
        PROVE  Users(l)' \subseteq Users(l)
    BY <2>3 DEF Users, TypeOK
  <2>4. CASE pc' = pc /\ key' = key
    BY <2>4 DEF Users
  <2> QED
    BY <2>1, <2>2, <2>3, <2>4 DEF Cleanup, Expire, Lose, vars
<1> QED
  BY <1>1, <1>2, SameOrLess

\* Every step keeps the bound; only reserving a slot adds to it, after a look at the limits.
LEMMA NextPerKeyBound == IInv /\ IInv' /\ PerKeyBound /\ [Next]_vars => PerKeyBound'
<1> SUFFICES ASSUME IInv, IInv', PerKeyBound, [Next]_vars PROVE PerKeyBound'
  OBVIOUS
<1>0. ASSUME closed' = closed, \A l \in Key : Load(l)' <= Load(l) PROVE PerKeyBound'
  BY <1>0, LighterKeepsBound DEF IInv
<1>1. ASSUME NEW t \in Task, NEW k \in Key, Connect(t, k) PROVE PerKeyBound'
  <2>1. pc[t] = "idle" /\ key' = [key EXCEPT ![t] = k] /\ closed' = closed
    BY <1>1 DEF Connect
  <2>2. CASE TakeIdle(t, k)
    BY <1>0, <2>1, <2>2, TakeIdleLoad
  <2>3. CASE DropIdle(k) /\ Available(acquired, perHost, k) > 0 /\ Reserve(t, k)
    BY <2>1, <2>3, ReserveKeepsBound
  <2>4. CASE DropIdle(k) /\ pc' = [pc EXCEPT ![t] = "queued"]
    BY <1>0, <2>1, <2>4, QuietLoad
  <2> QED
    BY <1>1, <2>2, <2>3, <2>4 DEF Connect
<1>2. ASSUME NEW t \in Task, Resume(t) PROVE PerKeyBound'
  <2>1. /\ pc[t] = "woken" /\ key[t] \in Key /\ closed' = closed
        /\ key' = [key EXCEPT ![t] = key[t]]
    BY <1>2, SetsAssumption DEF Resume, IInv, TypeOK
  <2>2. CASE TakeIdle(t, key[t])
    BY <1>0, <2>1, <2>2, TakeIdleLoad
  <2>3. CASE DropIdle(key[t]) /\ Available(acquired, perHost, key[t]) > 0 /\ Reserve(t, key[t])
    BY <2>1, <2>3, ReserveKeepsBound
  <2>4. CASE pc' = [pc EXCEPT ![t] = "queued"] /\ idle' = idle
    BY <1>0, <2>1, <2>4, QuietLoad
  <2> QED
    BY <1>2, <2>2, <2>3, <2>4 DEF Resume
<1>3. ASSUME NEW t \in Task, FailCreate(t) \/ FailReuse(t) PROVE PerKeyBound'
  <2>1. /\ pc[t] \in InUse /\ ReleaseAcquired(t, Slot(t)) /\ idle' = idle /\ closed' = closed
    BY <1>3 DEF FailCreate, FailReuse, Slot
  <2> QED
    BY <1>0, <2>1, GiveBackLoad
<1>4. ASSUME NEW t \in Task, Release(t) PROVE PerKeyBound'
  <2>1. /\ pc[t] = "holding" /\ ReleaseAcquired(t, Slot(t)) /\ closed' = closed
        /\ idle' = idle \/ idle' = [idle EXCEPT ![key[t]] = @ \cup {conn[t]}]
    BY <1>4 DEF Release, Slot
  <2> QED
    BY <1>0, <2>1, GiveBackLoad
<1>5. ASSUME NEW t \in Task, Cancel(t) \/ Unwind(t) \/ CancelAfterWake(t)
                             \/ Establish(t) \/ TraceDone(t)
      PROVE  PerKeyBound'
  <2>1. closed' = closed
    BY <1>5 DEF Cancel, Unwind, CancelAfterWake, Establish, TraceDone
  <2> QED
    BY <1>0, <1>5, <2>1, QuietLoad
<1>6. CASE Cleanup \/ (\E c \in Conn : Expire(c) \/ Lose(c)) \/ UNCHANGED vars
  <2>1. closed' = closed
    BY <1>6 DEF Cleanup, Expire, Lose, vars
  <2> QED
    BY <1>0, <1>6, <2>1, QuietLoad
<1>7. CASE Close
  BY <1>7 DEF Close, PerKeyBound
<1> QED
  BY <1>1, <1>2, <1>3, <1>4, <1>5, <1>6, <1>7 DEF Next, TaskStep

\* The transports of one key, in use and idle together, never exceed limit nor
\* limit_per_host, although _get takes idle transports without checking.
THEOREM KeysStayBounded == Spec => []PerKeyBound
<1>1. Init => PerKeyBound
  <2> SUFFICES ASSUME Init, NEW k \in Key PROVE Users(k) = {} /\ idle[k] = {}
    BY FS_EmptySet, LimitsAssumption DEF PerKeyBound
  <2> QED
    BY DEF Init, Users
<1> QED
  BY <1>1, InvariantHolds, NextPerKeyBound, PTL DEF Spec

-----------------------------------------------------------------------------
(* The timer of the idle transports. *)

\* Only a release adds an idle transport, and it sets the timer, which _cleanup
\* stops only when none is left.
LEMMA NextTimed == IInv /\ IdleGetsCleaned /\ [Next]_vars => IdleGetsCleaned'
<1> SUFFICES ASSUME IInv, IdleGetsCleaned, [Next]_vars PROVE IdleGetsCleaned'
  OBVIOUS
<1>1. ASSUME closed' = closed, armed' = armed, \A k \in Key : idle'[k] \subseteq idle[k]
      PROVE  IdleGetsCleaned'
  BY <1>1 DEF IdleGetsCleaned, AllIdle
<1>2. ASSUME NEW t \in Task, TaskStep(t), ~Release(t) PROVE IdleGetsCleaned'
  <2>1. closed' = closed /\ armed' = armed
    BY <1>2 DEF TaskStep, Connect, Resume, Cancel, Unwind, CancelAfterWake, Establish,
                TraceDone, FailCreate, FailReuse
  <2>2. \/ idle' = idle
        \/ \E k \in Key : TakeIdle(t, k) \/ DropIdle(k)
    <3>1. Resume(t) => key[t] \in Key
      BY SetsAssumption DEF Resume, IInv, TypeOK
    <3> QED
      BY <1>2, <3>1 DEF TaskStep, Connect, Resume, Cancel, Unwind, CancelAfterWake, Establish,
                TraceDone, FailCreate, FailReuse
  <2>3. \A k \in Key : idle'[k] \subseteq idle[k]
    BY <2>2 DEF TakeIdle, DropIdle, IInv, TypeOK
  <2> QED
    BY <1>1, <2>1, <2>3
<1>3. ASSUME NEW t \in Task, Release(t) PROVE IdleGetsCleaned'
  BY <1>3 DEF Release, IdleGetsCleaned, AllIdle
<1>4. CASE Cleanup
  <2>1. AllIdle' = AllIdle \cap (open \ stale)
    BY <1>4 DEF Cleanup, AllIdle
  <2>2. closed' = closed /\ (armed' <=> AllIdle \cap (open \ stale) # {}) /\ armed
    BY <1>4 DEF Cleanup
  <2> QED
    BY <2>1, <2>2 DEF IdleGetsCleaned
<1>5. CASE Close
  BY <1>5 DEF Close, IdleGetsCleaned, AllIdle
<1>6. CASE (\E c \in Conn : Expire(c) \/ Lose(c)) \/ UNCHANGED vars
  BY <1>6 DEF Expire, Lose, vars, IdleGetsCleaned, AllIdle
<1> QED
  BY <1>2, <1>3, <1>4, <1>5, <1>6 DEF Next

\* Idle transports have a timer.
THEOREM IdleIsTimed == Spec => []IdleGetsCleaned
<1>1. Init => IdleGetsCleaned
  BY DEF Init, IdleGetsCleaned, AllIdle
<1> QED
  BY <1>1, InvariantHolds, NextTimed, PTL DEF Spec

-----------------------------------------------------------------------------
(* Open transports, without traces: with them, a trace that raises leaves its *)
(* transport open and unreferenced.                                          *)

\* Every open transport is in the hands of a task or idle, and close() leaves
\* none open.  No task waits for a trace.
Kept ==
  /\ \A t \in Task : pc[t] \notin {"created", "reusing"}
  /\ \A c \in open : (\E t \in Task : conn[t] = c) \/ (\E k \in Key : c \in idle[k])
  /\ closed => open = {}

\* Taking or dropping idle transports: those that leave the pool are closed,
\* not open any more, or in the hands of the task.
LEMMA GetKept ==
  ASSUME IInv, Kept, ~Traced, NEW t \in Task, NEW k \in Key, pc[t] \in {"idle", "woken"},
         TakeIdle(t, k) \/ (DropIdle(k) /\ conn' = conn
                             /\ \E p \in {"creating", "queued"} : pc' = [pc EXCEPT ![t] = p]),
         closed' = closed
  PROVE  Kept'
<1>1. \A u \in Task : pc'[u] \notin {"created", "reusing"}
  BY DEF TakeIdle, Kept, IInv, TypeOK
<1>2. open' \subseteq open
  BY DEF TakeIdle, DropIdle
<1>3. ASSUME NEW c \in open'
      PROVE  (\E u \in Task : conn'[u] = c) \/ (\E l \in Key : c \in idle'[l])
  <2>1. CASE \E u \in Task : conn[u] = c
    <3>1. PICK u \in Task : conn[u] = c
      BY <2>1
    <3>2. conn[t] = NoConn /\ c \in Conn
      BY <1>2 DEF IInv, TypeOK
    <3>3. conn'[u] = c
      BY <3>1, <3>2, SetsAssumption DEF TakeIdle, IInv, TypeOK
    <3> QED
      BY <3>3
  <2>2. CASE \E l \in Key : c \in idle[l]
    <3>1. PICK l \in Key : c \in idle[l]
      BY <2>2
    <3>2. CASE DropIdle(k) /\ conn' = conn
      BY <3>1, <3>2, <1>3 DEF DropIdle, IInv, TypeOK
    <3>3. CASE TakeIdle(t, k)
      BY <3>1, <3>3, <1>3 DEF TakeIdle, Usable, IInv, TypeOK
    <3> QED
      BY <3>2, <3>3
  <2> QED
    BY <1>2, <2>1, <2>2 DEF Kept
<1> QED
  BY <1>1, <1>2, <1>3 DEF Kept

\* Without traces, giving back a slot gives back a transport only when the
\* caller is done with it: it is closed or pooled.
LEMMA GiveBackKept ==
  ASSUME IInv, Kept, NEW t \in Task, FailCreate(t) \/ FailReuse(t) \/ Release(t)
  PROVE  Kept'
<1>1. pc[t] \in {"creating", "holding"} /\ ReleaseAcquired(t, Slot(t)) /\ closed' = closed
  BY DEF FailCreate, FailReuse, Release, Slot, Kept
<1>2. /\ conn' = [conn EXCEPT ![t] = NoConn] /\ pc'[t] = "idle"
      /\ \A u \in Task : u # t => pc'[u] = pc[u] \/ (pc[u] = "queued" /\ pc'[u] = "woken")
  BY <1>1, ReleaseAcquiredEffect DEF IInv
<1>3. \/ conn[t] = NoConn /\ open' = open /\ idle' = idle
      \/ closed /\ open' = open
      \/ open' = open \ {conn[t]} /\ idle' = idle
      \/ open' = open /\ key[t] \in Key /\ idle' = [idle EXCEPT ![key[t]] = @ \cup {conn[t]}]
  BY <1>1, SetsAssumption DEF FailCreate, FailReuse, Release, IInv, TypeOK
<1>4. ASSUME NEW c \in open', ~closed
      PROVE  (\E u \in Task : conn'[u] = c) \/ (\E l \in Key : c \in idle'[l])
  <2>1. CASE c = conn[t]
    BY <2>1, <1>3, <1>4, SetsAssumption DEF IInv, TypeOK
  <2>2. CASE \E u \in Task \ {t} : conn[u] = c
    BY <2>2, <1>2 DEF IInv, TypeOK
  <2>3. CASE \E l \in Key : c \in idle[l]
    BY <2>3, <1>3, <1>4 DEF IInv, TypeOK
  <2> QED
    BY <1>3, <2>1, <2>2, <2>3 DEF Kept
<1> QED
  BY <1>1, <1>2, <1>3, <1>4 DEF Kept

\* A new transport is its task's, unless the connector was closed.
LEMMA EstablishKept ==
  ASSUME IInv, Kept, ~Traced, NEW t \in Task, Establish(t)
  PROVE  Kept'
<1>1. PICK c \in Fresh : Adopt(t, c, open \cup {c})
  BY DEF Establish
<1>2. /\ pc[t] = "creating" /\ closed' = closed /\ idle' = idle /\ conn[t] = NoConn
  BY DEF Establish, IInv, TypeOK
<1>3. CASE closed
  BY <1>1, <1>2, <1>3 DEF Adopt, Kept, IInv, TypeOK
<1>4. CASE ~closed
  <2>1. /\ open' = open \cup {c} /\ pc' = [pc EXCEPT ![t] = "holding"]
        /\ conn' = [conn EXCEPT ![t] = c]
    BY <1>1, <1>4 DEF Adopt
  <2>2. conn'[t] = c /\ \A u \in Task : conn[u] \in open => conn'[u] = conn[u]
    BY <1>2, <2>1, SetsAssumption DEF IInv, TypeOK
  <2> QED
    BY <1>2, <1>4, <2>1, <2>2 DEF Kept, IInv, TypeOK
<1> QED
  BY <1>3, <1>4

\* Every step keeps that; close() closes also what is in use.
LEMMA NextKept == IInv /\ Kept /\ ~Traced /\ [Next]_vars => Kept'
<1> SUFFICES ASSUME IInv, Kept, ~Traced, [Next]_vars PROVE Kept'
  OBVIOUS
<1>1. ASSUME NEW t \in Task, NEW k \in Key, Connect(t, k) PROVE Kept'
  BY <1>1, GetKept DEF Connect, Reserve
<1>2. ASSUME NEW t \in Task, Resume(t) PROVE Kept'
  <2>1. pc[t] = "woken" /\ key[t] \in Key /\ closed' = closed
    BY <1>2, SetsAssumption DEF Resume, IInv, TypeOK
  <2>2. CASE UNCHANGED <<idle, open, conn>> /\ pc' = [pc EXCEPT ![t] = "queued"]
    BY <2>1, <2>2 DEF Kept, IInv, TypeOK
  <2> QED
    BY <1>2, <2>1, <2>2, GetKept DEF Resume, Reserve
<1>3. ASSUME NEW t \in Task, Cancel(t) \/ Unwind(t) \/ CancelAfterWake(t) PROVE Kept'
  <2>1. /\ UNCHANGED <<closed, idle, open, conn>>
        /\ \E p \in {"cancelled", "idle"} : pc' = [pc EXCEPT ![t] = p]
    BY <1>3 DEF Cancel, Unwind, CancelAfterWake
  <2> QED
    BY <2>1 DEF Kept, IInv, TypeOK
<1>4. ASSUME NEW t \in Task, TraceDone(t) PROVE Kept'
  BY <1>4 DEF TraceDone, Kept
<1>5. CASE Cleanup
  BY <1>5 DEF Cleanup, AllIdle, Kept, IInv, TypeOK
<1>6. CASE Close
  <2>1. open' = {}
    <3> SUFFICES ASSUME NEW c \in open, c \notin AllIdle PROVE c \in acquired
      BY <1>6 DEF Close
    <3>1. PICK t \in Task : conn[t] = c
      BY DEF Kept, AllIdle
    <3>2. c # NoConn
      BY SetsAssumption DEF IInv, TypeOK
    <3>3. pc[t] = "holding"
      BY <3>1, <3>2 DEF Kept, IInv, TypeOK
    <3> QED
      BY <1>6, <3>1, <3>3 DEF Close, IInv, SlotsMatchUse, Slot
  <2>2. \A t \in Task : pc'[t] \notin {"created", "reusing"}
    BY <1>6 DEF Close, Kept
  <2> QED
    BY <2>1, <2>2 DEF Kept
<1>7. CASE (\E c \in Conn : Expire(c) \/ Lose(c)) \/ UNCHANGED vars
  BY <1>7 DEF Expire, Lose, vars, Kept
<1> QED
  BY <1>1, <1>2, <1>3, <1>4, <1>5, <1>6, <1>7, EstablishKept, GiveBackKept DEF Next, TaskStep

\* Without traces, whatever is open is kept by somebody.
LEMMA KeptHolds == ~Traced => (Spec => []Kept)
<1> SUFFICES ASSUME ~Traced PROVE Spec => []Kept
  OBVIOUS
<1>1. Init => Kept
  BY DEF Init, Kept
<1>2. IInv /\ Kept /\ [Next]_vars => Kept'
  BY NextKept
<1> QED
  BY <1>1, <1>2, InvariantHolds, PTL DEF Spec

\* Without traces, a transport nobody refers to is not open.
THEOREM NothingLeaks == ~Traced => (Spec => []NoTransportLeak)
<1>1. IInv /\ Kept => NoTransportLeak
  BY SetsAssumption DEF Kept, NoTransportLeak, Held, AllIdle, IInv, TypeOK
<1> QED
  BY <1>1, KeptHolds, InvariantHolds, PTL

\* Without traces, close() leaves no transport open but those of a connect that
\* still runs, which closes its own.
THEOREM CloseClosesAll == ~Traced => (Spec => []NothingOutlivesClose)
<1>1. IInv /\ Kept => NothingOutlivesClose
  BY SetsAssumption DEF Kept, NothingOutlivesClose, Held, AllIdle, IInv, TypeOK
<1> QED
  BY <1>1, KeptHolds, InvariantHolds, PTL

-----------------------------------------------------------------------------
(* The queues. *)

\* A task that joins a queue at either end.
LEMMA JoinQueue ==
  ASSUME NEW s \in Seq(Task), IsInjective(s), NEW t \in Task, t \notin Range(s)
  PROVE  /\ IsInjective(Append(s, t)) /\ Range(Append(s, t)) = Range(s) \cup {t}
         /\ IsInjective(<<t>> \o s) /\ Range(<<t>> \o s) = Range(s) \cup {t}
<1> DEFINE a == Append(s, t)
           b == <<t>> \o s
<1>1. Len(s) \in Nat /\ DOMAIN s = 1 .. Len(s) /\ \A i \in DOMAIN s : s[i] # t
  BY DEF Range
<1>2. /\ DOMAIN a = 1 .. Len(s) + 1 /\ a[Len(s) + 1] = t
      /\ \A i \in DOMAIN s : a[i] = s[i]
  BY <1>1
<1>3. /\ DOMAIN b = 1 .. Len(s) + 1 /\ b[1] = t
      /\ \A i \in DOMAIN s : b[i + 1] = s[i]
  BY <1>1
<1> HIDE DEF a, b
<1>4. IsInjective(a)
  BY <1>1, <1>2 DEF IsInjective
<1>5. Range(a) = Range(s) \cup {t}
  <2>1. \A i \in DOMAIN s : i \in DOMAIN a
    BY <1>1, <1>2
  <2>2. \A i \in DOMAIN a : i \in DOMAIN s \/ i = Len(s) + 1
    BY <1>1, <1>2
  <2>3. Len(s) + 1 \in DOMAIN a
    BY <1>1, <1>2
  <2> QED
    BY <1>2, <2>1, <2>2, <2>3 DEF Range
<1>6. \A i \in DOMAIN b : i = 1 \/ (i - 1 \in DOMAIN s /\ b[i] = s[i - 1])
  <2> SUFFICES ASSUME NEW i \in DOMAIN b, i # 1 PROVE i - 1 \in DOMAIN s /\ b[i] = s[i - 1]
    OBVIOUS
  <2>1. i - 1 \in DOMAIN s /\ (i - 1) + 1 = i
    BY <1>1, <1>3
  <2>2. b[(i - 1) + 1] = s[i - 1]
    BY <1>3, <2>1
  <2> QED
    BY <2>1, <2>2
<1>7. IsInjective(b)
  <2> SUFFICES ASSUME NEW i \in DOMAIN b, NEW j \in DOMAIN b, b[i] = b[j] PROVE i = j
    BY DEF IsInjective
  <2>1. CASE i = 1 \/ j = 1
    BY <1>1, <1>3, <1>6, <2>1
  <2>2. CASE i # 1 /\ j # 1
    <3>1. i - 1 = j - 1
      BY <1>6, <2>2 DEF IsInjective
    <3> QED
      BY <1>1, <1>3, <3>1
  <2> QED
    BY <2>1, <2>2
<1>8. Range(b) = Range(s) \cup {t}
  <2>1. \A i \in DOMAIN s : i + 1 \in DOMAIN b
    BY <1>1, <1>3
  <2>2. 1 \in DOMAIN b
    BY <1>1, <1>3
  <2> QED
    BY <1>3, <1>6, <2>1, <2>2 DEF Range
<1> QED
  BY <1>4, <1>5, <1>7, <1>8 DEF a, b

\* The first i futures of a queue are dropped.
LEMMA DropFirst ==
  ASSUME NEW s \in Seq(Task), IsInjective(s), NEW i \in DOMAIN s
  PROVE  LET r == SubSeq(s, i + 1, Len(s))
         IN  IsInjective(r) /\ Range(r) = Range(s) \ {s[j] : j \in 1 .. i}
<1> DEFINE r == SubSeq(s, i + 1, Len(s))
<1>1. Len(s) \in Nat /\ DOMAIN s = 1 .. Len(s) /\ i \in 1 .. Len(s)
  OBVIOUS
<1>2. DOMAIN r = 1 .. Len(s) - i /\ \A j \in DOMAIN r : r[j] = s[i + j]
  BY <1>1
<1> HIDE DEF r
<1>3. \A j \in DOMAIN r : i + j \in DOMAIN s /\ i + j \notin 1 .. i
  BY <1>1, <1>2
<1>4. \A j \in DOMAIN s : j \in 1 .. i \/ (j - i \in DOMAIN r /\ r[j - i] = s[j])
  <2> SUFFICES ASSUME NEW j \in DOMAIN s, j \notin 1 .. i
               PROVE  j - i \in DOMAIN r /\ r[j - i] = s[j]
    OBVIOUS
  <2>1. j - i \in DOMAIN r /\ i + (j - i) = j
    BY <1>1, <1>2
  <2>2. r[j - i] = s[i + (j - i)]
    BY <1>2, <2>1
  <2> QED
    BY <2>1, <2>2
<1>5. IsInjective(r)
  <2> SUFFICES ASSUME NEW a \in DOMAIN r, NEW b \in DOMAIN r, r[a] = r[b] PROVE a = b
    BY DEF IsInjective
  <2>1. i + a = i + b
    BY <1>2, <1>3 DEF IsInjective
  <2> QED
    BY <1>1, <1>2, <2>1
<1>6. Range(r) = Range(s) \ {s[j] : j \in 1 .. i}
  <2>1. \A j \in DOMAIN r, a \in 1 .. i : a \in DOMAIN s /\ r[j] # s[a]
    BY <1>1, <1>2, <1>3 DEF IsInjective
  <2> QED
    BY <1>2, <1>3, <1>4, <2>1 DEF Range
<1> QED
  BY <1>5, <1>6 DEF r

\* One future leaves a queue.
LEMMA LeaveQueue ==
  ASSUME NEW s \in Seq(Task), IsInjective(s), NEW i \in DOMAIN s
  PROVE  LET r == SubSeq(s, 1, i - 1) \o SubSeq(s, i + 1, Len(s))
         IN  IsInjective(r) /\ Range(r) = Range(s) \ {s[i]}
<1> DEFINE r == SubSeq(s, 1, i - 1) \o SubSeq(s, i + 1, Len(s))
           at(j) == IF j < i THEN j ELSE j + 1
<1>1. Len(s) \in Nat /\ DOMAIN s = 1 .. Len(s) /\ i \in 1 .. Len(s)
  OBVIOUS
<1>2. DOMAIN r = 1 .. Len(s) - 1 /\ \A j \in DOMAIN r : r[j] = s[at(j)]
  <2>1. /\ Len(SubSeq(s, 1, i - 1)) = i - 1
        /\ \A j \in 1 .. i - 1 : SubSeq(s, 1, i - 1)[j] = s[j]
    BY <1>1
  <2>2. /\ Len(SubSeq(s, i + 1, Len(s))) = Len(s) - i
        /\ \A j \in 1 .. Len(s) - i : SubSeq(s, i + 1, Len(s))[j] = s[i + j]
    BY <1>1
  <2> DEFINE a == SubSeq(s, 1, i - 1)
             b == SubSeq(s, i + 1, Len(s))
  <2>3. a \in Seq(Task) /\ b \in Seq(Task)
    BY <1>1
  <2> HIDE DEF a, b
  <2>4. /\ DOMAIN (a \o b) = 1 .. Len(a) + Len(b)
        /\ \A j \in DOMAIN (a \o b) : (a \o b)[j] = IF j <= Len(a) THEN a[j] ELSE b[j - Len(a)]
    BY <2>3
  <2>5. Len(a) = i - 1 /\ Len(b) = Len(s) - i
    BY <2>1, <2>2 DEF a, b
  <2>6. DOMAIN (a \o b) = 1 .. Len(s) - 1
    BY <1>1, <2>4, <2>5
  <2>7. ASSUME NEW j \in 1 .. Len(s) - 1 PROVE (a \o b)[j] = s[at(j)]
    <3>0. i \in Int /\ j \in Int
      BY <1>1
    <3>1. CASE j < i
      BY <1>1, <2>1, <2>4, <2>5, <2>6, <3>1 DEF a
    <3>2. CASE j >= i
      <4>1. (a \o b)[j] = b[j - (i - 1)]
        <5>1. ~(j <= Len(a)) /\ j \in DOMAIN (a \o b)
          BY <2>5, <2>6, <3>0, <3>2
        <5> QED
          BY <2>4, <2>5, <5>1
      <4>2. j - (i - 1) \in 1 .. Len(s) - i /\ i + (j - (i - 1)) = j + 1
        BY <1>1, <3>2
      <4>3. b[j - (i - 1)] = s[j + 1]
        BY <2>2, <4>2 DEF b
      <4> QED
        BY <1>1, <3>2, <4>1, <4>3
    <3>3. j < i \/ j >= i
      BY <3>0
    <3> QED
      BY <3>1, <3>2, <3>3
  <2> QED
    BY <2>6, <2>7 DEF a, b
<1> HIDE DEF r
<1>3. \A j \in DOMAIN r : at(j) \in DOMAIN s \ {i}
  BY <1>1, <1>2
<1>4. \A j, k \in DOMAIN r : at(j) = at(k) => j = k
  BY <1>1, <1>2
<1>5. \A j \in DOMAIN s \ {i} : \E k \in DOMAIN r : at(k) = j
  <2> SUFFICES ASSUME NEW j \in DOMAIN s \ {i} PROVE \E k \in DOMAIN r : at(k) = j
    OBVIOUS
  <2>1. CASE j < i
    BY <1>1, <1>2, <2>1
  <2>2. CASE j > i
    <3>1. j - 1 \in DOMAIN r /\ at(j - 1) = j
      BY <1>1, <1>2, <2>2
    <3> QED
      BY <3>1
  <2> QED
    BY <1>1, <2>1, <2>2
<1> HIDE DEF at
<1>6. IsInjective(r)
  BY <1>2, <1>3, <1>4 DEF IsInjective
<1>7. Range(r) = Range(s) \ {s[i]}
  BY <1>2, <1>3, <1>5 DEF IsInjective, Range
<1> QED
  BY <1>6, <1>7 DEF r

\* A queue holds futures of its key that are not resolved yet, each once, and
\* among them all that are pending.
Lined ==
  \A k \in Key :
    /\ IsInjective(waiters[k])
    /\ \A t \in Range(waiters[k]) : key[t] = k /\ pc[t] \in {"queued", "cancelled"}
    /\ \A t \in Pending(k) : t \in Range(waiters[k])

\* The queues stay as they are, and so do the tasks in them.
LEMMA SameQueues ==
  ASSUME IInv, Lined, NEW t \in Task, pc[t] \notin {"queued", "cancelled"},
         waiters' = waiters, pc' \in [Task -> AwaitPoint],
         \A u \in Task \ {t} : pc'[u] = pc[u] /\ key'[u] = key[u],
         pc'[t] # "queued"
  PROVE  Lined'
<1>1. \A k \in Key : Range(waiters[k]) \subseteq Task
  BY DEF IInv, TypeOK, Range
<1> QED
  BY <1>1 DEF Lined, Pending

\* A task that queues, at the end or in front.
LEMMA ParkLined ==
  ASSUME IInv, Lined, NEW t \in Task, NEW k \in Key, pc[t] \in {"idle", "woken"},
         waiters' = [waiters EXCEPT ![k] = Append(@, t)]
         \/ waiters' = [waiters EXCEPT ![k] = <<t>> \o @],
         pc' = [pc EXCEPT ![t] = "queued"], key'[t] = k,
         \A u \in Task \ {t} : key'[u] = key[u]
  PROVE  Lined'
<1>1. /\ waiters \in [Key -> Seq(Task)] /\ pc \in [Task -> AwaitPoint]
      /\ \A l \in Key : Range(waiters[l]) \subseteq Task /\ t \notin Range(waiters[l])
  BY DEF IInv, TypeOK, Range, Lined
<1>2. /\ IsInjective(waiters'[k]) /\ Range(waiters'[k]) = Range(waiters[k]) \cup {t}
      /\ \A l \in Key \ {k} : waiters'[l] = waiters[l]
  <2>1. waiters[k] \in Seq(Task) /\ IsInjective(waiters[k])
    BY <1>1 DEF Lined
  <2>2. /\ waiters'[k] = Append(waiters[k], t) \/ waiters'[k] = <<t>> \o waiters[k]
        /\ \A l \in Key \ {k} : waiters'[l] = waiters[l]
    BY <1>1
  <2>3. /\ IsInjective(Append(waiters[k], t)) /\ IsInjective(<<t>> \o waiters[k])
        /\ Range(Append(waiters[k], t)) = Range(waiters[k]) \cup {t}
        /\ Range(<<t>> \o waiters[k]) = Range(waiters[k]) \cup {t}
    BY <1>1, <2>1, JoinQueue
  <2> QED
    BY <2>2, <2>3
<1>3. /\ pc'[t] = "queued" /\ key'[t] = k
      /\ \A u \in Task \ {t} : pc'[u] = pc[u] /\ key'[u] = key[u]
  BY <1>1
<1>4. \A l \in Key : IsInjective(waiters'[l])
  BY <1>2 DEF Lined
<1>5. \A l \in Key : \A u \in Range(waiters'[l]) :
        (u \in Range(waiters[l]) /\ u \in Task \ {t}) \/ (u = t /\ l = k)
  BY <1>1, <1>2
<1>6. \A l \in Key : \A u \in Task :
        pc'[u] = "queued" /\ key'[u] = l => u \in Range(waiters'[l])
  BY <1>2, <1>3 DEF Lined, Pending
<1> QED
  BY <1>3, <1>4, <1>5, <1>6 DEF Lined, Pending

\* Releasing a slot wakes the first pending future; only resolved ones are
\* dropped with it.
LEMMA ReleaseLined ==
  ASSUME IInv, Lined, NEW t \in Task, NEW slot, pc[t] \in InUse, ReleaseAcquired(t, slot)
  PROVE  Lined'
<1>1. key' = [key EXCEPT ![t] = NoKey]
  BY DEF ReleaseAcquired
<1>2. CASE waiters' = waiters /\ pc' = [pc EXCEPT ![t] = "idle"]
  BY <1>1, <1>2, SameQueues DEF IInv, TypeOK
<1>3. ASSUME NEW k \in Key, NEW i \in FirstPending(waiters[k]),
             waiters' = [waiters EXCEPT ![k] = SubSeq(waiters[k], i + 1, Len(waiters[k]))],
             pc' = [pc EXCEPT ![t] = "idle", ![waiters[k][i]] = "woken"]
      PROVE  Lined'
  <2> DEFINE gone == {waiters[k][j] : j \in 1 .. i}
  <2>1. /\ waiters \in [Key -> Seq(Task)] /\ pc \in [Task -> AwaitPoint]
        /\ key \in [Task -> Key \cup {NoKey}] /\ i \in DOMAIN waiters[k]
        /\ \A l \in Key : Range(waiters[l]) \subseteq Task
    BY DEF IInv, TypeOK, FirstPending, Range
  <2>2. /\ IsInjective(waiters'[k]) /\ Range(waiters'[k]) = Range(waiters[k]) \ gone
        /\ \A l \in Key \ {k} : waiters'[l] = waiters[l]
    <3>1. waiters[k] \in Seq(Task) /\ IsInjective(waiters[k])
      BY <2>1 DEF Lined
    <3> QED
      BY <1>3, <2>1, <3>1, DropFirst
  <2>3. \A u \in gone : u = waiters[k][i] \/ pc[u] # "queued"
    <3>1. i \in Nat /\ \A j \in 1 .. i - 1 : pc[waiters[k][j]] # "queued"
      BY <2>1 DEF FirstPending
    <3> QED
      BY <3>1
  <2>4. waiters[k][i] \in gone /\ key[waiters[k][i]] = k /\ waiters[k][i] \in Task \ {t}
    <3>1. i \in 1 .. i /\ waiters[k][i] \in Range(waiters[k])
      BY <2>1 DEF Range
    <3> QED
      BY <2>1, <3>1 DEF Lined
  <2> DEFINE w == waiters[k][i]
  <2>5. /\ pc'[w] = "woken" /\ pc'[t] = "idle"
        /\ \A u \in Task \ {t, w} : pc'[u] = pc[u] /\ key'[u] = key[u]
    BY <1>1, <1>3, <2>1, <2>4
  <2>6. \A l \in Key : t \notin Range(waiters[l])
    BY DEF Lined
  <2>7. \A l \in Key \ {k} : w \notin Range(waiters[l])
    BY <2>4 DEF Lined
  <2> HIDE DEF gone, w
  <2>8. w \in gone
    BY <2>4 DEF w
  <2>9. \A l \in Key : \A u \in Range(waiters'[l]) :
           u \in Range(waiters[l]) /\ u \in Task \ {t, w} /\ (l = k => u \notin gone)
    BY <2>1, <2>2, <2>6, <2>7, <2>8
  <2>10. \A l \in Key, u \in Task : pc'[u] = "queued" /\ key'[u] = l =>
           u \in Task \ {t, w} /\ u \in Range(waiters[l]) /\ u \notin gone
    BY <2>3, <2>5 DEF Lined, Pending, w
  <2>11. \A l \in Key : IsInjective(waiters'[l])
    BY <2>2 DEF Lined
  <2> QED
    BY <2>2, <2>5, <2>9, <2>10, <2>11 DEF Lined, Pending
<1> QED
  BY <1>2, <1>3 DEF ReleaseAcquired, ReleaseWaiter

\* A cancelled task takes its future out of the queue.
LEMMA UnwindLined ==
  ASSUME IInv, Lined, NEW t \in Task, Unwind(t)
  PROVE  Lined'
<1> DEFINE k == key[t]
<1>1. /\ k \in Key /\ pc[t] = "cancelled" /\ pc' = [pc EXCEPT ![t] = "idle"]
      /\ key' = [key EXCEPT ![t] = NoKey]
      /\ waiters \in [Key -> Seq(Task)] /\ pc \in [Task -> AwaitPoint]
      /\ key \in [Task -> Key \cup {NoKey}]
      /\ \A l \in Key : Range(waiters[l]) \subseteq Task
  BY SetsAssumption DEF Unwind, IInv, TypeOK, Range
<1>2. /\ IsInjective(waiters'[k]) /\ Range(waiters'[k]) = Range(waiters[k]) \ {t}
      /\ \A l \in Key \ {k} : waiters'[l] = waiters[l]
  <2>1. waiters[k] \in Seq(Task) /\ IsInjective(waiters[k])
    BY <1>1 DEF Lined
  <2>2. CASE (\A i \in DOMAIN waiters[k] : waiters[k][i] # t) /\ waiters' = waiters
    BY <2>1, <2>2 DEF Range
  <2>3. ASSUME NEW i \in DOMAIN waiters[k], waiters[k][i] = t,
               waiters' = [waiters EXCEPT ![k] = SubSeq(waiters[k], 1, i - 1)
                                                   \o SubSeq(waiters[k], i + 1, Len(waiters[k]))]
        PROVE  /\ IsInjective(waiters'[k]) /\ Range(waiters'[k]) = Range(waiters[k]) \ {t}
               /\ \A l \in Key \ {k} : waiters'[l] = waiters[l]
    BY <1>1, <2>1, <2>3, LeaveQueue
  <2> QED
    BY <2>2, <2>3 DEF Unwind
<1>3. \A l \in Key \ {k} : t \notin Range(waiters[l])
  BY DEF Lined
<1> HIDE DEF k
<1> QED
  BY <1>1, <1>2, <1>3 DEF Lined, Pending

\* Every step keeps the queues.
LEMMA NextLined == IInv /\ Lined /\ [Next]_vars => Lined'
<1> SUFFICES ASSUME IInv, Lined, [Next]_vars PROVE Lined'
  OBVIOUS
<1> USE DEF TypeOK
<1>0. \A k \in Key : Range(waiters[k]) \subseteq Task
  BY DEF IInv, Range
<1>1. ASSUME NEW t \in Task, NEW k \in Key, Connect(t, k) PROVE Lined'
  <2>1. /\ pc[t] = "idle" /\ key'[t] = k /\ \A u \in Task \ {t} : key'[u] = key[u]
    BY <1>1 DEF Connect, IInv
  <2>2. CASE waiters' = waiters /\ \E p \in {"creating", "reusing", "holding"} :
                                     pc' = [pc EXCEPT ![t] = p]
    BY <2>1, <2>2, SameQueues DEF IInv
  <2> QED
    BY <1>1, <2>1, <2>2, ParkLined DEF Connect, TakeIdle, Reserve
<1>2. ASSUME NEW t \in Task, Resume(t) PROVE Lined'
  <2>1. pc[t] = "woken" /\ key[t] \in Key /\ key' = key
    BY <1>2, SetsAssumption DEF Resume, IInv
  <2>2. CASE /\ waiters' = [waiters EXCEPT ![key[t]] = <<t>> \o @]
             /\ pc' = [pc EXCEPT ![t] = "queued"]
    BY <2>1, <2>2, ParkLined
  <2>3. CASE waiters' = waiters /\ \E p \in {"creating", "reusing", "holding"} :
                                     pc' = [pc EXCEPT ![t] = p]
    BY <2>1, <2>3, SameQueues DEF IInv
  <2> QED
    BY <1>2, <2>2, <2>3 DEF Resume, TakeIdle, Reserve
<1>3. ASSUME NEW t \in Task, Cancel(t) PROVE Lined'
  <2>1. pc[t] = "queued" /\ pc' = [pc EXCEPT ![t] = "cancelled"] /\ UNCHANGED <<waiters, key>>
    BY <1>3 DEF Cancel
  <2> QED
    BY <1>0, <2>1 DEF Lined, Pending, IInv
<1>4. ASSUME NEW t \in Task, CancelAfterWake(t) PROVE Lined'
  BY <1>4, SameQueues DEF CancelAfterWake, IInv
<1>5. ASSUME NEW t \in Task, Establish(t) \/ TraceDone(t) PROVE Lined'
  <2>1. /\ pc[t] \in {"creating", "created", "reusing"} /\ waiters' = waiters
        /\ pc' \in [Task -> AwaitPoint] /\ pc'[t] # "queued"
        /\ \A u \in Task \ {t} : pc'[u] = pc[u] /\ key'[u] = key[u]
    BY <1>5 DEF Establish, TraceDone, Adopt, IInv
  <2> QED
    BY <2>1, SameQueues
<1>6. ASSUME NEW t \in Task, FailCreate(t) \/ FailReuse(t) \/ Release(t) PROVE Lined'
  BY <1>6, ReleaseLined DEF FailCreate, FailReuse, Release
<1>7. CASE Close
  <2>1. \A k \in Key : waiters'[k] = <<>> /\ Pending(k)' = {}
    BY <1>7 DEF Close, Pending
  <2>2. \A k \in Key : DOMAIN waiters'[k] = {}
    BY <2>1
  <2> QED
    BY <2>1, <2>2 DEF Lined, Range, IsInjective
<1>8. CASE Cleanup \/ (\E c \in Conn : Expire(c) \/ Lose(c)) \/ UNCHANGED vars
  BY <1>8 DEF Cleanup, Expire, Lose, vars, Lined, Pending
<1> QED
  BY <1>1, <1>2, <1>3, <1>4, <1>5, <1>6, <1>7, <1>8, UnwindLined DEF Next, TaskStep

\* The queues of a new connector are empty.
LEMMA InitLined == Init => Lined
<1> SUFFICES ASSUME Init PROVE Lined
  OBVIOUS
<1>1. \A k \in Key : waiters[k] = <<>> /\ Pending(k) = {}
  BY DEF Init, Pending
<1>2. \A k \in Key : DOMAIN waiters[k] = {}
  BY <1>1
<1> QED
  BY <1>1, <1>2 DEF Lined, Range, IsInjective

\* Every parked task is in the queue of its key once, and nobody else is but
\* tasks that were cancelled there and have not run since.
THEOREM QueuesAreExact == Spec => []QueuedOnce
<1>1. Lined => QueuedOnce
  BY DEF Lined, QueuedOnce, Range, IsInjective
<1> QED
  BY <1>1, InitLined, NextLined, InvariantHolds, PTL DEF Spec

-----------------------------------------------------------------------------
(* Wake-ups. *)

\* A queue with a pending future has a first one.
LEMMA FirstExists ==
  ASSUME IInv, Lined, NEW k \in Key, Pending(k) # {}
  PROVE  FirstPending(waiters[k]) # {}
<1> DEFINE q == waiters[k]
           P == {i \in DOMAIN q : pc[q[i]] = "queued"}
<1>1. DOMAIN q = 1 .. Len(q) /\ Len(q) \in Nat
  BY DEF IInv, TypeOK
<1>2. P # {}
  BY DEF Lined, Pending, Range
<1>3. PICK i \in P : \A j \in P : ~ (j < i)
  <2> DEFINE N == 1 .. Len(q)
             T == {1 .. i : i \in P}
  <2>1. IsFiniteSet(N) /\ \A i \in N : 1 .. i \in SUBSET N
    BY <1>1, FS_Interval
  <2>2. T \subseteq FiniteSubsetsOf(N) /\ T # {}
    BY <1>1, <1>2, <2>1, FS_Subset DEF FiniteSubsetsOf
  <2>3. PICK I \in T : \A J \in T : ~ (<<J, I>> \in StrictSubsetOrdering(N))
    <3> HIDE DEF T, N
    <3> QED
      BY <2>1, <2>2, FS_StrictSubsetOrderingWellFounded, WFMin
  <2>4. PICK i \in P : I = 1 .. i
    OBVIOUS
  <2>5. ASSUME NEW j \in P, j < i PROVE FALSE
    <3>1. 1 .. j \subseteq 1 .. i /\ i \in 1 .. i /\ i \notin 1 .. j
      BY <1>1, <2>5
    <3>2. <<1 .. j, I>> \in StrictSubsetOrdering(N)
      BY <1>1, <2>1, <2>4, <3>1 DEF StrictSubsetOrdering
    <3> QED
      BY <2>3, <3>2
  <2> QED
    BY <2>5
<1>4. \A j \in P : ~ (j < i)
  BY <1>3
<1>5. i \in FirstPending(q)
  BY <1>1, <1>4 DEF FirstPending
<1> QED
  BY <1>5

\* Tasks that occupy a slot or are on their way to one.
Served == {t \in Task : pc[t] \in InUse}
Moving == {t \in Task : pc[t] \in InUse \cup {"woken"}}

\* The slots that are taken are as many as the tasks in use.
LEMMA SlotsAreUsers ==
  ASSUME IInv, ~closed
  PROVE  /\ IsFiniteSet(Served) /\ IsFiniteSet(acquired)
         /\ Cardinality(Served) \in Nat /\ Cardinality(acquired) = Cardinality(Served)
<1>1. acquired = {Slot(t) : t \in Served}
  BY DEF IInv, SlotsMatchUse, Served
<1>2. IsFiniteSet(Served)
  BY SetsAssumption, FS_Subset DEF Served
<1>3. \A t, u \in Served : t # u => Slot(t) # Slot(u)
  BY SlotsDiffer DEF IInv, Served
<1> DEFINE f == [t \in Served |-> Slot(t)]
           g == [a \in acquired |-> CHOOSE t \in Served : Slot(t) = a]
<1>4. f \in [Served -> acquired] /\ \A t, u \in Served : t # u => f[t] # f[u]
  BY <1>1, <1>3
<1>5. g \in [acquired -> Served] /\ \A a, b \in acquired : a # b => g[a] # g[b]
  BY <1>1
<1> HIDE DEF f, g
<1>6. IsFiniteSet(acquired) /\ Cardinality(acquired) <= Cardinality(Served)
  BY <1>2, <1>5, CountByImage
<1>7. Cardinality(Served) <= Cardinality(acquired)
  BY <1>4, <1>6, CountByImage
<1> QED
  BY <1>2, <1>6, <1>7, FS_CardinalityType

\* The places in use and promised.
LEMMA MovingCounted ==
  ASSUME IInv, ~closed
  PROVE  /\ IsFiniteSet(Moving) /\ Cardinality(Moving) \in Nat /\ Cardinality(Woken) \in Nat
         /\ Cardinality(Moving) = Cardinality(acquired) + Cardinality(Woken)
<1>1. IsFiniteSet(Woken) /\ IsFiniteSet(Served)
  BY SetsAssumption, FS_Subset DEF Woken, Served
<1>2. Served \cap Woken = {} /\ Moving = Served \cup Woken
  BY DEF Woken, Served, Moving
<1>3. Cardinality(Served \cap Woken) = 0
  BY <1>2, FS_EmptySet
<1> QED
  <2>1. /\ IsFiniteSet(Moving)
        /\ Cardinality(Moving)
             = Cardinality(Served) + Cardinality(Woken) - Cardinality(Served \cap Woken)
    BY <1>1, <1>2, FS_Union
  <2>2. /\ Cardinality(Moving) \in Nat /\ Cardinality(Woken) \in Nat
        /\ Cardinality(Served) \in Nat
    BY <1>1, <2>1, FS_CardinalityType
  <2> QED
    BY <1>3, <2>1, <2>2, SlotsAreUsers

\* The same in the next state.
LEMMA MovingCountedNext ==
  IInv' /\ ~closed' => /\ Cardinality(Moving') \in Nat /\ Cardinality(acquired') \in Nat
                       /\ Cardinality(acquired') <= Cardinality(Moving')
<1>1. IInv /\ ~closed => /\ Cardinality(Moving) \in Nat /\ Cardinality(acquired) \in Nat
                        /\ Cardinality(acquired) <= Cardinality(Moving)
  BY MovingCounted, SlotsAreUsers
<1>2. (IInv /\ ~closed => /\ Cardinality(Moving) \in Nat /\ Cardinality(acquired) \in Nat
                         /\ Cardinality(acquired) <= Cardinality(Moving))'
  BY <1>1, PTL
<1> QED
  BY <1>2

\* While a task waits, the limit is used up by the places in use and promised.
UsedUp ==
  ~closed => \A k \in Key : Pending(k) # {} => Limit > 0 /\ Limit <= Cardinality(Moving)

\* A step after which no more tasks wait, and as many are on their way.
LEMMA SameMoving ==
  ASSUME UsedUp, closed' = closed, Moving' = Moving,
         \A u \in Task : pc'[u] = "queued" => pc[u] = "queued" /\ key'[u] = key[u]
  PROVE  UsedUp'
BY DEF UsedUp, Pending

\* Giving back a slot wakes a task, unless none waits where a place is free.
LEMMA ReleaseUsedUp ==
  ASSUME IInv, IInv', Lined, UsedUp, LimitPerHost = 0, NEW t \in Task, NEW slot,
         pc[t] \in InUse, ReleaseAcquired(t, slot), closed' = closed
  PROVE  UsedUp'
<1> SUFFICES ASSUME ~closed PROVE UsedUp'
  BY DEF UsedUp
<1>1. key' = [key EXCEPT ![t] = NoKey] /\ pc \in [Task -> AwaitPoint]
      /\ key \in [Task -> Key \cup {NoKey}]
  BY DEF ReleaseAcquired, IInv, TypeOK
<1>2. ASSUME NEW k \in Key, NEW i \in FirstPending(waiters[k]),
             pc' = [pc EXCEPT ![t] = "idle", ![waiters[k][i]] = "woken"]
      PROVE  UsedUp'
  <2> DEFINE w == waiters[k][i]
  <2>1. w \in Task \ {t} /\ pc[w] = "queued"
    BY DEF FirstPending, IInv, TypeOK
  <2>2. Moving' = (Moving \ {t}) \cup {w} /\ t \in Moving /\ w \notin Moving \ {t}
    BY <1>1, <1>2, <2>1 DEF Moving
  <2>3. IsFiniteSet(Moving) /\ Cardinality(Moving) \in Nat
    BY MovingCounted
  <2>4. Cardinality(Moving') = Cardinality(Moving)
    <3>1. IsFiniteSet(Moving \ {t}) /\ Cardinality(Moving \ {t}) = Cardinality(Moving) - 1
      BY <2>2, <2>3, FS_RemoveElement
    <3>2. Cardinality((Moving \ {t}) \cup {w}) = Cardinality(Moving \ {t}) + 1
      BY <2>2, <3>1, FS_AddElement
    <3> QED
      BY <2>2, <2>3, <3>1, <3>2
  <2>5. \A u \in Task : pc'[u] = "queued" => pc[u] = "queued" /\ key'[u] = key[u]
    BY <1>1, <1>2, <2>1
  <2> QED
    BY <2>4, <2>5 DEF UsedUp, Pending
<1>3. ASSUME pc' = [pc EXCEPT ![t] = "idle"],
             \A k \in Key : \/ FirstPending(waiters[k]) = {}
                            \/ ~ (Available(acquired', perHost', k) >= 1)
      PROVE  UsedUp'
  <2> SUFFICES ASSUME NEW k \in Key, Pending(k)' # {}
               PROVE  Limit > 0 /\ Limit <= Cardinality(Moving')
    BY DEF UsedUp
  <2>1. Pending(k) # {}
    BY <1>1, <1>3 DEF Pending
  <2>2. ~ (Available(acquired', perHost', k) >= 1)
    BY <1>3, <2>1, FirstExists
  <2>3. Limit > 0 /\ Cardinality(acquired') \in Nat /\ Limit <= Cardinality(acquired')
    <3>1. IsFiniteSet(acquired')
      BY SetsAssumption, FS_Subset, FS_Union DEF IInv, TypeOK
    <3>2. Cardinality(acquired') \in Nat
      BY <3>1, FS_CardinalityType
    <3> QED
      BY <2>2, <3>2, LimitsAssumption DEF Available
  <2>4. Cardinality(Moving') \in Nat /\ Cardinality(acquired') <= Cardinality(Moving')
    BY <2>3, MovingCountedNext
  <2> QED
    BY <2>3, <2>4, LimitsAssumption
<1> QED
  BY <1>2, <1>3 DEF ReleaseAcquired, ReleaseWaiter

\* Every step keeps the limit used up while a task waits.
LEMMA NextUsedUp ==
  ASSUME LimitPerHost = 0, ~CancelWoken, IInv, IInv', Lined, UsedUp, [Next]_vars
  PROVE  UsedUp'
<1>0. /\ pc \in [Task -> AwaitPoint] /\ key \in [Task -> Key \cup {NoKey}]
  BY DEF IInv, TypeOK
\* A task that takes a place: from idle, or from the promise it had.
<1>1. ASSUME NEW t \in Task, pc[t] \in {"idle", "woken"}, pc'[t] \in InUse, closed' = closed,
             \A u \in Task \ {t} : pc'[u] = pc[u] /\ key'[u] = key[u]
      PROVE  UsedUp'
  <2> SUFFICES ASSUME ~closed PROVE UsedUp'
    BY <1>1 DEF UsedUp
  <2>1. Moving \subseteq Moving'
    BY <1>1 DEF Moving
  <2>2. IsFiniteSet(Moving')
    BY SetsAssumption, FS_Subset DEF Moving
  <2>3. Cardinality(Moving) <= Cardinality(Moving') /\ Cardinality(Moving) \in Nat
        /\ Cardinality(Moving') \in Nat
    BY <2>1, <2>2, FS_Subset, FS_CardinalityType
  <2>4. \A k \in Key : Pending(k)' \subseteq Pending(k)
    BY <1>1 DEF Pending
  <2>5. \A k \in Key : Pending(k)' # {} => Pending(k) # {}
    BY <2>4
  <2> QED
    BY <1>1, <2>3, <2>5, LimitsAssumption DEF UsedUp
\* A task that queues because nothing is available.
<1>2. ASSUME NEW t \in Task, NEW k \in Key, Available(acquired, perHost, k) <= 0,
             pc[t] \in {"idle", "woken"}, pc'[t] = "queued",
             closed' = closed, acquired' = acquired
      PROVE  UsedUp'
  <2> SUFFICES ASSUME ~closed PROVE UsedUp'
    BY <1>2 DEF UsedUp
  <2>1. Limit > 0 /\ Cardinality(acquired) \in Nat /\ Limit <= Cardinality(acquired)
    BY <1>2, LimitsAssumption, SlotsAreUsers DEF Available
  <2>2. Cardinality(Moving') \in Nat /\ Cardinality(acquired') <= Cardinality(Moving')
    BY <1>2, MovingCountedNext
  <2> QED
    BY <1>2, <2>1, <2>2, LimitsAssumption DEF UsedUp
<1>3. ASSUME NEW t \in Task, NEW k \in Key, Connect(t, k) PROVE UsedUp'
  <2>1. /\ pc[t] = "idle" /\ closed' = closed /\ \A u \in Task \ {t} : key'[u] = key[u]
    BY <1>0, <1>3 DEF Connect
  <2>2. CASE \E p \in {"creating", "reusing", "holding"} : pc' = [pc EXCEPT ![t] = p]
    BY <1>0, <1>1, <2>1, <2>2
  <2>3. CASE /\ Available(acquired, perHost, k) <= 0 /\ pc' = [pc EXCEPT ![t] = "queued"]
             /\ acquired' = acquired
    BY <1>0, <1>2, <2>1, <2>3
  <2> QED
    BY <1>3, <2>2, <2>3 DEF Connect, TakeIdle, Reserve
<1>4. ASSUME NEW t \in Task, Resume(t) PROVE UsedUp'
  <2>1. pc[t] = "woken" /\ key[t] \in Key /\ key' = key /\ closed' = closed
    BY <1>4, SetsAssumption DEF Resume, IInv, TypeOK
  <2>2. CASE \E p \in {"creating", "reusing", "holding"} : pc' = [pc EXCEPT ![t] = p]
    BY <1>0, <1>1, <2>1, <2>2
  <2>3. CASE /\ Available(acquired, perHost, key[t]) <= 0 /\ pc' = [pc EXCEPT ![t] = "queued"]
             /\ acquired' = acquired
    BY <1>0, <1>2, <2>1, <2>3
  <2> QED
    BY <1>4, <2>2, <2>3 DEF Resume, TakeIdle, Reserve
<1>5. ASSUME NEW t \in Task, Cancel(t) \/ Unwind(t) PROVE UsedUp'
  <2>1. /\ closed' = closed /\ pc[t] \in {"queued", "cancelled"}
        /\ pc'[t] \in {"cancelled", "idle"}
        /\ \A u \in Task \ {t} : pc'[u] = pc[u] /\ key'[u] = key[u]
    BY <1>0, <1>5 DEF Cancel, Unwind
  <2>2. Moving' = Moving
    BY <1>0, <2>1 DEF Moving
  <2> QED
    BY <2>1, <2>2, SameMoving
<1>6. ASSUME NEW t \in Task, Establish(t) \/ TraceDone(t) PROVE UsedUp'
  <2> SUFFICES ASSUME ~closed PROVE UsedUp'
    BY <1>6 DEF UsedUp, Establish, TraceDone
  <2>1. /\ closed' = closed /\ pc[t] \in InUse /\ pc'[t] \in InUse
        /\ \A u \in Task \ {t} : pc'[u] = pc[u] /\ key'[u] = key[u]
    BY <1>0, <1>6 DEF Establish, TraceDone, Adopt
  <2>2. Moving' = Moving
    BY <1>0, <2>1 DEF Moving
  <2> QED
    BY <2>1, <2>2, SameMoving
<1>7. ASSUME NEW t \in Task, FailCreate(t) \/ FailReuse(t) \/ Release(t) PROVE UsedUp'
  BY <1>7, ReleaseUsedUp DEF FailCreate, FailReuse, Release
<1>8. CASE Close
  BY <1>8 DEF Close, UsedUp
<1>9. CASE Cleanup \/ (\E c \in Conn : Expire(c) \/ Lose(c)) \/ UNCHANGED vars
  BY <1>9 DEF Cleanup, Expire, Lose, vars, UsedUp, Pending, Moving
<1> QED
  BY <1>3, <1>4, <1>5, <1>6, <1>7, <1>8, <1>9 DEF Next, TaskStep, CancelAfterWake

\* Under a total limit alone, and if nobody is cancelled after a wake-up, a free
\* slot is matched by a woken task for as long as somebody waits.
THEOREM NoWakeUpIsLost == LimitPerHost = 0 /\ ~CancelWoken => (Spec => []NoLostSlot)
<1> SUFFICES ASSUME LimitPerHost = 0, ~CancelWoken PROVE Spec => []NoLostSlot
  OBVIOUS
<1>1. Init => Lined /\ UsedUp
  <2> SUFFICES ASSUME Init PROVE Lined /\ UsedUp
    OBVIOUS
  <2>1. \A k \in Key : Pending(k) = {}
    BY DEF Init, Pending
  <2> QED
    BY <2>1, InitLined DEF UsedUp
<1>2. IInv /\ UsedUp => NoLostSlot
  <2> SUFFICES ASSUME IInv, UsedUp, ~closed, NEW k \in Key, Pending(k) # {}
               PROVE  Available(acquired, perHost, k) <= Cardinality(Woken)
    BY DEF NoLostSlot
  <2> QED
    BY MovingCounted, SlotsAreUsers, LimitsAssumption DEF UsedUp, Available
<1>3. IInv /\ IInv' /\ Lined /\ UsedUp /\ [Next]_vars => Lined' /\ UsedUp'
  BY NextLined, NextUsedUp
<1> QED
  BY <1>1, <1>2, <1>3, InvariantHolds, PTL DEF Spec

-----------------------------------------------------------------------------
(* New connections. *)

\* A reservation made while a place is available stays within both limits.
LEMMA ReserveFits ==
  ASSUME IInv, NEW t \in Task, NEW k \in Key, Available(acquired, perHost, k) > 0,
         DropIdle(k), Reserve(t, k)
  PROVE  /\ Limit > 0 => Cardinality(acquired') <= Limit
         /\ LimitPerHost > 0 => Cardinality(perHost'[k]) <= LimitPerHost
         /\ idle'[k] = {}
<1>1. /\ acquired' = acquired \cup {t}
      /\ LimitPerHost > 0 => perHost'[k] = perHost[k] \cup {t}
      /\ idle'[k] = {}
  BY DEF IInv, TypeOK, DropIdle, Reserve, Acquire
<1>2. IsFiniteSet(Task \cup Conn) /\ acquired \subseteq Task \cup Conn
      /\ perHost[k] \subseteq Task \cup Conn
  BY SetsAssumption, FS_Union DEF IInv, TypeOK
<1>3. IsFiniteSet(acquired) /\ IsFiniteSet(perHost[k])
  BY <1>2, FS_Subset
<1>4. Cardinality(acquired) \in Nat /\ Cardinality(perHost[k]) \in Nat
  BY <1>3, FS_CardinalityType
<1>5. /\ Limit > 0 => Cardinality(acquired) < Limit
      /\ LimitPerHost > 0 => Cardinality(perHost[k]) < LimitPerHost
  BY <1>4, LimitsAssumption DEF Available
<1>6. Limit > 0 => Cardinality(acquired') <= Limit
  BY <1>1, <1>3, <1>4, <1>5, LimitsAssumption, GrowByOne
<1>7. LimitPerHost > 0 => Cardinality(perHost'[k]) <= LimitPerHost
  BY <1>1, <1>3, <1>4, <1>5, LimitsAssumption, GrowByOne
<1> QED
  BY <1>1, <1>6, <1>7

\* A new connection is begun only where both limits leave room for it and no
\* idle transport could be used.
THEOREM NewConnectionsFit == Spec => NewConnectionWithinLimit
<1> DEFINE Fits(t) ==
      pc'[t] = "creating" /\ pc[t] # "creating" =>
        /\ Limit > 0 => Cardinality(acquired') <= Limit
        /\ LimitPerHost > 0 => Cardinality(perHost'[key'[t]]) <= LimitPerHost
        /\ idle'[key'[t]] = {}
<1>1. ASSUME IInv, [Next]_vars, NEW t \in Task PROVE Fits(t)
  <2> SUFFICES ASSUME pc'[t] = "creating", pc[t] # "creating" PROVE Fits(t)
    OBVIOUS
  <2> USE <1>1 DEF IInv, TypeOK
  <2>1. ASSUME NEW u \in Task, NEW k \in Key, Connect(u, k) PROVE Fits(t)
    <3>1. u = t /\ key'[t] = k /\ DropIdle(k) /\ Available(acquired, perHost, k) > 0
          /\ Reserve(t, k)
      BY <2>1 DEF Connect, TakeIdle, Reserve
    <3> QED
      BY <3>1, ReserveFits
  <2>2. ASSUME NEW u \in Task, Resume(u) PROVE Fits(t)
    <3>1. u = t /\ key'[t] = key[t] /\ key[t] \in Key /\ DropIdle(key[t])
          /\ Available(acquired, perHost, key[t]) > 0 /\ Reserve(t, key[t])
      BY <2>2, SetsAssumption DEF Resume, TakeIdle, Reserve
    <3> QED
      BY <3>1, ReserveFits
  <2>3. ASSUME NEW u \in Task, Cancel(u) \/ Unwind(u) \/ CancelAfterWake(u) PROVE FALSE
    BY <2>3 DEF Cancel, Unwind, CancelAfterWake
  <2>4. ASSUME NEW u \in Task, Establish(u) \/ TraceDone(u) PROVE FALSE
    BY <2>4 DEF Establish, TraceDone, Adopt
  <2>5. ASSUME NEW u \in Task, FailCreate(u) \/ FailReuse(u) \/ Release(u) PROVE FALSE
    <3>1. pc[u] \in InUse /\ \E slot : ReleaseAcquired(u, slot)
      BY <2>5 DEF FailCreate, FailReuse, Release
    <3>2. pc'[u] = "idle"
          /\ \A v \in Task : v # u => pc'[v] = pc[v] \/ pc'[v] = "woken"
      BY <3>1, ReleaseAcquiredEffect
    <3> QED
      BY <3>2
  <2>6. CASE Close
    BY <2>6 DEF Close
  <2>7. CASE Cleanup \/ (\E c \in Conn : Expire(c) \/ Lose(c)) \/ UNCHANGED vars
    BY <2>7 DEF Cleanup, Expire, Lose, vars
  <2> QED
    BY <2>1, <2>2, <2>3, <2>4, <2>5, <2>6, <2>7 DEF Next, TaskStep
<1> QED
  <2>1. IInv /\ [Next]_vars => [\A t \in Task : Fits(t)]_vars
    BY <1>1
  <2> QED
    BY <2>1, InvariantHolds, PTL DEF Spec, NewConnectionWithinLimit

-----------------------------------------------------------------------------
(***************************************************************************)
(* The refinement.  The pool implements LeasePool: each step is a step of  *)
(* LeasePool or leaves its variables alone.                                *)
(***************************************************************************)

\* The string that stands for a transport being opened is no transport.
OpeningIsApart == "opening" \notin Conn \cup {NoConn}

\* The two variables of LeasePool that are not variables of the pool.
LeaseMap == [t \in Task |-> LeaseOf(t)]
TargetOf(t) == IF LeaseOf(t) = NoConn THEN NoKey ELSE key[t]
TargetMap == [t \in Task |-> TargetOf(t)]

\* What LeasePool sees of a task: nothing unless it has a slot.
LEMMA LeaseMeaning ==
  ASSUME TypeOK, OpeningIsApart, NEW t \in Task
  PROVE  /\ LeaseOf(t) = NoConn <=> pc[t] \notin InUse
         /\ TargetOf(t) = IF pc[t] \in InUse THEN key[t] ELSE NoKey
         /\ LeaseOf(t) = "opening" <=> pc[t] \in {"creating", "created"}
         /\ pc[t] \in {"reusing", "holding"} => LeaseOf(t) = conn[t] /\ conn[t] \in Conn
  BY DEF TypeOK, OpeningIsApart, LeaseOf, TargetOf

\* A step that changes at most what one task has, and wakes or cancels others.
LEMMA OneTask ==
  ASSUME TypeOK, TypeOK', OpeningIsApart, NEW t \in Task,
         \A u \in Task : u # t =>
           /\ key'[u] = key[u] /\ conn'[u] = conn[u]
           /\ pc'[u] = pc[u] \/ (pc[u] = "queued" /\ pc'[u] = "woken")
  PROVE  /\ LeaseMap' = [LeaseMap EXCEPT ![t] = LeaseOf(t)']
         /\ TargetMap' = [TargetMap EXCEPT ![t] = TargetOf(t)']
<1>1. \A u \in Task : u # t => LeaseOf(u)' = LeaseOf(u) /\ TargetOf(u)' = TargetOf(u)
  BY DEF LeaseOf, TargetOf
<1> QED
  BY <1>1 DEF LeaseMap, TargetMap

\* A step that starts and ends no lease.
LEMMA NoTask ==
  ASSUME TypeOK, TypeOK', OpeningIsApart,
         \A u \in Task :
           \/ /\ pc[u] \notin InUse /\ pc'[u] \notin InUse
           \/ /\ pc[u] \in InUse /\ pc'[u] \in InUse /\ key'[u] = key[u]
              /\ LeaseOf(u)' = LeaseOf(u)
  PROVE  UNCHANGED <<LeaseMap, TargetMap>>
<1>1. \A u \in Task : LeaseOf(u)' = LeaseOf(u) /\ TargetOf(u)' = TargetOf(u)
  BY DEF LeaseOf, TargetOf, TypeOK
<1> QED
  BY <1>1 DEF LeaseMap, TargetMap

\* The users of a key are LeasePool's leases for it.
LEMMA SameLeases ==
  ASSUME TypeOK, OpeningIsApart, NEW k \in Key
  PROVE  Lease!Leases(k) = Users(k)
<1>1. \A t \in Task : TargetMap[t] = k <=> key[t] = k /\ pc[t] \in InUse
  BY LeaseMeaning, SetsAssumption DEF TargetMap
<1> QED
  BY <1>1 DEF Users, Lease!Leases, TargetMap, TargetOf

\* The instance counts as its user does.
LEMMA SameCardinality ==
  ASSUME NEW S
  PROVE  Lease!Cardinality(S) = Cardinality(S)
  BY DEF Lease!Cardinality, Cardinality

\* Taking an idle transport.
LEMMA TakeIdleStep ==
  ASSUME IInv, IInv', OpeningIsApart, NEW t \in Task, NEW k \in Key,
         pc[t] \in {"idle", "woken"}, TakeIdle(t, k),
         key' = [key EXCEPT ![t] = k], closed' = closed
  PROVE  Lease!Reuse(t, k)
<1>1. PICK c \in Usable(k), lost \in SUBSET (idle[k] \ open) :
        /\ idle' = [idle EXCEPT ![k] = @ \ (lost \cup (idle[k] \cap stale) \cup {c})]
        /\ conn' = [conn EXCEPT ![t] = c]
        /\ pc' = [pc EXCEPT ![t] = IF Traced THEN "reusing" ELSE "holding"]
  BY DEF TakeIdle
<1>2. /\ LeaseMap' = [LeaseMap EXCEPT ![t] = LeaseOf(t)']
      /\ TargetMap' = [TargetMap EXCEPT ![t] = TargetOf(t)']
  BY <1>1, OneTask DEF IInv, TypeOK
<1>3. LeaseOf(t)' = c /\ TargetOf(t)' = k /\ c \in idle[k] /\ c \in Conn
  BY <1>1, SetsAssumption DEF LeaseOf, TargetOf, Usable, IInv, TypeOK
<1>4. LeaseMap[t] = NoConn
  BY LeaseMeaning DEF LeaseMap, IInv
<1>5. \E rest \in SUBSET idle[k] : c \notin rest /\ idle' = [idle EXCEPT ![k] = rest]
  <2>1. idle[k] \ (lost \cup (idle[k] \cap stale) \cup {c}) \in SUBSET idle[k]
    OBVIOUS
  <2> QED
    BY <1>1, <2>1
<1> QED
  BY <1>2, <1>3, <1>4, <1>5 DEF Lease!Reuse, LeaseMap, TargetMap, TargetOf

\* Reserving a slot.
LEMMA ReserveStep ==
  ASSUME IInv, IInv', OpeningIsApart, NEW t \in Task, NEW k \in Key,
         pc[t] \in {"idle", "woken"}, DropIdle(k), Reserve(t, k),
         Available(acquired, perHost, k) > 0,
         key' = [key EXCEPT ![t] = k], closed' = closed
  PROVE  Lease!Open(t, k)
<1>1. /\ idle' = [idle EXCEPT ![k] = {}] /\ pc' = [pc EXCEPT ![t] = "creating"]
      /\ conn' = conn
  BY DEF DropIdle, Reserve
<1>2. /\ LeaseMap' = [LeaseMap EXCEPT ![t] = LeaseOf(t)']
      /\ TargetMap' = [TargetMap EXCEPT ![t] = TargetOf(t)']
  BY <1>1, OneTask DEF IInv, TypeOK
<1>3. LeaseOf(t)' = "opening" /\ TargetOf(t)' = k
  BY <1>1 DEF LeaseOf, TargetOf, IInv, TypeOK, OpeningIsApart
<1>4. LeaseMap[t] = NoConn
  BY LeaseMeaning DEF LeaseMap, IInv
<1>5. LeaseBound > 0 /\ ~closed => Lease!Cardinality(Lease!Leases(k)) < LeaseBound
  <2> SUFFICES ASSUME LeaseBound > 0, ~closed
               PROVE  Cardinality(Users(k)) < LeaseBound
    BY SameLeases, SameCardinality DEF IInv
  <2>1. /\ Cardinality(acquired) \in Nat /\ Cardinality(Users(k)) <= Cardinality(acquired)
        /\ LimitPerHost > 0 => /\ Cardinality(perHost[k]) \in Nat
                               /\ Cardinality(Users(k)) <= Cardinality(perHost[k])
    BY UsersWithinSlots DEF IInv
  <2>2. /\ Limit > 0 => Cardinality(acquired) < Limit
        /\ LimitPerHost > 0 => Cardinality(perHost[k]) < LimitPerHost
    BY <2>1, LimitsAssumption DEF Available
  <2>3. Cardinality(Users(k)) \in Nat
    BY FiniteLoad DEF IInv
  <2> QED
    BY <2>1, <2>2, <2>3, LimitsAssumption DEF LeaseBound
<1> QED
  BY <1>1, <1>2, <1>3, <1>4, <1>5 DEF Lease!Open, LeaseMap, TargetMap, TargetOf

\* A slot is given back, with or without a transport for the pool.
LEMMA GiveBackStep ==
  ASSUME IInv, IInv', OpeningIsApart, NEW t \in Task, pc[t] \in InUse, pc'[t] = "idle",
         \A u \in Task : u # t =>
           /\ key'[u] = key[u] /\ conn'[u] = conn[u]
           /\ pc'[u] = pc[u] \/ (pc[u] = "queued" /\ pc'[u] = "woken"),
         \/ idle' = idle
         \/ /\ ~closed /\ pc[t] = "holding"
            /\ idle' = [idle EXCEPT ![key[t]] = @ \cup {conn[t]}],
         closed' = closed
  PROVE  Lease!Return(t)
<1>1. /\ LeaseMap' = [LeaseMap EXCEPT ![t] = LeaseOf(t)']
      /\ TargetMap' = [TargetMap EXCEPT ![t] = TargetOf(t)']
  BY OneTask DEF IInv
<1>2. LeaseOf(t)' = NoConn /\ TargetOf(t)' = NoKey
  BY DEF LeaseOf, TargetOf
<1>3. LeaseMap[t] = LeaseOf(t) /\ LeaseOf(t) # NoConn /\ TargetMap[t] = key[t]
  BY LeaseMeaning DEF LeaseMap, TargetMap, IInv
<1>4. pc[t] = "holding" => LeaseOf(t) = conn[t] /\ conn[t] # "opening"
  BY LeaseMeaning DEF OpeningIsApart, IInv
<1> QED
  BY <1>1, <1>2, <1>3, <1>4 DEF Lease!Return, LeaseMap, TargetMap, TargetOf

\* The end of connect, with a transport that is nobody's, or already this task's.
LEMMA AdoptStep ==
  ASSUME IInv, IInv', OpeningIsApart, NEW t \in Task, NEW c \in Conn, NEW opened,
         pc[t] \in {"creating", "created"}, Adopt(t, c, opened), pc[t] = "created" => c = conn[t],
         pc[t] = "creating" => c \in Fresh,
         idle' = idle, closed' = closed
  PROVE  Lease!Opened(t) \/ Lease!Return(t)
<1>1. CASE closed
  <2>1. /\ pc' = [pc EXCEPT ![t] = "idle"] /\ key' = [key EXCEPT ![t] = NoKey]
        /\ conn' = [conn EXCEPT ![t] = NoConn]
    BY <1>1 DEF Adopt
  <2> QED
    BY <2>1, GiveBackStep DEF IInv, TypeOK
<1>2. CASE ~closed
  <2>1. /\ pc' = [pc EXCEPT ![t] = "holding"] /\ key' = key /\ conn' = [conn EXCEPT ![t] = c]
    BY <1>2 DEF Adopt
  <2>2. /\ LeaseMap' = [LeaseMap EXCEPT ![t] = LeaseOf(t)']
        /\ TargetMap' = [TargetMap EXCEPT ![t] = TargetOf(t)']
    BY <2>1, OneTask DEF IInv, TypeOK
  <2>3. LeaseOf(t)' = c /\ LeaseOf(t) = "opening"
    BY <2>1 DEF LeaseOf, IInv, TypeOK
  <2>4. TargetMap' = TargetMap
    <3>1. TargetOf(t)' = TargetOf(t)
      BY <2>1, <2>3, SetsAssumption DEF TargetOf, OpeningIsApart
    <3> QED
      BY <2>2, <3>1 DEF TargetMap
  <2>5. c \notin {LeaseMap[u] : u \in Task}
    <3> SUFFICES ASSUME NEW u \in Task, LeaseOf(u) = c PROVE FALSE
      BY DEF LeaseMap
    <3>1. conn[u] = c /\ u # t
      BY <2>3, SetsAssumption DEF LeaseOf, OpeningIsApart
    <3> QED
      BY <3>1, SetsAssumption DEF Fresh, IInv, TypeOK, ExclusiveLease
  <2>6. c \notin UNION {idle[k] : k \in Key}
    BY SetsAssumption DEF Fresh, AllIdle, IInv, TypeOK, ExclusiveLease, Held
  <2> QED
    BY <1>2, <2>2, <2>3, <2>4, <2>5, <2>6
       DEF Lease!Opened, Lease!Leased, LeaseMap, TargetMap, TargetOf
<1> QED
  BY <1>1, <1>2

\* Idle transports are closed.
LEMMA EvictStep ==
  ASSUME IInv, IInv', \A k \in Key : idle'[k] \subseteq idle[k],
         closed' = closed, UNCHANGED <<LeaseMap, TargetMap>>
  PROVE  Lease!Evict
<1>1. idle' \in [Key -> SUBSET UNION {idle[k] : k \in Key}]
  BY DEF IInv, TypeOK
<1>2. idle' = [k \in Key |-> idle[k] \cap idle'[k]]
  BY DEF IInv, TypeOK
<1> QED
  BY <1>1, <1>2 DEF Lease!Evict, LeaseMap, TargetMap, TargetOf

\* Every step of the pool is a step of LeasePool or leaves its variables alone.
LEMMA StepImplements ==
  ASSUME IInv, IInv', OpeningIsApart, [Next]_vars
  PROVE  [Lease!Next]_Lease!vars
<1> USE DEF IInv
<1>0. ASSUME closed' = closed, idle' = idle, UNCHANGED <<LeaseMap, TargetMap>>
      PROVE  UNCHANGED Lease!vars
  BY <1>0 DEF Lease!vars, LeaseMap, TargetMap, TargetOf
<1>1. ASSUME NEW t \in Task, NEW k \in Key, Connect(t, k)
      PROVE  [Lease!Next]_Lease!vars
  <2>1. pc[t] = "idle" /\ key' = [key EXCEPT ![t] = k] /\ closed' = closed
    BY <1>1 DEF Connect
  <2>2. CASE TakeIdle(t, k)
    BY <2>1, <2>2, TakeIdleStep DEF Lease!Next
  <2>3. CASE DropIdle(k) /\ Available(acquired, perHost, k) > 0 /\ Reserve(t, k)
    BY <2>1, <2>3, ReserveStep DEF Lease!Next
  <2>4. CASE DropIdle(k) /\ pc' = [pc EXCEPT ![t] = "queued"] /\ conn' = conn
    <3>1. UNCHANGED <<LeaseMap, TargetMap>>
      BY <2>1, <2>4, NoTask DEF LeaseOf, TypeOK
    <3>2. \A l \in Key : idle'[l] \subseteq idle[l]
      BY <2>4 DEF DropIdle, TypeOK
    <3> QED
      BY <2>1, <3>1, <3>2, EvictStep DEF Lease!Next
  <2> QED
    BY <1>1, <2>2, <2>3, <2>4 DEF Connect
<1>2. ASSUME NEW t \in Task, Resume(t)
      PROVE  [Lease!Next]_Lease!vars
  <2>1. /\ pc[t] = "woken" /\ key[t] \in Key /\ closed' = closed
        /\ key' = [key EXCEPT ![t] = key[t]]
    BY <1>2, SetsAssumption DEF Resume, TypeOK
  <2>2. CASE TakeIdle(t, key[t])
    BY <2>1, <2>2, TakeIdleStep DEF Lease!Next
  <2>3. CASE DropIdle(key[t]) /\ Available(acquired, perHost, key[t]) > 0 /\ Reserve(t, key[t])
    BY <2>1, <2>3, ReserveStep DEF Lease!Next
  <2>4. CASE pc' = [pc EXCEPT ![t] = "queued"] /\ UNCHANGED <<idle, conn>>
    BY <1>0, <2>1, <2>4, NoTask DEF LeaseOf, TypeOK
  <2> QED
    BY <1>2, <2>2, <2>3, <2>4 DEF Resume
<1>3. ASSUME NEW t \in Task, Cancel(t) \/ Unwind(t) \/ CancelAfterWake(t)
      PROVE  UNCHANGED Lease!vars
  <2>1. /\ closed' = closed /\ idle' = idle /\ conn' = conn
        /\ pc[t] \notin InUse
        /\ \E p \in {"cancelled", "idle"} : pc' = [pc EXCEPT ![t] = p]
        /\ \A u \in Task \ {t} : key'[u] = key[u]
    BY <1>3 DEF Cancel, Unwind, CancelAfterWake, TypeOK
  <2>2. UNCHANGED <<LeaseMap, TargetMap>>
    BY <2>1, NoTask DEF LeaseOf, TypeOK
  <2> QED
    BY <1>0, <2>1, <2>2
<1>4. ASSUME NEW t \in Task, Establish(t)
      PROVE  [Lease!Next]_Lease!vars
  <2>1. pc[t] = "creating" /\ closed' = closed /\ idle' = idle
    BY <1>4 DEF Establish
  <2>2. CASE Traced
    <3>1. /\ pc' = [pc EXCEPT ![t] = "created"] /\ key' = key
          /\ \A u \in Task \ {t} : conn'[u] = conn[u]
      BY <1>4, <2>2 DEF Establish, TypeOK
    <3>2. UNCHANGED <<LeaseMap, TargetMap>>
      BY <2>1, <3>1, NoTask DEF LeaseOf, TypeOK
    <3> QED
      BY <1>0, <2>1, <3>2
  <2>3. CASE ~Traced
    <3>1. PICK c \in Fresh : Adopt(t, c, open \cup {c})
      BY <1>4, <2>3 DEF Establish
    <3>2. c \in Conn
      BY DEF Fresh
    <3> QED
      BY <2>1, <3>1, <3>2, AdoptStep DEF Lease!Next
  <2> QED
    BY <2>2, <2>3
<1>5. ASSUME NEW t \in Task, TraceDone(t)
      PROVE  [Lease!Next]_Lease!vars
  <2>1. closed' = closed /\ idle' = idle
    BY <1>5 DEF TraceDone
  <2>2. CASE pc[t] = "created" /\ Adopt(t, conn[t], open)
    <3>1. conn[t] \in Conn
      BY <2>2 DEF TypeOK
    <3> QED
      BY <2>1, <2>2, <3>1, AdoptStep DEF Lease!Next
  <2>3. CASE pc[t] = "reusing" /\ pc' = [pc EXCEPT ![t] = "holding"] /\ UNCHANGED <<key, conn>>
    <3>1. UNCHANGED <<LeaseMap, TargetMap>>
      BY <2>3, NoTask DEF LeaseOf, TypeOK
    <3> QED
      BY <1>0, <2>1, <3>1
  <2> QED
    BY <1>5, <2>2, <2>3 DEF TraceDone
<1>6. ASSUME NEW t \in Task, FailCreate(t) \/ FailReuse(t) \/ Release(t)
      PROVE  [Lease!Next]_Lease!vars
  <2>1. /\ pc[t] \in InUse /\ ReleaseAcquired(t, Slot(t)) /\ closed' = closed
        /\ \/ idle' = idle
           \/ /\ ~closed /\ pc[t] = "holding"
              /\ idle' = [idle EXCEPT ![key[t]] = @ \cup {conn[t]}]
    BY <1>6 DEF FailCreate, FailReuse, Release, Slot
  <2>2. /\ key' = [key EXCEPT ![t] = NoKey] /\ conn' = [conn EXCEPT ![t] = NoConn]
        /\ pc'[t] = "idle"
        /\ \A u \in Task : u # t =>
             pc'[u] = pc[u] \/ (pc[u] = "queued" /\ pc'[u] = "woken")
    BY <2>1, ReleaseAcquiredEffect
  <2>3. \A u \in Task : u # t => key'[u] = key[u] /\ conn'[u] = conn[u]
    BY <2>2 DEF TypeOK
  <2>4. Lease!Return(t)
    BY <2>1, <2>2, <2>3, GiveBackStep
  <2> QED
    BY <2>4 DEF Lease!Next
<1>7. CASE Cleanup
  <2>1. /\ closed' = closed /\ UNCHANGED <<pc, key, conn>>
        /\ \A k \in Key : idle'[k] \subseteq idle[k]
    BY <1>7 DEF Cleanup
  <2>2. UNCHANGED <<LeaseMap, TargetMap>>
    BY <2>1 DEF LeaseMap, TargetMap, TargetOf, LeaseOf
  <2> QED
    BY <2>1, <2>2, EvictStep DEF Lease!Next
<1>8. CASE Close
  <2>1. /\ closed' = TRUE /\ idle' = [k \in Key |-> {}] /\ UNCHANGED <<key, conn>>
        /\ pc' = [t \in Task |-> IF pc[t] = "queued" THEN "cancelled" ELSE pc[t]]
    BY <1>8 DEF Close
  <2>2. UNCHANGED <<LeaseMap, TargetMap>>
    BY <2>1, NoTask DEF LeaseOf, TypeOK
  <2>3. Lease!Shut
    BY <2>1, <2>2 DEF Lease!Shut, LeaseMap, TargetMap, TargetOf
  <2> QED
    BY <2>3 DEF Lease!Next
<1>9. CASE (\E c \in Conn : Expire(c) \/ Lose(c)) \/ UNCHANGED vars
  <2>1. closed' = closed /\ UNCHANGED <<idle, pc, key, conn>>
    BY <1>9 DEF Expire, Lose, vars
  <2>2. UNCHANGED <<LeaseMap, TargetMap>>
    BY <2>1 DEF LeaseMap, TargetMap, TargetOf, LeaseOf
  <2> QED
    BY <1>0, <2>1, <2>2
<1> QED
  BY <1>1, <1>2, <1>3, <1>4, <1>5, <1>6, <1>7, <1>8, <1>9 DEF Next, TaskStep

\* The pool of aiohttp keeps the promise of LeasePool.
THEOREM PoolImplementsLeases == OpeningIsApart => (Spec => ImplementsLeasePool)
<1> SUFFICES ASSUME OpeningIsApart PROVE Spec => ImplementsLeasePool
  OBVIOUS
<1>1. Init => Lease!Init
  BY SetsAssumption DEF Init, Lease!Init, LeaseOf
<1>2. IInv /\ IInv' /\ [Next]_vars => [Lease!Next]_Lease!vars
  BY StepImplements
<1> QED
  BY <1>1, <1>2, InvariantHolds, PTL DEF Spec, ImplementsLeasePool, Lease!Spec
=============================================================================
