------------------------------ MODULE LeasePool ------------------------------
(***************************************************************************)
(* What a connection pool promises, with nothing of how it does it: a task  *)
(* leases a spare transport or opens a new one, and gives it back.  How a   *)
(* task waits for its turn, who wakes it, timers and traces are invisible.  *)
(***************************************************************************)
EXTENDS Integers, FiniteSets

CONSTANTS
  Task, Key, Conn,
  Nothing, Opening,  \* a task without a lease, a task opening a transport
  NoKey,
  Bound              \* leases and spare transports per key; 0 means no bound

\* What the promise needs of the constants; ConnectionPool provides it.
LeaseAssumption ==
  /\ IsFiniteSet(Task) /\ IsFiniteSet(Conn)
  /\ Nothing \notin Conn /\ Opening \notin Conn /\ Nothing # Opening
  /\ NoKey \notin Key
  /\ Bound \in Nat

VARIABLES
  shut,    \* the pool was closed
  spare,   \* transports of each key that nobody uses
  lease,   \* what each task has
  target   \* the key each lease is for

vars == <<shut, spare, lease, target>>

Leases(k) == {t \in Task : target[t] = k}
Leased == {lease[t] : t \in Task}

Init ==
  /\ shut = FALSE
  /\ spare = [k \in Key |-> {}]
  /\ lease = [t \in Task |-> Nothing]
  /\ target = [t \in Task |-> NoKey]

\* A spare transport is reused; others of the key may turn out to be unusable.
Reuse(t, k) ==
  /\ lease[t] = Nothing
  /\ \E c \in spare[k], rest \in SUBSET spare[k] :
       /\ c \notin rest
       /\ spare' = [spare EXCEPT ![k] = rest]
       /\ lease' = [lease EXCEPT ![t] = c]
  /\ target' = [target EXCEPT ![t] = k]
  /\ UNCHANGED shut

\* A transport is opened only if no spare one is left and the bound allows it.
Open(t, k) ==
  /\ lease[t] = Nothing
  /\ Bound > 0 /\ ~shut => Cardinality(Leases(k)) < Bound
  /\ spare' = [spare EXCEPT ![k] = {}]
  /\ lease' = [lease EXCEPT ![t] = Opening]
  /\ target' = [target EXCEPT ![t] = k]
  /\ UNCHANGED shut

Opened(t) ==
  /\ lease[t] = Opening /\ ~shut
  /\ \E c \in Conn \ (Leased \cup UNION {spare[k] : k \in Key}) :
       lease' = [lease EXCEPT ![t] = c]
  /\ UNCHANGED <<shut, spare, target>>

\* The lease ends: the transport is kept for the same key, or dropped.
Return(t) ==
  /\ lease[t] # Nothing
  /\ lease' = [lease EXCEPT ![t] = Nothing]
  /\ target' = [target EXCEPT ![t] = NoKey]
  /\ \/ UNCHANGED spare
     \/ /\ ~shut /\ lease[t] # Opening
        /\ spare' = [spare EXCEPT ![target[t]] = @ \cup {lease[t]}]
  /\ UNCHANGED shut

\* Spare transports may be closed at any time.
Evict ==
  /\ \E kept \in [Key -> SUBSET UNION {spare[k] : k \in Key}] :
       spare' = [k \in Key |-> spare[k] \cap kept[k]]
  /\ UNCHANGED <<shut, lease, target>>

Shut ==
  /\ shut' = TRUE
  /\ spare' = [k \in Key |-> {}]
  /\ UNCHANGED <<lease, target>>

Next ==
  \/ \E t \in Task : Opened(t) \/ Return(t)
  \/ \E t \in Task, k \in Key : Reuse(t, k) \/ Open(t, k)
  \/ Evict
  \/ Shut

Spec == Init /\ [][Next]_vars

-----------------------------------------------------------------------------
TypeOK ==
  /\ shut \in BOOLEAN
  /\ spare \in [Key -> SUBSET Conn]
  /\ lease \in [Task -> Conn \cup {Nothing, Opening}]
  /\ target \in [Task -> Key \cup {NoKey}]
  /\ \A t \in Task : lease[t] = Nothing <=> target[t] = NoKey

Exclusive ==
  /\ \A t, u \in Task : t # u /\ lease[t] \in Conn => lease[t] # lease[u]
  /\ \A k \in Key : spare[k] \cap Leased = {}
  /\ \A k, l \in Key : k # l => spare[k] \cap spare[l] = {}

Bounded ==
  Bound > 0 /\ ~shut =>
    \A k \in Key : Cardinality(Leases(k)) + Cardinality(spare[k]) <= Bound

\* The promise in one formula: no transport is leased twice, or leased and
\* spare, or spare for two keys, and an open pool stays within its bound.
Promise == Exclusive /\ Bounded
=============================================================================
