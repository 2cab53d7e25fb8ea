--------------------------- MODULE LeasePoolProofs ---------------------------
(* LeasePool keeps its promise, for any number of tasks, keys, transports *)
(* and any bound.                                                         *)
EXTENDS LeasePool, SetCounting

IInv == TypeOK /\ Exclusive /\ Bounded

\* The leases of a key and its spare transports are finite sets, so that their
\* cardinalities are natural numbers.
LEMMA FiniteParts ==
  ASSUME LeaseAssumption, TypeOK, NEW k \in Key
  PROVE  /\ IsFiniteSet(Leases(k)) /\ IsFiniteSet(spare[k])
         /\ Cardinality(Leases(k)) \in Nat /\ Cardinality(spare[k]) \in Nat
<1>1. Leases(k) \subseteq Task /\ spare[k] \subseteq Conn
  BY DEF Leases, TypeOK
<1>2. IsFiniteSet(Leases(k)) /\ IsFiniteSet(spare[k])
  BY <1>1, FS_Subset DEF LeaseAssumption
<1> QED
  BY <1>2, FS_CardinalityType

\* The initial pool has no leases and no spare transports.
LEMMA InitIInv == LeaseAssumption /\ Init => IInv
<1> SUFFICES ASSUME LeaseAssumption, Init PROVE IInv
  OBVIOUS
<1> USE DEF Init, LeaseAssumption
<1>1. TypeOK
  BY DEF TypeOK
<1>2. Exclusive
  BY DEF Exclusive, Leased
<1>3. \A k \in Key : Leases(k) = {} /\ spare[k] = {}
  BY DEF Leases
<1>4. Bounded
  BY <1>3, FS_EmptySet DEF Bounded
<1> QED
  BY <1>1, <1>2, <1>4 DEF IInv

\* Reuse moves one transport from the spare ones of a key to its leases.
LEMMA ReuseIInv ==
  ASSUME LeaseAssumption, IInv, NEW t \in Task, NEW k \in Key, Reuse(t, k)
  PROVE  IInv'
<1> USE DEF LeaseAssumption
<1>1. PICK c \in spare[k], rest \in SUBSET spare[k] :
        /\ c \notin rest
        /\ spare' = [spare EXCEPT ![k] = rest]
        /\ lease' = [lease EXCEPT ![t] = c]
  BY DEF Reuse
<1>2. c \in Conn /\ c # Nothing
  BY DEF IInv, TypeOK
<1>3. /\ target' = [target EXCEPT ![t] = k]
      /\ lease[t] = Nothing /\ shut' = shut
  BY DEF Reuse
<1>4. TypeOK'
  BY <1>1, <1>2, <1>3 DEF IInv, TypeOK
<1>5. Exclusive'
  BY <1>1, <1>2, <1>3 DEF IInv, TypeOK, Exclusive, Leased
<1>6. Bounded'
  <2> SUFFICES ASSUME Bound > 0, ~shut, NEW l \in Key
               PROVE  Cardinality(Leases(l)') + Cardinality(spare'[l]) <= Bound
    BY <1>3 DEF Bounded
  <2>1. /\ IsFiniteSet(Leases(l)) /\ IsFiniteSet(spare[l])
        /\ Cardinality(Leases(l)) \in Nat /\ Cardinality(spare[l]) \in Nat
        /\ Cardinality(Leases(l)) + Cardinality(spare[l]) <= Bound
    BY FiniteParts DEF IInv, Bounded
  <2>2. CASE l = k
    <3>1. Leases(l)' = Leases(l) \cup {t}
      BY <1>3, <2>2 DEF Leases, IInv, TypeOK
    <3>2. /\ Cardinality(Leases(l)') <= Cardinality(Leases(l)) + 1
          /\ Cardinality(Leases(l)') \in Nat
      BY <2>1, <3>1, GrowByOne
    <3>3. spare'[l] \subseteq spare[l] \ {c} /\ c \in spare[l]
      BY <1>1, <2>2 DEF IInv, TypeOK
    <3>4. /\ Cardinality(spare'[l]) <= Cardinality(spare[l]) - 1
          /\ Cardinality(spare'[l]) \in Nat
      BY <2>1, <3>3, ShrinkByOne
    <3> QED
      BY <2>1, <3>2, <3>4
  <2>3. CASE l # k
    <3>1. Leases(l)' = Leases(l) /\ spare'[l] = spare[l]
      BY <1>1, <1>3, <2>3 DEF Leases, IInv, TypeOK
    <3> QED
      BY <2>1, <3>1
  <2> QED
    BY <2>2, <2>3
<1> QED
  BY <1>4, <1>5, <1>6 DEF IInv

\* Open adds a lease only below the bound, and leaves no spare transport.
LEMMA OpenIInv ==
  ASSUME LeaseAssumption, IInv, NEW t \in Task, NEW k \in Key, Open(t, k)
  PROVE  IInv'
<1> USE DEF LeaseAssumption
<1>1. /\ lease[t] = Nothing /\ shut' = shut
      /\ Bound > 0 /\ ~shut => Cardinality(Leases(k)) < Bound
      /\ spare' = [spare EXCEPT ![k] = {}]
      /\ lease' = [lease EXCEPT ![t] = Opening]
      /\ target' = [target EXCEPT ![t] = k]
  BY DEF Open
<1>2. TypeOK'
  BY <1>1 DEF IInv, TypeOK
<1>3. Exclusive'
  BY <1>1 DEF IInv, TypeOK, Exclusive, Leased
<1>4. Bounded'
  <2> SUFFICES ASSUME Bound > 0, ~shut, NEW l \in Key
               PROVE  Cardinality(Leases(l)') + Cardinality(spare'[l]) <= Bound
    BY <1>1 DEF Bounded
  <2>1. /\ IsFiniteSet(Leases(l)) /\ Cardinality(Leases(l)) \in Nat
        /\ Cardinality(Leases(l)) + Cardinality(spare[l]) <= Bound
    BY FiniteParts DEF IInv, Bounded
  <2>2. CASE l = k
    <3>1. Leases(l)' = Leases(l) \cup {t} /\ spare'[l] = {}
      BY <1>1, <2>2 DEF Leases, IInv, TypeOK
    <3>2. /\ Cardinality(Leases(l)') <= Cardinality(Leases(l)) + 1
          /\ Cardinality(Leases(l)') \in Nat
      BY <2>1, <3>1, GrowByOne
    <3> QED
      BY <1>1, <2>1, <2>2, <3>1, <3>2, FS_EmptySet
  <2>3. CASE l # k
    BY <1>1, <2>1, <2>3 DEF Leases, IInv, TypeOK
  <2> QED
    BY <2>2, <2>3
<1> QED
  BY <1>2, <1>3, <1>4 DEF IInv

\* Opened replaces Opening by a transport nobody has.
LEMMA OpenedIInv ==
  ASSUME LeaseAssumption, IInv, NEW t \in Task, Opened(t)
  PROVE  IInv'
<1> USE DEF LeaseAssumption
<1>1. PICK c \in Conn : /\ c \notin Leased /\ \A k \in Key : c \notin spare[k]
                        /\ lease' = [lease EXCEPT ![t] = c]
  BY DEF Opened
<1>2. lease[t] = Opening /\ UNCHANGED <<shut, spare, target>>
  BY DEF Opened
<1>3. TypeOK'
  BY <1>1, <1>2 DEF IInv, TypeOK
<1>4. Exclusive'
  BY <1>1, <1>2 DEF IInv, TypeOK, Exclusive, Leased
<1>5. Bounded'
  BY <1>2 DEF IInv, Bounded, Leases
<1> QED
  BY <1>3, <1>4, <1>5 DEF IInv

\* Return ends a lease and adds at most its transport to the spare ones.
LEMMA ReturnIInv ==
  ASSUME LeaseAssumption, IInv, NEW t \in Task, Return(t)
  PROVE  IInv'
<1> USE DEF LeaseAssumption
<1>1. /\ lease[t] # Nothing /\ shut' = shut
      /\ lease' = [lease EXCEPT ![t] = Nothing]
      /\ target' = [target EXCEPT ![t] = NoKey]
  BY DEF Return
<1>2. target[t] \in Key
  BY <1>1 DEF IInv, TypeOK
<1>3. \/ spare' = spare
      \/ /\ lease[t] \in Conn
         /\ spare' = [spare EXCEPT ![target[t]] = spare[target[t]] \cup {lease[t]}]
  BY <1>1 DEF Return, IInv, TypeOK
<1>4. TypeOK'
  BY <1>1, <1>2, <1>3 DEF IInv, TypeOK
<1>5. Exclusive'
  <2>1. CASE spare' = spare
    BY <1>1, <2>1 DEF IInv, TypeOK, Exclusive, Leased
  <2>2. CASE /\ lease[t] \in Conn
             /\ spare' = [spare EXCEPT ![target[t]] = spare[target[t]] \cup {lease[t]}]
    <3>1. \A u \in Task : u # t => lease'[u] = lease[u] /\ lease[u] # lease[t]
      BY <1>1, <2>2 DEF IInv, TypeOK, Exclusive
    <3>2. \A k \in Key : lease[t] \notin spare[k]
      BY DEF IInv, Exclusive, Leased
    <3>3. \A k \in Key : spare'[k] \subseteq spare[k] \cup {lease[t]}
                         /\ (k # target[t] => spare'[k] = spare[k])
      BY <2>2 DEF IInv, TypeOK
    <3>4. lease'[t] = Nothing /\ \A k \in Key : Nothing \notin spare'[k]
      BY <1>1, <1>4 DEF IInv, TypeOK
    <3>5. \A k \in Key : spare'[k] \cap Leased' = {}
      BY <3>1, <3>2, <3>3, <3>4 DEF IInv, Exclusive, Leased
    <3>6. \A k, l \in Key : k # l => spare'[k] \cap spare'[l] = {}
      BY <3>2, <3>3 DEF IInv, Exclusive
    <3>7. \A u, v \in Task : u # v /\ lease'[u] \in Conn => lease'[u] # lease'[v]
      BY <1>1, <3>1, <3>4 DEF IInv, TypeOK, Exclusive
    <3> QED
      BY <3>5, <3>6, <3>7 DEF Exclusive
  <2> QED
    BY <1>3, <2>1, <2>2
<1>6. Bounded'
  <2> SUFFICES ASSUME Bound > 0, ~shut, NEW l \in Key
               PROVE  Cardinality(Leases(l)') + Cardinality(spare'[l]) <= Bound
    BY <1>1 DEF Bounded
  <2>1. /\ IsFiniteSet(Leases(l)) /\ IsFiniteSet(spare[l])
        /\ Cardinality(Leases(l)) \in Nat /\ Cardinality(spare[l]) \in Nat
        /\ Cardinality(Leases(l)) + Cardinality(spare[l]) <= Bound
    BY FiniteParts DEF IInv, Bounded
  <2>2. CASE l = target[t]
    <3>1. Leases(l)' = Leases(l) \ {t} /\ t \in Leases(l)
      BY <1>1, <1>2, <2>2 DEF Leases, IInv, TypeOK
    <3>2. /\ Cardinality(Leases(l)') <= Cardinality(Leases(l)) - 1
          /\ Cardinality(Leases(l)') \in Nat
      BY <2>1, <3>1, ShrinkByOne
    <3>3. spare'[l] = spare[l] \/ spare'[l] = spare[l] \cup {lease[t]}
      BY <1>3, <2>2 DEF IInv, TypeOK
    <3>4. Cardinality(spare'[l]) <= Cardinality(spare[l]) + 1 /\ Cardinality(spare'[l]) \in Nat
      BY <2>1, <3>3, GrowByOne
    <3> QED
      BY <2>1, <3>2, <3>4
  <2>3. CASE l # target[t]
    <3>1. Leases(l)' = Leases(l) /\ spare'[l] = spare[l]
      BY <1>1, <1>3, <2>3 DEF Leases, IInv, TypeOK
    <3> QED
      BY <2>1, <3>1
  <2> QED
    BY <2>2, <2>3
<1> QED
  BY <1>4, <1>5, <1>6 DEF IInv

\* Evict only removes spare transports.
LEMMA EvictIInv ==
  ASSUME LeaseAssumption, IInv, Evict
  PROVE  IInv'
<1>1. /\ UNCHANGED <<shut, lease, target>>
      /\ \A k \in Key : spare'[k] \subseteq spare[k]
      /\ spare' \in [Key -> SUBSET Conn]
  BY DEF Evict, IInv, TypeOK
<1>2. TypeOK'
  BY <1>1 DEF IInv, TypeOK
<1>3. Exclusive'
  BY <1>1 DEF IInv, Exclusive, Leased
<1>4. Bounded'
  <2> SUFFICES ASSUME Bound > 0, ~shut, NEW l \in Key
               PROVE  Cardinality(Leases(l)') + Cardinality(spare'[l]) <= Bound
    BY <1>1 DEF Bounded
  <2>1. /\ IsFiniteSet(Leases(l)) /\ IsFiniteSet(spare[l])
        /\ Cardinality(Leases(l)) \in Nat /\ Cardinality(spare[l]) \in Nat
        /\ Cardinality(Leases(l)) + Cardinality(spare[l]) <= Bound
    BY FiniteParts DEF IInv, Bounded
  <2>2. Cardinality(spare'[l]) <= Cardinality(spare[l]) /\ Cardinality(spare'[l]) \in Nat
    BY <1>1, <2>1, FS_Subset, FS_CardinalityType
  <2>3. Leases(l)' = Leases(l)
    BY <1>1 DEF Leases
  <2> QED
    BY <2>1, <2>2, <2>3 DEF LeaseAssumption
<1> QED
  BY <1>2, <1>3, <1>4 DEF IInv

\* Every step keeps the invariant.
LEMMA NextIInv == LeaseAssumption /\ IInv /\ [Next]_vars => IInv'
<1> SUFFICES ASSUME LeaseAssumption, IInv, [Next]_vars PROVE IInv'
  OBVIOUS
<1>1. ASSUME NEW t \in Task, Opened(t) PROVE IInv'
  BY <1>1, OpenedIInv
<1>2. ASSUME NEW t \in Task, Return(t) PROVE IInv'
  BY <1>2, ReturnIInv
<1>3. ASSUME NEW t \in Task, NEW k \in Key, Reuse(t, k) PROVE IInv'
  BY <1>3, ReuseIInv
<1>4. ASSUME NEW t \in Task, NEW k \in Key, Open(t, k) PROVE IInv'
  BY <1>4, OpenIInv
<1>5. CASE Evict
  BY <1>5, EvictIInv
<1>6. CASE Shut
  BY <1>6 DEF Shut, IInv, TypeOK, Exclusive, Bounded, Leased
<1>7. CASE UNCHANGED vars
  BY <1>7 DEF vars, IInv, TypeOK, Exclusive, Bounded, Leased, Leases
<1> QED
  BY <1>1, <1>2, <1>3, <1>4, <1>5, <1>6, <1>7 DEF Next

\* A pool that behaves like LeasePool never shares a transport and never
\* exceeds the bound of a key (connect and _release of BaseConnector).
THEOREM PromiseKept == LeaseAssumption => (Spec => []Promise)
<1> SUFFICES ASSUME LeaseAssumption PROVE Spec => []Promise
  OBVIOUS
<1>1. IInv => Promise
  BY DEF IInv, Promise
<1>2. Init => IInv
  BY InitIInv
<1>3. IInv /\ [Next]_vars => IInv'
  BY NextIInv
<1> QED
  BY <1>1, <1>2, <1>3, PTL DEF Spec
=============================================================================
