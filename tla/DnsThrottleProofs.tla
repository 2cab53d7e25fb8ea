------------------------- MODULE DnsThrottleProofs -------------------------
(* Proofs about DnsThrottle: its type invariant, that a host is resolved by  *)
(* one lookup at a time, that the cancellation of a caller reaches no other, *)
(* that without traces no waiter is forgotten, and that a throttled caller   *)
(* gets its addresses unless the cache is cleared.                           *)
EXTENDS DnsThrottle, TLAPS

\* A running lookup owns the throttle entry of its host.
OwnsEntry == \A l \in Running : host[l] \in Host /\ throttle[host[l]] = l

\* Only close() cancels a lookup or the future of a waiter.
CancelledByClose ==
  /\ doomed # {} => closed
  /\ \A t \in Task : "cancelled" \in {fut[t], out[t]} => closed

\* The inductive invariant.
IInv == TypeOK /\ OwnsEntry /\ CancelledByClose

\* It holds before anything is resolved.
LEMMA InitIInv == Init => IInv
<1> SUFFICES ASSUME Init PROVE IInv
  OBVIOUS
<1>1. Running = {}
  BY DEF Init, Running
<1>2. TypeOK
  BY <1>1, DnsAssumption DEF Init, TypeOK
<1>3. OwnsEntry
  BY <1>1 DEF OwnsEntry
<1>4. CancelledByClose
  BY DEF Init, CancelledByClose
<1> QED
  BY <1>2, <1>3, <1>4 DEF IInv

\* The steps of a caller, a lookup, the cache and close() keep the invariant.
LEMMA NextIInv == IInv /\ [Next]_vars => IInv'
<1> SUFFICES ASSUME IInv, [Next]_vars PROVE IInv'
  OBVIOUS
<1> USE DnsAssumption DEF IInv, TypeOK, OwnsEntry, CancelledByClose, Running
<1>1. ASSUME NEW t \in Task, NEW h \in Host, CacheHit(t, h) PROVE IInv'
  BY <1>1 DEF CacheHit, Finish, lookupVars
<1>2. ASSUME NEW t \in Task, NEW h \in Host, Join(t, h) PROVE IInv'
  BY <1>2 DEF Join, Await, lookupVars
<1>3. ASSUME NEW t \in Task, NEW h \in Host, StartLookup(t, h) PROVE IInv'
  BY <1>3 DEF StartLookup, Await, Unused, FirstAwait
<1>4. ASSUME NEW t \in Task,
             HitTraced(t) \/ JoinTraced(t) \/ Resume(t) \/ OwnerResume(t) \/ Cancel(t)
      PROVE IInv'
  BY <1>4 DEF HitTraced, JoinTraced, Resume, OwnerResume, Cancel, Finish, lookupVars
<1>5. ASSUME NEW l \in Lookup, Begin(l) PROVE IInv'
  BY <1>5 DEF Begin, EndLookup, FirstAwait, callVars
<1>6. ASSUME NEW l \in Lookup, MissTraced(l) PROVE IInv'
  BY <1>6 DEF MissTraced, EndLookup, callVars
<1>7. ASSUME NEW l \in Lookup, Resolved(l) PROVE IInv'
  BY <1>7 DEF Resolved, EndLookup
<1>8. ASSUME NEW l \in Lookup, ResolveFails(l) PROVE IInv'
  BY <1>8 DEF ResolveFails, EndLookup
<1>9. ASSUME NEW h \in Host, Expire(h) PROVE IInv'
  BY <1>9 DEF Expire, lookupVars, callVars
<1>10. ASSUME ClearDnsCache PROVE IInv'
  BY <1>10 DEF ClearDnsCache, lookupVars, callVars
<1>11. ASSUME Close PROVE IInv'
  BY <1>11 DEF Close
<1>12. CASE UNCHANGED vars
  BY <1>12 DEF vars
<1> QED BY <1>1, <1>2, <1>3, <1>4, <1>5, <1>6, <1>7, <1>8, <1>9, <1>10, <1>11, <1>12 DEF Next

-----------------------------------------------------------------------------
(* The results. *)

\* The invariant holds of every behaviour.
LEMMA InvariantHolds == Spec => []IInv
  BY InitIInv, NextIInv, PTL DEF Spec

\* Every caller, lookup and cache entry keeps its type and shape.
THEOREM TypeCorrect == Spec => []TypeOK
  BY InvariantHolds, PTL DEF IInv

\* _resolve_host never runs two lookups for one host.
THEOREM OneLookupPerHost == Spec => []SingleFlight
<1>1. IInv => SingleFlight
  BY DEF IInv, OwnsEntry, SingleFlight
<1> QED
  BY <1>1, InvariantHolds, PTL

\* As long as close() is not called no caller sees the cancellation of another.
THEOREM CancellationStaysLocal == Spec => []CancelNotBroadcast
<1>1. IInv => CancelNotBroadcast
  BY DEF IInv, CancelledByClose, CancelNotBroadcast
<1> QED
  BY <1>1, InvariantHolds, PTL

-----------------------------------------------------------------------------
(* Without traces, which can end a lookup before its try block.             *)

\* A lookup is scheduled only where tasks do not start at once, and no lookup
\* is in the miss trace.
NoEarlyEnd == \A l \in Lookup : state[l] # "miss" /\ (Eager => state[l] # "scheduled")

\* An entry of the throttle leads to a lookup that runs for its host: the
\* converse of OwnsEntry, which Join needs for the future it adds.
EntriesRun ==
  (Eager \/ ~closed) =>
    \A h \in Host : throttle[h] # NoLookup =>
      throttle[h] \in Running /\ host[throttle[h]] = h

NobodyForgottenInv == IInv /\ NoEarlyEnd /\ EntriesRun /\ NobodyForgotten

\* Every step but those of a lookup that ends early keeps pending futures in
\* the hands of a lookup that runs for their host.
LEMMA NextNobodyForgotten ==
  ASSUME Traced = FALSE, NobodyForgottenInv, [Next]_vars
  PROVE  NobodyForgottenInv'
<1> USE DnsAssumption DEF NobodyForgottenInv, IInv, TypeOK, OwnsEntry, CancelledByClose,
                          NoEarlyEnd, EntriesRun, NobodyForgotten, Running
<1> DEFINE Goal == NoEarlyEnd' /\ EntriesRun' /\ NobodyForgotten'
<1>1. ASSUME NEW t \in Task, NEW h \in Host, CacheHit(t, h) PROVE Goal
  BY <1>1 DEF CacheHit, Finish, lookupVars
<1>2. ASSUME NEW t \in Task, NEW h \in Host, Join(t, h) PROVE Goal
  BY <1>2 DEF Join, Await, lookupVars
<1>3. ASSUME NEW t \in Task, NEW h \in Host, StartLookup(t, h) PROVE Goal
  BY <1>3 DEF StartLookup, Await, Unused, FirstAwait
<1>4. ASSUME NEW t \in Task,
             HitTraced(t) \/ JoinTraced(t) \/ Resume(t) \/ OwnerResume(t) \/ Cancel(t)
      PROVE Goal
  BY <1>4 DEF HitTraced, JoinTraced, Resume, OwnerResume, Cancel, Finish, lookupVars
<1>5. ASSUME NEW l \in Lookup, Begin(l) PROVE Goal
  BY <1>5 DEF Begin, EndLookup, FirstAwait, callVars
<1>6. ASSUME NEW l \in Lookup, MissTraced(l) PROVE Goal
  BY <1>6 DEF MissTraced
<1>7. ASSUME NEW l \in Lookup, Resolved(l) \/ ResolveFails(l) PROVE Goal
  BY <1>7 DEF Resolved, ResolveFails, EndLookup
<1>8. ASSUME (\E h \in Host : Expire(h)) \/ ClearDnsCache PROVE Goal
  BY <1>8 DEF Expire, ClearDnsCache, lookupVars, callVars
<1>9. ASSUME Close PROVE Goal
  BY <1>9 DEF Close
<1>10. CASE UNCHANGED vars
  BY <1>10 DEF vars
<1>11. Goal
  BY <1>1, <1>2, <1>3, <1>4, <1>5, <1>6, <1>7, <1>8, <1>9, <1>10 DEF Next
<1>12. IInv'
  BY NextIInv DEF NobodyForgottenInv
<1> QED
  BY <1>11, <1>12 DEF NobodyForgottenInv

\* Without traces the stronger invariant holds of every behaviour.
LEMMA NobodyForgottenInvHolds ==
  ASSUME Traced = FALSE
  PROVE  Spec => []NobodyForgottenInv
<1>1. Init => NobodyForgottenInv
  <2> SUFFICES ASSUME Init PROVE NobodyForgottenInv
    OBVIOUS
  <2>1. NoEarlyEnd /\ EntriesRun /\ NobodyForgotten
    BY DEF Init, NoEarlyEnd, EntriesRun, NobodyForgotten
  <2> QED
    BY <2>1, InitIInv DEF NobodyForgottenInv
<1>2. NobodyForgottenInv /\ [Next]_vars => NobodyForgottenInv'
  BY NextNobodyForgotten
<1> QED
  BY <1>1, <1>2, PTL DEF Spec

\* Without traces the future of every throttled caller, and the task of every
\* owner, is in the hands of a lookup that runs for its host.
THEOREM WaitersAreServed ==
  ASSUME Traced = FALSE
  PROVE  Spec => []NobodyForgotten
<1>1. NobodyForgottenInv => NobodyForgotten
  BY DEF NobodyForgottenInv
<1> QED
  BY <1>1, NobodyForgottenInvHolds, PTL

\* Without traces the throttle names the running lookups and no other, so that
\* a finished lookup never captures a later caller.
THEOREM ThrottleIsExact ==
  ASSUME Traced = FALSE
  PROVE  Spec => []ThrottleIsRunning
<1>1. NobodyForgottenInv => ThrottleIsRunning
  BY DnsAssumption DEF NobodyForgottenInv, IInv, OwnsEntry, EntriesRun, ThrottleIsRunning, Running
<1> QED
  BY <1>1, NobodyForgottenInvHolds, PTL

-----------------------------------------------------------------------------
(* While nobody clears the cache. *)

\* A caller that was given a result finds an entry of its host.  A lookup gives
\* results to callers of its own host only: an entry of the throttle, and a
\* caller that depends on a lookup, name the host a running lookup is for.
ResultsCached ==
  /\ \A h \in Host : throttle[h] \in Running => host[throttle[h]] = h
  /\ \A t \in Task : on[t] \in Running => host[on[t]] = key[t]
  /\ \A t \in Task : pc[t] \in {"joined", "waiting"} /\ fut[t] = "result" => cached[key[t]] # "none"
  /\ ResultForAll

\* Every step but clear_dns_cache keeps that.
LEMMA NextResultsCached ==
  ASSUME MayClear = FALSE, IInv, ResultsCached, [Next]_vars
  PROVE  ResultsCached'
<1> USE DnsAssumption DEF IInv, TypeOK, ResultsCached, ResultForAll, Running
<1>1. ASSUME NEW t \in Task, NEW h \in Host, CacheHit(t, h) PROVE ResultsCached'
  BY <1>1 DEF CacheHit, Finish, lookupVars
<1>2. ASSUME NEW t \in Task, NEW h \in Host, Join(t, h) PROVE ResultsCached'
  BY <1>2 DEF Join, Await, lookupVars
<1>3. ASSUME NEW t \in Task, NEW h \in Host, StartLookup(t, h) PROVE ResultsCached'
  BY <1>3 DEF StartLookup, Await, Unused
<1>4. ASSUME NEW t \in Task,
             HitTraced(t) \/ JoinTraced(t) \/ Resume(t) \/ OwnerResume(t) \/ Cancel(t)
      PROVE ResultsCached'
  BY <1>4 DEF HitTraced, JoinTraced, Resume, OwnerResume, Cancel, Finish, lookupVars
<1>5. ASSUME NEW l \in Lookup, Begin(l) \/ MissTraced(l) PROVE ResultsCached'
  BY <1>5 DEF Begin, MissTraced, EndLookup, FirstAwait, callVars
<1>6. ASSUME NEW l \in Lookup, Resolved(l) \/ ResolveFails(l) PROVE ResultsCached'
  BY <1>6 DEF Resolved, ResolveFails, EndLookup
<1>7. ASSUME (\E h \in Host : Expire(h)) \/ ClearDnsCache \/ Close PROVE ResultsCached'
  BY <1>7 DEF Expire, ClearDnsCache, Close, lookupVars, callVars
<1>8. CASE UNCHANGED vars
  BY <1>8 DEF vars
<1> QED
  BY <1>1, <1>2, <1>3, <1>4, <1>5, <1>6, <1>7, <1>8 DEF Next

\* A throttled caller gets the addresses as long as nobody clears the cache
\* between the answer and its resumption.
THEOREM ThrottledGetAddresses ==
  ASSUME MayClear = FALSE
  PROVE  Spec => []ResultForAll
<1>1. Init => ResultsCached
  BY DEF Init, ResultsCached, ResultForAll, Running
<1>2. IInv /\ ResultsCached /\ [Next]_vars => ResultsCached'
  BY NextResultsCached
<1>3. ResultsCached => ResultForAll
  BY DEF ResultsCached
<1> QED
  BY <1>1, <1>2, <1>3, InvariantHolds, PTL DEF Spec
=============================================================================
