---------------------------- MODULE DnsThrottle ----------------------------
(***************************************************************************)
(* Host name resolution of the aiohttp client: TCPConnector._resolve_host,  *)
(* its cache and the throttle that lets one lookup per host serve everybody *)
(* (aiohttp/connector.py).  The first caller of a host starts a lookup as a *)
(* task of its own, shielded from the caller's cancellation; callers that   *)
(* come while it runs add a future to the set the lookup will resolve.      *)
(*                                                                         *)
(* A caller is suspended at one of these awaits:                            *)
(*   idle     not resolving                                                 *)
(*   hit      cached result taken, in the dns_cache_hit trace               *)
(*   joined   future added to a running lookup, in the dns_cache_hit trace   *)
(*   waiting  awaiting that future                                          *)
(*   owner    awaiting the shielded lookup it started                       *)
(* and a lookup is scheduled (its task has not run yet), in the             *)
(* dns_cache_miss trace (miss), resolving (the resolver and the traces       *)
(* around it) or off.                                                       *)
(*                                                                         *)
(* An operator whose name starts with Bad is a plausible bug, used only to  *)
(* show that the properties notice it.                                      *)
(***************************************************************************)
EXTENDS Integers, FiniteSets

CONSTANTS
  Task,              \* callers of _resolve_host
  Host,              \* (host, port) keys
  Lookup,            \* identities of lookup tasks
  NoHost, NoLookup,  \* "none" values
  Traced,            \* trace callbacks are registered
  Eager,             \* Python 3.12 and later: a lookup task starts at once
  MayClear           \* clear_dns_cache is called

ASSUME DnsAssumption ==
  /\ NoHost \notin Host /\ NoLookup \notin Lookup
  /\ Traced \in BOOLEAN /\ Eager \in BOOLEAN /\ MayClear \in BOOLEAN

VARIABLES
  closed,    \* close() was called
  cached,    \* _cached_hosts: an entry is absent, fresh or stale (older than the ttl)
  throttle,  \* _throttle_dns_futures: the lookup whose futures the key leads to
  state,     \* await point of each lookup
  host,      \* host of each lookup
  doomed,    \* lookups whose cancellation was requested by close()
  pc, key,   \* per caller: await point, host asked for
  on, fut,   \* the lookup a caller depends on, and its future
  out        \* how the last call of a caller ended

lookupVars == <<state, host, doomed>>
callVars == <<pc, key, on, fut, out>>
vars == <<closed, cached, throttle, state, host, doomed, pc, key, on, fut, out>>

Init ==
  /\ closed = FALSE
  /\ cached = [h \in Host |-> "none"]
  /\ throttle = [h \in Host |-> NoLookup]
  /\ state = [l \in Lookup |-> "off"]
  /\ host = [l \in Lookup |-> NoHost]
  /\ doomed = {}
  /\ pc = [t \in Task |-> "idle"]
  /\ key = [t \in Task |-> NoHost]
  /\ on = [t \in Task |-> NoLookup]
  /\ fut = [t \in Task |-> "none"]
  /\ out = [t \in Task |-> "none"]

Running == {l \in Lookup : state[l] # "off"}

\* Lookups nobody refers to any more.
Unused == {l \in Lookup : /\ state[l] = "off"
                          /\ \A h \in Host : throttle[h] # l
                          /\ \A t \in Task : on[t] # l}

FirstAwait == IF Traced THEN "miss" ELSE "resolving"

-----------------------------------------------------------------------------
(* The caller. *)

\* Bug: the future of a finished call is left in place.
BadFinish(t, result) ==
  /\ pc' = [pc EXCEPT ![t] = "idle"]
  /\ key' = [key EXCEPT ![t] = NoHost]
  /\ on' = [on EXCEPT ![t] = NoLookup]
  /\ out' = [out EXCEPT ![t] = result]
  /\ UNCHANGED fut

\* A call ends: with addresses, an exception, a cancellation, or the KeyError
\* of next_addrs.
Finish(t, result) ==
  /\ pc' = [pc EXCEPT ![t] = "idle"]
  /\ key' = [key EXCEPT ![t] = NoHost]
  /\ on' = [on EXCEPT ![t] = NoLookup]
  /\ fut' = [fut EXCEPT ![t] = "none"]
  /\ out' = [out EXCEPT ![t] = result]

\* The call depends on lookup l from now on.
Await(t, h, l, point) ==
  /\ pc' = [pc EXCEPT ![t] = point]
  /\ key' = [key EXCEPT ![t] = h]
  /\ on' = [on EXCEPT ![t] = l]
  /\ fut' = [fut EXCEPT ![t] = "pending"]
  /\ out' = [out EXCEPT ![t] = "none"]

\* A fresh cache entry: the result is taken before the trace is awaited.
CacheHit(t, h) ==
  /\ pc[t] = "idle" /\ cached[h] = "fresh"
  /\ IF Traced
     THEN /\ pc' = [pc EXCEPT ![t] = "hit"]
          /\ key' = [key EXCEPT ![t] = h]
          /\ out' = [out EXCEPT ![t] = "none"]
          /\ UNCHANGED <<on, fut>>
     ELSE Finish(t, "addrs")
  /\ UNCHANGED <<closed, cached, throttle, lookupVars>>

\* Somebody is resolving the host.
Join(t, h) ==
  /\ pc[t] = "idle" /\ cached[h] # "fresh" /\ throttle[h] # NoLookup
  /\ Await(t, h, throttle[h], IF Traced THEN "joined" ELSE "waiting")
  /\ UNCHANGED <<closed, cached, throttle, lookupVars>>

\* Bug: the lookup is not entered in the throttle before the first await.
BadStartLookup(t, h) ==
  /\ pc[t] = "idle" /\ cached[h] # "fresh" /\ throttle[h] = NoLookup
  /\ \E l \in Unused :
       /\ state' = [state EXCEPT ![l] = IF Eager THEN FirstAwait ELSE "scheduled"]
       /\ host' = [host EXCEPT ![l] = h]
       /\ Await(t, h, l, "owner")
  /\ UNCHANGED <<closed, cached, throttle, doomed>>

\* Nobody is: the throttle is entered before anything is awaited.
StartLookup(t, h) ==
  /\ pc[t] = "idle" /\ cached[h] # "fresh" /\ throttle[h] = NoLookup
  /\ \E l \in Unused :
       /\ throttle' = [throttle EXCEPT ![h] = l]
       /\ state' = [state EXCEPT ![l] = IF Eager THEN FirstAwait ELSE "scheduled"]
       /\ host' = [host EXCEPT ![l] = h]
       /\ Await(t, h, l, "owner")
  /\ UNCHANGED <<closed, cached, doomed>>

\* The dns_cache_hit trace returns, or raises.
HitTraced(t) ==
  /\ pc[t] = "hit"
  /\ Finish(t, "addrs") \/ Finish(t, "error")
  /\ UNCHANGED <<closed, cached, throttle, lookupVars>>

JoinTraced(t) ==
  /\ pc[t] = "joined"
  /\ \/ Finish(t, "error")
     \/ pc' = [pc EXCEPT ![t] = "waiting"] /\ UNCHANGED <<key, on, fut, out>>
  /\ UNCHANGED <<closed, cached, throttle, lookupVars>>

\* A throttled caller reads the cache only now, after its future was resolved.
Resume(t) ==
  /\ pc[t] = "waiting"
  /\ \/ fut[t] = "result" /\ Finish(t, IF cached[key[t]] = "none" THEN "keyerror" ELSE "addrs")
     \/ fut[t] \in {"error", "cancelled"} /\ Finish(t, fut[t])
  /\ UNCHANGED <<closed, cached, throttle, lookupVars>>

\* The owner gets what the lookup itself returned or raised.
OwnerResume(t) ==
  /\ pc[t] = "owner"
  /\ \/ fut[t] = "result" /\ Finish(t, "addrs")
     \/ fut[t] \in {"error", "cancelled"} /\ Finish(t, fut[t])
  /\ UNCHANGED <<closed, cached, throttle, lookupVars>>

\* Bug: the owner awaits the lookup without a shield.
BadCancel(t) ==
  /\ pc[t] # "idle"
  /\ Finish(t, "left")
  /\ doomed' = doomed \cup ({on[t]} \cap Running)
  /\ UNCHANGED <<closed, cached, throttle, state, host>>

\* The caller is cancelled, or times out, at any await; the lookup goes on.
Cancel(t) ==
  /\ pc[t] # "idle"
  /\ Finish(t, "left")
  /\ UNCHANGED <<closed, cached, throttle, lookupVars>>

-----------------------------------------------------------------------------
(* The lookup task. *)

\* Task l ends and its owner learns how.  Waiters of the lookup get a result
\* only if it sets one for all of them.
EndLookup(l, ownerGets, waitersGet) ==
  /\ state' = [state EXCEPT ![l] = "off"]
  /\ host' = [host EXCEPT ![l] = NoHost]
  /\ doomed' = doomed \ {l}
  /\ fut' = [t \in Task |->
       CASE on[t] = l /\ fut[t] = "pending" /\ pc[t] = "owner" -> ownerGets
         [] on[t] = l /\ fut[t] = "pending" /\ pc[t] # "owner" -> waitersGet
         [] OTHER -> fut[t]]
  /\ UNCHANGED <<closed, pc, key, on, out>>

\* The first step of a task that is not eager; a cancelled one never runs.
Begin(l) ==
  /\ state[l] = "scheduled"
  /\ \/ /\ l \notin doomed
        /\ state' = [state EXCEPT ![l] = FirstAwait]
        /\ UNCHANGED <<closed, host, doomed, callVars>>
     \/ l \in doomed /\ EndLookup(l, "cancelled", "pending")
  /\ UNCHANGED <<cached, throttle>>

\* The dns_cache_miss trace, which is outside of the try block.
MissTraced(l) ==
  /\ state[l] = "miss"
  /\ \/ /\ l \notin doomed
        /\ state' = [state EXCEPT ![l] = "resolving"]
        /\ UNCHANGED <<closed, host, doomed, callVars>>
     \/ l \in doomed /\ EndLookup(l, "cancelled", "pending")
     \/ l \notin doomed /\ EndLookup(l, "error", "pending")
  /\ UNCHANGED <<cached, throttle>>

\* Bug: the waiters are resolved but the throttle is not popped.
BadResolved(l) ==
  /\ state[l] = "resolving" /\ l \notin doomed
  /\ cached' = [cached EXCEPT ![host[l]] = "fresh"]
  /\ EndLookup(l, "result", "result")
  /\ UNCHANGED throttle

\* The resolver answers: the entry is cached, then every waiter is resolved.
Resolved(l) ==
  /\ state[l] = "resolving" /\ l \notin doomed
  /\ cached' = [cached EXCEPT ![host[l]] = "fresh"]
  /\ throttle' = [throttle EXCEPT ![host[l]] = NoLookup]
  /\ EndLookup(l, "result", "result")

\* Bug: a failed lookup tells only its owner.
BadResolveFails(l) ==
  /\ state[l] = "resolving"
  /\ throttle' = [throttle EXCEPT ![host[l]] = NoLookup]
  /\ EndLookup(l, "error", "pending")
  /\ UNCHANGED cached

\* The resolver or a trace around it raises, or close() cancelled the lookup;
\* every waiter gets the same exception.
ResolveFails(l) ==
  /\ state[l] = "resolving"
  /\ throttle' = [throttle EXCEPT ![host[l]] = NoLookup]
  /\ LET how == IF l \in doomed THEN "cancelled" ELSE "error" IN EndLookup(l, how, how)
  /\ UNCHANGED cached

-----------------------------------------------------------------------------
(* The cache and close(). *)

\* Bug: an entry is dropped once its ttl has passed.
BadExpire(h) ==
  /\ cached[h] = "fresh"
  /\ cached' = [cached EXCEPT ![h] = "none"]
  /\ UNCHANGED <<closed, throttle, lookupVars, callVars>>

\* The ttl of an entry passes; the entry stays until it is replaced.
Expire(h) ==
  /\ cached[h] = "fresh"
  /\ cached' = [cached EXCEPT ![h] = "stale"]
  /\ UNCHANGED <<closed, throttle, lookupVars, callVars>>

\* clear_dns_cache, of one key or of all.
ClearDnsCache ==
  /\ MayClear
  /\ \E gone \in {{h} : h \in Host} \cup {Host} :
       cached' = [h \in Host |-> IF h \in gone THEN "none" ELSE cached[h]]
  /\ UNCHANGED <<closed, throttle, lookupVars, callVars>>

\* TCPConnector.close: the throttled futures and the lookups are cancelled,
\* each time it is called.
Close ==
  /\ closed' = TRUE
  /\ doomed' = Running
  /\ fut' = [t \in Task |->
       IF pc[t] \in {"joined", "waiting"} /\ fut[t] = "pending" /\ throttle[key[t]] = on[t]
       THEN "cancelled" ELSE fut[t]]
  /\ UNCHANGED <<cached, throttle, state, host, pc, key, on, out>>

Next ==
  \/ \E t \in Task, h \in Host : CacheHit(t, h) \/ Join(t, h) \/ StartLookup(t, h)
  \/ \E t \in Task : HitTraced(t) \/ JoinTraced(t) \/ Resume(t) \/ OwnerResume(t) \/ Cancel(t)
  \/ \E l \in Lookup : Begin(l) \/ MissTraced(l) \/ Resolved(l) \/ ResolveFails(l)
  \/ \E h \in Host : Expire(h)
  \/ ClearDnsCache
  \/ Close

Spec == Init /\ [][Next]_vars

\* The event loop runs what is ready, traces return, the resolver answers or
\* fails.  Nobody has to call, to cancel, to clear the cache or to close.
Fairness ==
  /\ \A t \in Task : /\ WF_vars(HitTraced(t)) /\ WF_vars(JoinTraced(t))
                     /\ WF_vars(Resume(t)) /\ WF_vars(OwnerResume(t))
  /\ \A l \in Lookup : WF_vars(Begin(l) \/ MissTraced(l) \/ Resolved(l) \/ ResolveFails(l))

FairSpec == Spec /\ Fairness

-----------------------------------------------------------------------------
(* What the throttle must satisfy. *)

\* The values of the variables and the shape of the await points.
TypeOK ==
  /\ closed \in BOOLEAN
  /\ cached \in [Host -> {"none", "fresh", "stale"}]
  /\ throttle \in [Host -> Lookup \cup {NoLookup}]
  /\ state \in [Lookup -> {"off", "scheduled", "miss", "resolving"}]
  /\ host \in [Lookup -> Host \cup {NoHost}]
  /\ doomed \subseteq Running
  /\ pc \in [Task -> {"idle", "hit", "joined", "waiting", "owner"}]
  /\ key \in [Task -> Host \cup {NoHost}]
  /\ on \in [Task -> Lookup \cup {NoLookup}]
  /\ fut \in [Task -> {"none", "pending", "result", "error", "cancelled"}]
  /\ out \in [Task -> {"none", "addrs", "error", "cancelled", "left", "keyerror"}]
  /\ \A l \in Lookup : state[l] = "off" <=> host[l] = NoHost
  /\ \A t \in Task : /\ pc[t] = "idle" <=> key[t] = NoHost
                     /\ pc[t] \in {"idle", "hit"} <=> on[t] = NoLookup
                     /\ pc[t] \in {"idle", "hit"} <=> fut[t] = "none"

\* A host is resolved by one lookup at a time, however the callers interleave.
SingleFlight == \A l, m \in Running : l # m => host[l] # host[m]

\* A pending future belongs to a lookup that is running for the same host, so
\* that somebody will resolve it.  A lookup task that never started (before
\* Python 3.12, when close() comes first) is the exception.
NobodyForgotten ==
  (Eager \/ ~closed) =>
    \A t \in Task : fut[t] = "pending" => on[t] \in Running /\ host[on[t]] = key[t]

\* The throttle holds the running lookups and no others: a finished lookup
\* does not capture later callers.
ThrottleIsRunning ==
  (Eager \/ ~closed) => {throttle[h] : h \in Host} \ {NoLookup} = Running

\* The cancellation of one caller reaches no other.
CancelNotBroadcast == \A t \in Task : "cancelled" \in {fut[t], out[t]} => closed

\* Every call ends.
CallsEnd == \A t \in Task : pc[t] # "idle" ~> pc[t] = "idle"

\* connector.py:954-957, "we wait for the first one to resolve and then use the
\* result for all of them": a throttled caller gets the addresses.
ResultForAll == \A t \in Task : out[t] # "keyerror"
=============================================================================
