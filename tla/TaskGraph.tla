----------------------------- MODULE TaskGraph -----------------------------
(***************************************************************************)
(* What a scheduler of dask graphs promises: a task is computed once, when   *)
(* the results of its dependencies are at hand; a result is discarded only   *)
(* when all its dependents are computed and nobody asked for it; what was    *)
(* asked for is delivered when everything is computed.                       *)
(***************************************************************************)
CONSTANT Key

VARIABLES
  deps,    \* the graph: what each key depends on
  want,    \* keys whose results are asked for
  done,    \* keys with a result, ever
  kept,    \* keys whose result is at hand
  outcome  \* running, delivered or raised

graphVars == <<deps, want>>
vars == <<deps, want, done, kept, outcome>>

Dependents(k) == {j \in Key : k \in deps[j]}

\* Results that may go once the keys in computed are computed.
Disposable(computed) == {d \in computed : d \notin want /\ Dependents(d) \subseteq computed}

Init ==
  /\ deps \in [Key -> SUBSET Key]
  /\ want \in SUBSET Key
  /\ done \in SUBSET {k \in Key : deps[k] = {}}
  /\ kept = done
  /\ outcome \in {"running", "raised"}

\* One task is computed; any of the results that may go are discarded with it.
Compute(k) ==
  /\ outcome = "running" /\ k \notin done /\ deps[k] \subseteq kept
  /\ done' = done \cup {k}
  /\ \E gone \in SUBSET Disposable(done') : kept' = (kept \cup {k}) \ gone
  /\ UNCHANGED <<graphVars, outcome>>

Deliver ==
  /\ outcome = "running" /\ done = Key /\ want \subseteq kept
  /\ outcome' = "delivered"
  /\ UNCHANGED <<graphVars, done, kept>>

Raise ==
  /\ outcome = "running"
  /\ outcome' = "raised"
  /\ UNCHANGED <<graphVars, done, kept>>

Next == (\E k \in Key : Compute(k)) \/ Deliver \/ Raise

Spec == Init /\ [][Next]_vars

\* Inputs of what is still to be computed, and wanted results, are never lost.
NothingLost ==
  /\ \A k \in Key \ done : deps[k] \cap done \subseteq kept
  /\ want \cap done \subseteq kept
=============================================================================
