--------------------------- MODULE MCDnsThrottle ---------------------------
(* Model-checking instances of DnsThrottle.  A caller that starts a lookup   *)
(* finds an unused one: each other caller refers to at most one, and each    *)
(* other host has at most one in the throttle.                               *)
EXTENDS DnsThrottle, TLC

ASSUME EnoughLookups == Cardinality(Lookup) >= Cardinality(Task) + Cardinality(Host) - 1

\* Used for safety runs only.
Symmetry == Permutations(Task) \cup Permutations(Host) \cup Permutations(Lookup)
=============================================================================
