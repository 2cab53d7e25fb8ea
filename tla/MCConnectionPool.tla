-------------------------- MODULE MCConnectionPool --------------------------
(* Model-checking instances of ConnectionPool. *)
EXTENDS ConnectionPool, TLC

\* Tasks, keys and transports are interchangeable; used for safety runs only.
Symmetry == Permutations(Task) \cup Permutations(Key) \cup Permutations(Conn)
=============================================================================
