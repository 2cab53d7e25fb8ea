---------------------------- MODULE MCStreamFlow ----------------------------
(* Model-checking instances of StreamFlow. *)
EXTENDS StreamFlow

Method(kind, n) == [kind |-> kind, n |-> n]

AllMethods ==
  {Method("some", -1), Method("some", 1), Method("nowait", 1), Method("all", -1),
   Method("exactly", 2), Method("until", 0), Method("chunk", -1)}
=============================================================================
