-------------------------- MODULE MCLocalScheduler --------------------------
(* Model-checking instances of LocalScheduler: every graph of N keys, every  *)
(* choice of data nodes and of wanted keys.                                  *)
EXTENDS LocalScheduler

OneAndTwo == {1, 2}
=============================================================================
