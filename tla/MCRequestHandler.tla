-------------------------- MODULE MCRequestHandler --------------------------
(* Model-checking instances of RequestHandler. *)
EXTENDS RequestHandler
=============================================================================
