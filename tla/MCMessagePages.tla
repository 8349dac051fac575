---------------------------- MODULE MCMessagePages ----------------------------
(* Half seconds, and pages of two messages. *)
EXTENDS MessagePages
===============================================================================
