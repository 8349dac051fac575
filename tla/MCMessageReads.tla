--------------------------- MODULE MCMessageReads ---------------------------
(* Two members, one of them with an iOS device: no symmetry, and a temporal  *)
(* property besides.                                                         *)
EXTENDS MessageReads
=============================================================================
