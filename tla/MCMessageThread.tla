-------------------------- MODULE MCMessageThread --------------------------
(* MessageThread for TLC. *)
EXTENDS MessageThread
=============================================================================
