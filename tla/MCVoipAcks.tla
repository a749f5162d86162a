----------------------------- MODULE MCVoipAcks -----------------------------
(* VoipAcks for TLC. *)
EXTENDS VoipAcks
=============================================================================
