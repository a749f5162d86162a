--------------------------- MODULE MCVoipHandshake ---------------------------
(* VoipHandshake for TLC. *)
EXTENDS VoipHandshake
=============================================================================
