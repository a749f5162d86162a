---------------------------- MODULE MCAudioPath ----------------------------
(* AudioPath for TLC. *)
EXTENDS AudioPath
=============================================================================
