---------------------------- MODULE MCGoGateway ----------------------------
(* GoGateway for TLC. *)
EXTENDS GoGateway

CONSTANTS a, t   \* a Call-ID, and the id of a Telegram call
=============================================================================
