----------------------------- MODULE MCTgClient -----------------------------
(* TgClient for TLC: the sign-on's three queries, load_cache with two      *)
(* contacts and one query of a handler after it.                           *)
EXTENDS TgClient
=============================================================================
