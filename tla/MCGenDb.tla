------------------------------ MODULE MCGenDb ------------------------------
(* GenDb for TLC: enough queries for every path with the troubles allowed. *)
EXTENDS GenDb
============================================================================
