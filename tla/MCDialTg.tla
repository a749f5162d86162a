------------------------------ MODULE MCDialTg ------------------------------
(* DialTg for TLC: one name, one number and two users; four contacts, one  *)
(* of each kind load_cache treats differently, the last never read.        *)
EXTENDS DialTg

CONSTANTS alice, bob, aliceName, bobPhone

ContactList == <<
    [status |-> "error", id |-> bob, username |-> None, phone |-> bobPhone],
    [status |-> "ok", id |-> alice, username |-> aliceName, phone |-> None],
    [status |-> "no_access", id |-> bob, username |-> None, phone |-> None],
    [status |-> "ok", id |-> bob, username |-> None, phone |-> bobPhone] >>
=============================================================================
