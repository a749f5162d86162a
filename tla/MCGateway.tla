----------------------------- MODULE MCGateway -----------------------------
(* The gateway with DTMF for TLC.  The configurations choose who calls     *)
(* whom, and which media changes a run pays for.  Every Telegram call is   *)
(* with the same user; one chat carries that user's id and one does not.   *)
EXTENDS DtmfRouting

OneUser == [t \in TgId |-> 7]
AllMedia == MediaChange
MediaUp == {<<"none", "active">>}
MediaUpDown == {<<"none", "active">>, <<"active", "lost">>}
=============================================================================
